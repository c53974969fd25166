------------------------ MODULE WebSocketRelayProofs ------------------------
(***************************************************************************)
(* Theorems about WebSocketRelay for connections of any capacity and any    *)
(* number of messages: what the two loops owe the ends in every             *)
(* interleaving, also when select! drops a loop in the middle of a send.    *)
(***************************************************************************)
EXTENDS WebSocketRelay, StreamLemmas

\* The states in which everything read has been handed on or is held.
Whole == pc \in {"connecting", "upgrading", "forwarding"}

\* Messages read by a loop, up to the one it holds.
Read(d) == Len(received[d]) + Len(outbox[d]) + Len(held[d])

\* On its way a message is behind the ones received, in order and without a
\* gap; what close() may still flush comes next, too.
Ordered(d) ==
    /\ Follows(outbox[d], Len(received[d]))
    /\ Follows(held[d], Len(received[d]) + Len(outbox[d]))
    /\ Read(d) + Len(inbox[d]) <= sent[d]
    /\ Whole => Read(d) + Len(inbox[d]) = sent[d] /\ Follows(inbox[d], Read(d))

InOrder == \A d \in Loops : Ordered(d)

\* A stream that has ended the loops has been forwarded to its end.
EndedEmpty ==
    \A d \in Loops :
        cause = d =>
            /\ held[d] = <<>> /\ inbox[d] = <<>> /\ finished[d]
            /\ Len(received[d]) + Len(outbox[d]) = sent[d]

\* The loops run before anything has ended them and anybody is told.
RunningIsFresh == Whole => cause = "none" /\ told = {}

\* The inductive invariant.
SocketInv == TypeOK /\ InOrder /\ EndedEmpty /\ RunningIsFresh

-----------------------------------------------------------------------------
(* The streams.                                                             *)

\* The queues of a direction are sequences of numbers.
LEMMA QueueTypes ==
    ASSUME TypeOK, NEW d \in Loops
    PROVE  /\ inbox[d] \in Seq(Nat) /\ Len(inbox[d]) \in Nat
           /\ outbox[d] \in Seq(Nat) /\ Len(outbox[d]) \in Nat
           /\ held[d] \in Seq(Nat) /\ Len(held[d]) \in Nat
           /\ received[d] \in Seq(Nat) /\ Len(received[d]) \in Nat
           /\ sent[d] \in Nat
<1>1. /\ inbox[d] \in Seq(Nat) /\ outbox[d] \in Seq(Nat) /\ held[d] \in Seq(Nat)
      /\ received[d] \in Seq(Nat) /\ sent[d] \in Nat
  BY DEF TypeOK
<1> QED
  BY <1>1, LenProperties

\* The loop to an end is one of the two.
LEMMA LoopOfEnd == \A e \in Ends : LoopTo(e) \in Loops
BY DEF Ends, LoopTo, Loops, Sink

\* A step of one direction leaves the other one in order.
LEMMA OtherDirection ==
    ASSUME SocketInv, NEW d \in Loops, Whole' => Whole, Ordered(d)',
           \A e \in Loops \ {d} :
                /\ inbox'[e] = inbox[e] /\ outbox'[e] = outbox[e] /\ held'[e] = held[e]
                /\ received'[e] = received[e] /\ sent'[e] = sent[e]
    PROVE  InOrder'
<1>1. \A e \in Loops \ {d} : Ordered(e)'
  BY DEF SocketInv, InOrder, Ordered, Read
<1> QED
  BY <1>1 DEF InOrder, Ordered

\* A step that moves no message.
LEMMA QuietKeepsOrder ==
    ASSUME SocketInv, Whole' => Whole,
           UNCHANGED <<inbox, outbox, held, received, sent>>
    PROVE  InOrder'
BY DEF SocketInv, InOrder, Ordered, Read

\* A loop reads the message that comes next.
LEMMA ReadKeepsOrder ==
    ASSUME SocketInv, NEW d \in Loops, ReadMessage(d)
    PROVE  /\ InOrder'
           /\ held'[d] \in Seq(Nat) /\ Len(held'[d]) <= 1
           /\ inbox'[d] \in Seq(Nat)
<1> DEFINE r == Len(received[d])
           o == Len(outbox[d])
           i == Len(inbox[d])
<1>1. /\ TypeOK /\ Whole /\ r \in Nat /\ o \in Nat /\ i \in Nat
      /\ held[d] = <<>> /\ Len(held[d]) = 0
      /\ Read(d) = r + o + 0
  BY QueueTypes, EmptySeq DEF SocketInv, ReadMessage, Whole, Read
<1>2. /\ Follows(outbox[d], r) /\ Read(d) + i = sent[d]
      /\ Follows(inbox[d], Read(d))
  BY <1>1 DEF SocketInv, InOrder, Ordered
<1>3. /\ held' = [held EXCEPT ![d] = <<Head(inbox[d])>>]
      /\ inbox' = [inbox EXCEPT ![d] = Tail(inbox[d])] /\ inbox[d] # <<>>
      /\ pc' = pc /\ UNCHANGED <<outbox, received, sent>>
  BY DEF ReadMessage, task, ends
<1>4. inbox[d] \in Seq(Nat)
  BY <1>1, QueueTypes
<1> HIDE DEF r, o, i
<1>5. Read(d) = r + o /\ r + o \in Nat
  BY <1>1
<1>6. /\ Head(inbox[d]) = (r + o) + 1
      /\ Tail(inbox[d]) \in Seq(Nat) /\ Len(Tail(inbox[d])) = i - 1
      /\ Follows(Tail(inbox[d]), (r + o) + 1)
  BY <1>2, <1>3, <1>4, <1>5, TailFollows DEF i
<1>7. /\ held'[d] = <<(r + o) + 1>> /\ inbox'[d] = Tail(inbox[d])
      /\ \A e \in Loops \ {d} : held'[e] = held[e] /\ inbox'[e] = inbox[e]
  BY <1>1, <1>3, <1>6 DEF TypeOK
<1>8. held'[d] \in Seq(Nat) /\ Len(held'[d]) = 1 /\ Follows(held'[d], r + o)
  BY <1>5, <1>7, OneFollows
<1>9. Read(d)' = (r + o) + 1
  BY <1>3, <1>8 DEF Read, r, o
<1>10. (r + o) + 1 + (i - 1) = sent[d]
  BY <1>1, <1>2, <1>5
<1>11. Read(d)' + Len(inbox'[d]) = sent'[d] /\ Read(d)' + Len(inbox'[d]) <= sent'[d]
  <2>1. sent[d] \in Nat /\ sent[d] <= sent[d]
    BY <1>1, QueueTypes
  <2> QED
    BY <1>3, <1>6, <1>7, <1>9, <1>10, <2>1
<1>12. /\ Follows(outbox'[d], Len(received'[d]))
       /\ Follows(held'[d], Len(received'[d]) + Len(outbox'[d]))
       /\ Follows(inbox'[d], Read(d)')
  BY <1>2, <1>3, <1>6, <1>7, <1>8, <1>9 DEF r, o
<1>13. Ordered(d)'
  BY <1>11, <1>12 DEF Ordered
<1>14. InOrder'
  BY <1>1, <1>3, <1>7, <1>13, OtherDirection
<1>15. Len(held'[d]) <= 1
  <2> DEFINE n == Len(held'[d])
  <2>1. n = 1
    BY <1>8
  <2> HIDE DEF n
  <2>2. n <= 1
    BY <2>1
  <2> QED
    BY <2>2 DEF n
<1> QED
  BY <1>6, <1>7, <1>8, <1>14, <1>15

\* What a loop holds goes into the outbox, in the loop or by the flush of
\* close().
LEMMA FlushKeepsOrder ==
    ASSUME SocketInv, NEW d \in Loops, Whole' => Whole,
           outbox' = [outbox EXCEPT ![d] = @ \o held[d]],
           held' = [held EXCEPT ![d] = <<>>],
           UNCHANGED <<inbox, received, sent>>
    PROVE  InOrder' /\ outbox'[d] \in Seq(Nat)
<1> DEFINE r == Len(received[d])
           o == Len(outbox[d])
           h == Len(held[d])
<1>1. /\ TypeOK /\ r \in Nat /\ o \in Nat /\ h \in Nat
      /\ outbox[d] \in Seq(Nat) /\ held[d] \in Seq(Nat)
      /\ Read(d) = r + o + h
  BY QueueTypes DEF SocketInv, Read
<1>2. Ordered(d)
  BY DEF SocketInv, InOrder, Ordered
<1>3. /\ outbox'[d] = outbox[d] \o held[d] /\ held'[d] = <<>>
      /\ \A e \in Loops \ {d} : outbox'[e] = outbox[e] /\ held'[e] = held[e]
  BY <1>1 DEF TypeOK
<1>4. /\ outbox'[d] \in Seq(Nat) /\ Len(outbox'[d]) = o + h /\ Follows(outbox'[d], r)
  <2>1. Follows(outbox[d], r) /\ Follows(held[d], r + Len(outbox[d]))
    BY <1>2 DEF Ordered
  <2> HIDE DEF r
  <2>2. /\ outbox[d] \o held[d] \in Seq(Nat)
        /\ Len(outbox[d] \o held[d]) = Len(outbox[d]) + Len(held[d])
        /\ Follows(outbox[d] \o held[d], r)
    BY <1>1, <2>1, JoinFollows
  <2> QED
    BY <1>3, <2>2
<1>5. Len(held'[d]) = 0 /\ \A n : Follows(held'[d], n)
  BY <1>3, EmptyFollows, EmptySeq
<1>6. Read(d)' = r + (o + h) + 0
  BY <1>4, <1>5 DEF Read
<1> HIDE DEF r, o, h
<1>7. Read(d)' = Read(d)
  BY <1>1, <1>6
<1>8. Ordered(d)'
  BY <1>2, <1>4, <1>5, <1>7 DEF Ordered, r
<1> QED
  BY <1>3, <1>4, <1>8, OtherDirection

\* What a loop holds is lost.
LEMMA DropKeepsOrder ==
    ASSUME SocketInv, NEW d \in Loops, ~Whole',
           held' = [held EXCEPT ![d] = <<>>],
           UNCHANGED <<inbox, outbox, received, sent>>
    PROVE  InOrder'
<1> DEFINE r == Len(received[d])
           o == Len(outbox[d])
           h == Len(held[d])
           i == Len(inbox[d])
<1>1. /\ TypeOK /\ r \in Nat /\ o \in Nat /\ h \in Nat /\ i \in Nat /\ sent[d] \in Nat
      /\ Read(d) = r + o + h
  BY QueueTypes DEF SocketInv, Read
<1>2. Follows(outbox[d], r) /\ Read(d) + i <= sent[d]
  BY DEF SocketInv, InOrder, Ordered
<1>3. /\ held'[d] = <<>>
      /\ \A e \in Loops \ {d} : held'[e] = held[e]
  BY <1>1 DEF TypeOK
<1>4. Len(held'[d]) = 0 /\ \A n : Follows(held'[d], n)
  BY <1>3, EmptyFollows, EmptySeq
<1>5. Read(d)' = r + o + 0
  BY <1>4 DEF Read
<1> HIDE DEF r, o, h, i
<1>6. Read(d)' + i <= sent[d]
  BY <1>1, <1>2, <1>5
<1>7. Ordered(d)'
  BY <1>2, <1>4, <1>6 DEF Ordered, r, i
<1> QED
  BY <1>3, <1>7, OtherDirection

\* An end sends its next message.
LEMMA SendKeepsOrder ==
    ASSUME SocketInv, NEW d \in Loops, Send(d)
    PROVE  InOrder' /\ inbox'[d] \in Seq(Nat)
<1> DEFINE k == Read(d)
           i == Len(inbox[d])
<1>1. /\ TypeOK /\ i \in Nat /\ sent[d] \in Nat /\ inbox[d] \in Seq(Nat)
      /\ Ordered(d)
  BY QueueTypes DEF SocketInv, InOrder, Ordered
<1>2. k \in Nat
  <2> DEFINE r == Len(received[d])
             o == Len(outbox[d])
             h == Len(held[d])
  <2>1. r \in Nat /\ o \in Nat /\ h \in Nat /\ k = r + o + h
    BY <1>1, QueueTypes DEF Read
  <2> HIDE DEF r, o, h, k
  <2> QED
    BY <2>1
<1>3. /\ sent' = [sent EXCEPT ![d] = sent[d] + 1]
      /\ inbox' = [inbox EXCEPT ![d] = Append(inbox[d], sent[d] + 1)]
      /\ pc' = pc /\ UNCHANGED <<held, outbox, received>>
  BY DEF Send, task
<1>4. /\ sent'[d] = sent[d] + 1 /\ inbox'[d] = Append(inbox[d], sent[d] + 1)
      /\ \A e \in Loops \ {d} : sent'[e] = sent[e] /\ inbox'[e] = inbox[e]
  BY <1>1, <1>3 DEF TypeOK
<1>5. inbox'[d] \in Seq(Nat) /\ Len(inbox'[d]) = i + 1
  BY <1>1, <1>4, AppendProperties
<1>6. Read(d)' = k /\ (Whole' <=> Whole)
  BY <1>3 DEF Read, Whole
<1>7. k + i <= sent[d] /\ (Whole => k + i = sent[d] /\ Follows(inbox[d], k))
  BY <1>1 DEF Ordered
<1> HIDE DEF k, i
<1>8. k + (i + 1) <= sent[d] + 1 /\ (Whole => k + (i + 1) = sent[d] + 1)
  BY <1>1, <1>2, <1>7
<1>9. Whole => Follows(inbox'[d], k)
  BY <1>1, <1>2, <1>4, <1>7, AppendFollows DEF i
<1>10. Ordered(d)'
  BY <1>1, <1>3, <1>4, <1>5, <1>6, <1>8, <1>9 DEF Ordered
<1> QED
  BY <1>3, <1>4, <1>5, <1>6, <1>10, OtherDirection

\* An end receives the message that comes next.
LEMMA ReceiveKeepsOrder ==
    ASSUME SocketInv, NEW d \in Loops, Receive(d)
    PROVE  /\ InOrder'
           /\ outbox'[d] \in Seq(Nat) /\ received'[d] \in Seq(Nat)
           /\ Len(received'[d]) + Len(outbox'[d]) = Len(received[d]) + Len(outbox[d])
           /\ received' = [received EXCEPT ![d] = Append(@, Len(@) + 1)]
           /\ Len(received[d]) < sent[d]
<1> DEFINE r == Len(received[d])
           o == Len(outbox[d])
           h == Len(held[d])
           i == Len(inbox[d])
<1>1. /\ TypeOK /\ r \in Nat /\ o \in Nat /\ h \in Nat /\ i \in Nat /\ sent[d] \in Nat
      /\ Read(d) = r + o + h /\ received[d] \in Seq(Nat)
      /\ Ordered(d)
  BY QueueTypes DEF SocketInv, Read, InOrder, Ordered
<1>2. /\ received' = [received EXCEPT ![d] = Append(received[d], Head(outbox[d]))]
      /\ outbox' = [outbox EXCEPT ![d] = Tail(outbox[d])] /\ outbox[d] # <<>>
      /\ pc' = pc /\ UNCHANGED <<held, inbox, sent>>
  BY DEF Receive, task
<1>3. /\ Head(outbox[d]) = r + 1 /\ Head(outbox[d]) \in Nat
      /\ Tail(outbox[d]) \in Seq(Nat) /\ Len(Tail(outbox[d])) = o - 1 /\ o >= 1
      /\ Follows(Tail(outbox[d]), r + 1)
  <2>1. outbox[d] \in Seq(Nat) /\ Follows(outbox[d], r)
    BY <1>1, QueueTypes DEF Ordered
  <2> QED
    BY <1>1, <1>2, <2>1, TailFollows
<1>4. /\ received'[d] \in Seq(Nat) /\ Len(received'[d]) = r + 1
      /\ outbox'[d] = Tail(outbox[d])
      /\ \A e \in Loops \ {d} : received'[e] = received[e] /\ outbox'[e] = outbox[e]
  BY <1>1, <1>2, <1>3, AppendProperties DEF TypeOK
<1>5. /\ Read(d)' = (r + 1) + (o - 1) + h
      /\ Len(received'[d]) + Len(outbox'[d]) = (r + 1) + (o - 1)
  BY <1>2, <1>3, <1>4 DEF Read
<1>6. r + o + h + i <= sent[d] /\ Follows(held[d], r + o)
  BY <1>1 DEF Ordered
<1> HIDE DEF r, o, h, i
<1>7. /\ (r + 1) + (o - 1) + h = r + o + h /\ (r + 1) + (o - 1) = r + o
      /\ r < sent[d]
  BY <1>1, <1>3, <1>6
<1>8. Read(d)' = Read(d) /\ Len(received'[d]) + Len(outbox'[d]) = r + o
  BY <1>1, <1>5, <1>7
<1>9. /\ Follows(outbox'[d], Len(received'[d]))
      /\ Follows(held'[d], Len(received'[d]) + Len(outbox'[d]))
  BY <1>2, <1>3, <1>4, <1>6, <1>8
<1>10. Ordered(d)'
  BY <1>1, <1>2, <1>8, <1>9 DEF Ordered, Whole
<1>11. InOrder'
  BY <1>2, <1>4, <1>10, OtherDirection DEF Whole
<1> QED
  BY <1>2, <1>3, <1>4, <1>7, <1>8, <1>11 DEF r, o

\* The steps that move no message: the handshake, the end of a stream and the
\* failures.
QuietStep ==
    \/ Handshake
    \/ \E d \in Loops : StreamEnds(d) \/ ReadError(d) \/ EndStream(d)
    \/ \E e \in Ends : Break(e)
    \/ UNCHANGED vars

\* They leave the queues alone, and mend nothing that was dropped.
LEMMA QuietStepMoves ==
    ASSUME QuietStep
    PROVE  UNCHANGED <<inbox, outbox, held, received, sent>> /\ (Whole' => Whole)
<1>1. CASE Handshake
  BY <1>1 DEF Handshake, ConnectTarget, ConnectFails, HandlerDropped, Upgraded,
              UpgradeFails, Step, ends, Whole
<1>2. CASE \E d \in Loops : StreamEnds(d) \/ ReadError(d)
  BY <1>2 DEF StreamEnds, ReadError, EndLoops, ends, Whole
<1>3. CASE (\E d \in Loops : EndStream(d)) \/ (\E e \in Ends : Break(e)) \/ UNCHANGED vars
  BY <1>3 DEF EndStream, Break, task, ends, vars, Whole
<1> QED
  BY <1>1, <1>2, <1>3 DEF QuietStep

\* What a step of close() does with the messages of the loop to that end.
LEMMA CloseMoves ==
    ASSUME SocketInv, NEW e \in Ends, CloseEnd(e) \/ CloseFails(e)
    PROVE  /\ held' = [held EXCEPT ![LoopTo(e)] = <<>>]
           /\ \/ outbox' = outbox
              \/ outbox' = [outbox EXCEPT ![LoopTo(e)] = @ \o held[LoopTo(e)]]
           /\ told' \in {told, told \cup {e}}
           /\ UNCHANGED <<response, cause, inbox, ends>>
BY DEF CloseEnd, CloseFails

\* Both steps of close() come after the loops.
LEMMA CloseStep ==
    ASSUME SocketInv, CloseClient \/ CloseTarget
    PROVE  /\ \E e \in Ends : CloseEnd(e) \/ CloseFails(e)
           /\ ~Whole /\ ~Whole' /\ pc' \in {"close_target", "ended"}
BY DEF CloseClient, CloseTarget, Ends, Whole

\* Every step keeps the messages in order.
LEMMA OrderNext == SocketInv /\ [Next]_vars => InOrder'
<1> SUFFICES ASSUME SocketInv, [Next]_vars PROVE InOrder'
  OBVIOUS
<1>1. CASE QuietStep
  BY <1>1, QuietStepMoves, QuietKeepsOrder
<1>2. ASSUME NEW d \in Loops, Forward(d)
      PROVE  InOrder'
  <2>1. /\ outbox' = [outbox EXCEPT ![d] = @ \o held[d]]
        /\ held' = [held EXCEPT ![d] = <<>>]
        /\ UNCHANGED <<inbox, received, sent>> /\ (Whole' => Whole)
    BY <1>2 DEF Forward, task, ends, Whole
  <2> QED
    BY <2>1, FlushKeepsOrder
<1>3. ASSUME NEW d \in Loops, SendError(d)
      PROVE  InOrder'
  <2>1. /\ held' = [held EXCEPT ![d] = <<>>] /\ ~Whole'
        /\ UNCHANGED <<inbox, outbox, received, sent>>
    BY <1>3 DEF SendError, EndLoops, ends, Whole
  <2> QED
    BY <2>1, DropKeepsOrder
<1>4. CASE CloseClient \/ CloseTarget
  <2>1. PICK e \in Ends : CloseEnd(e) \/ CloseFails(e)
    BY <1>4, CloseStep
  <2>2. LoopTo(e) \in Loops /\ ~Whole' /\ UNCHANGED <<inbox, received, sent>>
    BY <1>4, <2>1, LoopOfEnd, CloseStep, CloseMoves DEF ends
  <2> QED
    BY <2>1, <2>2, CloseMoves, FlushKeepsOrder, DropKeepsOrder
<1> QED
  BY <1>1, <1>2, <1>3, <1>4, ReadKeepsOrder, SendKeepsOrder, ReceiveKeepsOrder
     DEF Next, ForwardLoop, Environment, QuietStep

-----------------------------------------------------------------------------
(* The loops.                                                               *)

\* What TypeOK says apart from the queues.
TaskTypes ==
    /\ pc \in {"connecting", "upgrading", "forwarding", "close_client",
               "close_target", "ended"}
    /\ response \in {"none", "101", "502"}
    /\ cause \in Loops \cup {"none", "error"}
    /\ told \subseteq Ends
    /\ finished \in [Loops -> BOOLEAN]
    /\ broken \subseteq Ends
    /\ attentive \subseteq Ends

\* Every step keeps the types of the task, and the loops fresh until they end.
LEMMA TaskNext == SocketInv /\ [Next]_vars => TaskTypes' /\ RunningIsFresh'
<1> SUFFICES ASSUME SocketInv, [Next]_vars PROVE TaskTypes' /\ RunningIsFresh'
  OBVIOUS
<1>1. TaskTypes /\ RunningIsFresh
  BY DEF SocketInv, TypeOK, TaskTypes
<1>2. CASE Handshake
  BY <1>1, <1>2
     DEF Handshake, ConnectTarget, ConnectFails, HandlerDropped, Upgraded, UpgradeFails,
         AnswerUpgrade, Step, ends, Whole, TaskTypes, RunningIsFresh
<1>3. ASSUME NEW d \in Loops, StreamEnds(d) \/ ReadError(d) \/ SendError(d)
      PROVE  TaskTypes' /\ RunningIsFresh'
  BY <1>1, <1>3
     DEF StreamEnds, ReadError, SendError, EndLoops, ends, Whole, TaskTypes, RunningIsFresh
<1>4. ASSUME NEW d \in Loops, ReadMessage(d) \/ Forward(d) \/ Send(d) \/ Receive(d)
      PROVE  TaskTypes' /\ RunningIsFresh'
  BY <1>1, <1>4
     DEF ReadMessage, Forward, Send, Receive, task, ends, Whole, TaskTypes, RunningIsFresh
<1>5. CASE CloseClient \/ CloseTarget
  <2>1. PICK e \in Ends : CloseEnd(e) \/ CloseFails(e)
    BY <1>5, CloseStep
  <2>2. ~Whole' /\ pc' \in {"close_target", "ended"}
    BY <1>5, CloseStep
  <2>3. told' \in {told, told \cup {e}} /\ UNCHANGED <<response, cause, ends>>
    BY <2>1, CloseMoves
  <2> QED
    BY <1>1, <2>2, <2>3 DEF ends, TaskTypes, RunningIsFresh
<1>6. ASSUME NEW d \in Loops, EndStream(d)
      PROVE  TaskTypes' /\ RunningIsFresh'
  BY <1>1, <1>6 DEF EndStream, task, Whole, TaskTypes, RunningIsFresh
<1>7. ASSUME NEW e \in Ends, Break(e)
      PROVE  TaskTypes' /\ RunningIsFresh'
  BY <1>1, <1>7 DEF Break, task, Whole, TaskTypes, RunningIsFresh
<1>8. CASE UNCHANGED vars
  BY <1>1, <1>8 DEF vars, task, ends, Whole, TaskTypes, RunningIsFresh
<1> QED
  BY <1>2, <1>3, <1>4, <1>5, <1>6, <1>7, <1>8 DEF Next, ForwardLoop, Environment

\* What TypeOK says of the queues.
QueuesTyped ==
    /\ held \in [Loops -> Seq(Nat)] /\ \A d \in Loops : Len(held[d]) <= 1
    /\ sent \in [Loops -> Nat]
    /\ inbox \in [Loops -> Seq(Nat)]
    /\ outbox \in [Loops -> Seq(Nat)]
    /\ received \in [Loops -> Seq(Nat)]

\* Every step keeps them.
LEMMA QueuesNext == SocketInv /\ [Next]_vars => QueuesTyped'
<1> SUFFICES ASSUME SocketInv, [Next]_vars PROVE QueuesTyped'
  OBVIOUS
<1>1. QueuesTyped
  BY DEF SocketInv, TypeOK, QueuesTyped
<1>2. <<>> \in Seq(Nat) /\ Len(<<>>) <= 1
  BY EmptySeq
<1>3. CASE QuietStep
  BY <1>1, <1>3, QuietStepMoves DEF QueuesTyped
<1>4. ASSUME NEW d \in Loops, ReadMessage(d)
      PROVE  QueuesTyped'
  <2>1. held'[d] \in Seq(Nat) /\ Len(held'[d]) <= 1 /\ inbox'[d] \in Seq(Nat)
    BY <1>4, ReadKeepsOrder
  <2>2. /\ held' = [held EXCEPT ![d] = held'[d]]
        /\ inbox' = [inbox EXCEPT ![d] = inbox'[d]]
        /\ UNCHANGED <<sent, outbox, received>>
    BY <1>1, <1>4 DEF ReadMessage, ends, QueuesTyped
  <2> QED
    BY <1>1, <2>1, <2>2 DEF QueuesTyped
<1>5. ASSUME NEW d \in Loops, UNCHANGED <<inbox, received, sent>>,
             held' = [held EXCEPT ![d] = <<>>],
             \/ outbox' = outbox
             \/ outbox'[d] \in Seq(Nat) /\ outbox' = [outbox EXCEPT ![d] = outbox'[d]]
      PROVE  QueuesTyped'
  BY <1>1, <1>2, <1>5 DEF QueuesTyped
<1>6. ASSUME NEW d \in Loops, Whole' => Whole,
             outbox' = [outbox EXCEPT ![d] = @ \o held[d]],
             held' = [held EXCEPT ![d] = <<>>],
             UNCHANGED <<inbox, received, sent>>
      PROVE  QueuesTyped'
  <2>1. outbox'[d] \in Seq(Nat)
    BY <1>6, FlushKeepsOrder
  <2>2. outbox' = [outbox EXCEPT ![d] = outbox'[d]]
    BY <1>1, <1>6 DEF QueuesTyped
  <2> QED
    BY <1>5, <1>6, <2>1, <2>2
<1>7. ASSUME NEW d \in Loops, Forward(d)
      PROVE  QueuesTyped'
  BY <1>6, <1>7 DEF Forward, task, ends, Whole
<1>8. ASSUME NEW d \in Loops, SendError(d)
      PROVE  QueuesTyped'
  BY <1>5, <1>8 DEF SendError, ends
<1>9. CASE CloseClient \/ CloseTarget
  <2>1. PICK e \in Ends : CloseEnd(e) \/ CloseFails(e)
    BY <1>9, CloseStep
  <2>2. LoopTo(e) \in Loops /\ ~Whole' /\ UNCHANGED <<inbox, received, sent>>
    BY <1>9, <2>1, LoopOfEnd, CloseStep, CloseMoves DEF ends
  <2> QED
    BY <1>5, <1>6, <2>1, <2>2, CloseMoves
<1>10. ASSUME NEW d \in Loops, Send(d)
       PROVE  QueuesTyped'
  <2>1. inbox'[d] \in Seq(Nat) /\ sent[d] + 1 \in Nat
    BY <1>1, <1>10, SendKeepsOrder DEF QueuesTyped
  <2> QED
    BY <1>1, <1>10, <2>1 DEF Send, QueuesTyped
<1>11. ASSUME NEW d \in Loops, Receive(d)
       PROVE  QueuesTyped'
  <2>1. outbox'[d] \in Seq(Nat) /\ received'[d] \in Seq(Nat)
    BY <1>11, ReceiveKeepsOrder
  <2> QED
    BY <1>1, <1>11, <2>1 DEF Receive, QueuesTyped
<1> QED
  BY <1>3, <1>4, <1>7, <1>8, <1>9, <1>10, <1>11
     DEF Next, ForwardLoop, Environment, QuietStep

\* Every step keeps an ended stream drained: its source has nothing more to
\* send, and nothing of it is left in the proxy.
LEMMA EndedNext == SocketInv /\ [Next]_vars => EndedEmpty'
<1> SUFFICES ASSUME SocketInv, [Next]_vars, NEW d \in Loops, cause' = d
             PROVE  /\ held'[d] = <<>> /\ inbox'[d] = <<>> /\ finished'[d]
                    /\ Len(received'[d]) + Len(outbox'[d]) = sent'[d]
  BY DEF EndedEmpty
<1>1. /\ TypeOK /\ "none" \notin Loops /\ "error" \notin Loops
      /\ inbox[d] \in Seq(Nat) /\ outbox[d] \in Seq(Nat) /\ received[d] \in Seq(Nat)
  BY QueueTypes DEF SocketInv, Loops
<1>2. CASE cause # d
  <2>1. StreamEnds(d)
    BY <1>1, <1>2, CloseStep, CloseMoves
       DEF Next, Handshake, ConnectTarget, ConnectFails, HandlerDropped, Upgraded,
           UpgradeFails, Step, ForwardLoop, ReadMessage, StreamEnds, ReadError, Forward,
           SendError, EndLoops, Environment, Send, Receive, EndStream, Break, task, vars
  <2>2. /\ held[d] = <<>> /\ inbox[d] = <<>> /\ finished[d] /\ Whole
        /\ UNCHANGED <<held, inbox, outbox, received, sent, finished>>
    BY <2>1 DEF StreamEnds, ends, Whole
  <2>3. Len(received[d]) + Len(outbox[d]) = sent[d]
    <3> DEFINE r == Len(received[d])
               o == Len(outbox[d])
    <3>1. r \in Nat /\ o \in Nat /\ (r + o + 0) + 0 = sent[d]
      BY <1>1, <2>2, QueueTypes, EmptySeq DEF SocketInv, InOrder, Ordered, Read
    <3> HIDE DEF r, o
    <3>2. r + o = sent[d]
      BY <3>1
    <3> QED
      BY <3>2 DEF r, o
  <2> QED
    BY <2>2, <2>3
<1>3. CASE cause = d
  <2>1. /\ held[d] = <<>> /\ inbox[d] = <<>> /\ finished[d] /\ ~Whole
        /\ Len(received[d]) + Len(outbox[d]) = sent[d]
        /\ pc # "forwarding"
    BY <1>1, <1>3 DEF SocketInv, EndedEmpty, RunningIsFresh, Whole
  <2>2. CASE CloseClient \/ CloseTarget
    <3>1. PICK e \in Ends : CloseEnd(e) \/ CloseFails(e)
      BY <2>2, CloseStep
    <3>2. /\ held' = [held EXCEPT ![LoopTo(e)] = <<>>]
          /\ \/ outbox' = outbox
             \/ outbox' = [outbox EXCEPT ![LoopTo(e)] = @ \o held[LoopTo(e)]]
          /\ UNCHANGED <<inbox, received, sent, finished>>
      BY <3>1, CloseMoves DEF ends
    <3>3. outbox[d] \o <<>> = outbox[d]
      BY <1>1, ConcatEmptySeq
    <3>4. held'[d] = <<>> /\ outbox'[d] = outbox[d]
      <4>1. held \in [Loops -> Seq(Nat)] /\ outbox \in [Loops -> Seq(Nat)]
        BY <1>1 DEF TypeOK
      <4>2. held'[d] = <<>>
        BY <2>1, <3>2, <4>1
      <4>3. outbox'[d] = outbox[d] \/ outbox'[d] = outbox[d] \o held[d]
        BY <3>2, <4>1
      <4> QED
        BY <2>1, <3>3, <4>2, <4>3
    <3> QED
      BY <2>1, <3>2, <3>4
  <2>3. ASSUME NEW e \in Loops, Receive(e)
        PROVE  /\ held'[d] = <<>> /\ inbox'[d] = <<>> /\ finished'[d]
               /\ Len(received'[d]) + Len(outbox'[d]) = sent'[d]
    <3>1. UNCHANGED <<held, inbox, sent, finished>>
      BY <2>3 DEF Receive
    <3>2. Len(received'[d]) + Len(outbox'[d]) = Len(received[d]) + Len(outbox[d])
      <4>1. CASE e = d
        BY <2>3, <4>1, ReceiveKeepsOrder
      <4>2. CASE e # d
        BY <1>1, <2>3, <4>2 DEF Receive, TypeOK
      <4> QED
        BY <4>1, <4>2
    <3> QED
      BY <2>1, <3>1, <3>2
  <2>4. ASSUME NEW e \in Loops, Send(e)
        PROVE  /\ held'[d] = <<>> /\ inbox'[d] = <<>> /\ finished'[d]
               /\ Len(received'[d]) + Len(outbox'[d]) = sent'[d]
    BY <1>1, <2>1, <2>4 DEF Send, TypeOK
  <2>5. ASSUME NEW e \in Loops, EndStream(e)
        PROVE  /\ held'[d] = <<>> /\ inbox'[d] = <<>> /\ finished'[d]
               /\ Len(received'[d]) + Len(outbox'[d]) = sent'[d]
    BY <1>1, <2>1, <2>5 DEF EndStream, TypeOK
  <2>6. CASE Handshake \/ UNCHANGED vars \/ \E e \in Ends : Break(e)
    BY <2>1, <2>6
       DEF Handshake, ConnectTarget, ConnectFails, HandlerDropped, Upgraded, UpgradeFails,
           Step, Break, ends, vars
  <2>7. ~\E e \in Loops : ForwardLoop(e)
    BY <2>1 DEF ForwardLoop, ReadMessage, StreamEnds, ReadError, Forward, SendError
  <2> QED
    BY <2>2, <2>3, <2>4, <2>5, <2>6, <2>7 DEF Next, Environment
<1> QED
  BY <1>2, <1>3

-----------------------------------------------------------------------------
(* The theorems.                                                            *)

\* Nothing has been sent at the start.
LEMMA SocketInvInit == Init => SocketInv
<1> SUFFICES ASSUME Init PROVE SocketInv
  OBVIOUS
<1>1. <<>> \in Seq(Nat) /\ Len(<<>>) = 0 /\ "none" \notin Loops
  BY EmptySeq DEF Loops
<1>2. TypeOK
  BY <1>1 DEF Init, TypeOK
<1>3. ASSUME NEW d \in Loops
      PROVE  /\ held[d] = <<>> /\ inbox[d] = <<>> /\ outbox[d] = <<>>
             /\ received[d] = <<>> /\ sent[d] = 0
  BY DEF Init
<1>4. ASSUME NEW d \in Loops
      PROVE  Read(d) + Len(inbox[d]) = 0 /\ Read(d) + Len(inbox[d]) <= 0
  <2> DEFINE r == Len(received[d])
             o == Len(outbox[d])
             h == Len(held[d])
             i == Len(inbox[d])
  <2>1. r = 0 /\ o = 0 /\ h = 0 /\ i = 0
    BY <1>1, <1>3
  <2>2. Read(d) = r + o + h
    BY DEF Read
  <2> HIDE DEF r, o, h, i
  <2>3. Read(d) + i = 0 /\ Read(d) + i <= 0
    BY <2>1, <2>2
  <2> QED
    BY <2>3 DEF i
<1>5. \A n : Follows(<<>>, n)
  BY EmptyFollows
<1>6. \A d \in Loops : Ordered(d)
  BY <1>3, <1>4, <1>5 DEF Ordered
<1>7. InOrder
  BY <1>6 DEF InOrder
<1>8. EndedEmpty /\ RunningIsFresh
  BY <1>1 DEF Init, EndedEmpty, RunningIsFresh
<1> QED
  BY <1>2, <1>7, <1>8 DEF SocketInv

\* The invariant holds for every instance.
THEOREM SocketInvariant == Spec => []SocketInv
<1>1. ASSUME SocketInv, [Next]_vars
      PROVE  SocketInv'
  <2>1. TypeOK'
    BY <1>1, TaskNext, QueuesNext DEF TypeOK, TaskTypes, QueuesTyped, RunningIsFresh, Whole
  <2> QED
    BY <1>1, <2>1, OrderNext, EndedNext, TaskNext DEF SocketInv
<1> QED
  BY <1>1, SocketInvInit, PTL DEF Spec

\* Types; nobody is sent a close frame while messages are forwarded.
THEOREM SocketTypeCorrect == Spec => []TypeOK
<1>1. SocketInv => TypeOK
  BY DEF SocketInv
<1> QED
  BY <1>1, SocketInvariant, PTL

\* Loops that end with the stream of one end have forwarded all it sent
\* (websocket_interceptor.rs:121-131).
THEOREM EndedStreamLosesNothing == Spec => []StreamEndDrains
<1>1. SocketInv => StreamEndDrains
  BY DEF SocketInv, EndedEmpty, StreamEndDrains
<1> QED
  BY <1>1, SocketInvariant, PTL

-----------------------------------------------------------------------------
(* What a relay that has ended has lost.                                    *)

\* While the loops run nothing is lost: what has not arrived is with a
\* connection or held.
LEMMA WholeHasAll == SocketInv /\ Whole => LosesAtMostOne
<1> SUFFICES ASSUME SocketInv, Whole, NEW d \in Loops
             PROVE  sent[d] <= Len(received[d]) + Len(outbox[d]) + Len(inbox[d]) + 1
  BY DEF LosesAtMostOne
<1> DEFINE r == Len(received[d])
           o == Len(outbox[d])
           h == Len(held[d])
           i == Len(inbox[d])
<1>1. /\ r \in Nat /\ o \in Nat /\ h \in Nat /\ i \in Nat /\ sent[d] \in Nat
      /\ (r + o + h) + i = sent[d]
  BY QueueTypes DEF SocketInv, InOrder, Ordered, Read
<1>2. h <= 1
  BY DEF SocketInv, TypeOK
<1> HIDE DEF r, o, h, i
<1>3. sent[d] <= r + o + i + 1
  BY <1>1, <1>2
<1> QED
  BY <1>3 DEF r, o, i

\* A step that takes nothing from what has arrived or is with a connection,
\* and sends nothing, loses nothing.
LEMMA NothingTaken ==
    ASSUME SocketInv, SocketInv', LosesAtMostOne,
           UNCHANGED <<inbox, sent>>,
           \A d \in Loops : Len(received[d]) + Len(outbox[d])
                                <= Len(received'[d]) + Len(outbox'[d])
    PROVE  LosesAtMostOne'
<1> SUFFICES ASSUME NEW d \in Loops
             PROVE  sent'[d] <= Len(received'[d]) + Len(outbox'[d]) + Len(inbox'[d]) + 1
  BY DEF LosesAtMostOne
<1>1. TypeOK /\ TypeOK'
  BY DEF SocketInv
<1> DEFINE a == Len(received[d]) + Len(outbox[d])
           b == Len(received'[d]) + Len(outbox'[d])
           i == Len(inbox[d])
<1>2. /\ Len(received[d]) \in Nat /\ Len(outbox[d]) \in Nat /\ i \in Nat
      /\ sent[d] \in Nat
  BY <1>1, QueueTypes
<1>3. Len(received'[d]) \in Nat /\ Len(outbox'[d]) \in Nat
  BY <1>1, LenProperties DEF TypeOK
<1>4. a \in Nat /\ b \in Nat /\ a <= b
  <2>1. a <= b
    OBVIOUS
  <2>2. \A m, n \in Nat : m + n \in Nat
    OBVIOUS
  <2>3. a \in Nat /\ b \in Nat
    BY <1>2, <1>3, <2>2
  <2> QED
    BY <2>1, <2>3
<1>5. sent[d] <= a + i + 1
  BY DEF LosesAtMostOne
<1> HIDE DEF a, b, i
<1>6. sent[d] <= b + i + 1
  BY <1>2, <1>4, <1>5
<1> QED
  BY <1>6 DEF b, i

\* A message that is sent is with the connection.
LEMMA SendLosesNothing ==
    ASSUME SocketInv, LosesAtMostOne, NEW e \in Loops, Send(e)
    PROVE  LosesAtMostOne'
<1> SUFFICES ASSUME NEW d \in Loops
             PROVE  sent'[d] <= Len(received'[d]) + Len(outbox'[d]) + Len(inbox'[d]) + 1
  BY DEF LosesAtMostOne
<1>1. /\ TypeOK /\ sent[d] <= Len(received[d]) + Len(outbox[d]) + Len(inbox[d]) + 1
      /\ UNCHANGED <<received, outbox>>
  BY DEF SocketInv, LosesAtMostOne, Send
<1>2. CASE d = e
  <2> DEFINE r == Len(received[d])
             o == Len(outbox[d])
             i == Len(inbox[d])
  <2>1. /\ r \in Nat /\ o \in Nat /\ i \in Nat /\ sent[d] \in Nat
        /\ inbox[d] \in Seq(Nat) /\ sent[d] <= r + o + i + 1
    BY <1>1, QueueTypes
  <2>2. sent'[d] = sent[d] + 1 /\ inbox'[d] = Append(inbox[d], sent[d] + 1)
    BY <1>1, <1>2 DEF Send, TypeOK
  <2>3. Len(inbox'[d]) = i + 1
    BY <2>1, <2>2, AppendProperties
  <2> HIDE DEF r, o, i
  <2>4. sent[d] + 1 <= r + o + (i + 1) + 1
    BY <2>1
  <2> QED
    BY <1>1, <2>2, <2>3, <2>4 DEF r, o
<1>3. CASE d # e
  BY <1>1, <1>3 DEF Send, TypeOK
<1> QED
  BY <1>2, <1>3

\* Every step loses at most what a loop holds.
LEMMA LossNext ==
    SocketInv /\ SocketInv' /\ LosesAtMostOne /\ [Next]_vars => LosesAtMostOne'
<1> SUFFICES ASSUME SocketInv, SocketInv', LosesAtMostOne, [Next]_vars
             PROVE  LosesAtMostOne'
  OBVIOUS
<1>0. /\ TypeOK
      /\ \A d \in Loops : Len(received[d]) + Len(outbox[d]) \in Nat
  <2>1. TypeOK
    BY DEF SocketInv
  <2>2. ASSUME NEW d \in Loops
        PROVE  Len(received[d]) + Len(outbox[d]) \in Nat
    <3> DEFINE r == Len(received[d])
               o == Len(outbox[d])
    <3>1. r \in Nat /\ o \in Nat
      BY <2>1, QueueTypes
    <3> HIDE DEF r, o
    <3>2. r + o \in Nat
      BY <3>1
    <3> QED
      BY <3>2 DEF r, o
  <2> QED
    BY <2>1, <2>2
<1>1. CASE Whole'
  BY <1>1, WholeHasAll, PTL
<1>2. ASSUME UNCHANGED <<inbox, sent, received, outbox>>
      PROVE  LosesAtMostOne'
  BY <1>2 DEF LosesAtMostOne
<1>3. CASE QuietStep
  BY <1>2, <1>3, QuietStepMoves
<1>4. ASSUME NEW e \in Loops, ReadMessage(e) \/ Forward(e)
      PROVE  Whole'
  BY <1>4 DEF ReadMessage, Forward, task, Whole
<1>5. ASSUME NEW e \in Loops, SendError(e)
      PROVE  LosesAtMostOne'
  BY <1>2, <1>5 DEF SendError, ends
<1>6. CASE CloseClient \/ CloseTarget
  <2>1. PICK e \in Ends : CloseEnd(e) \/ CloseFails(e)
    BY <1>6, CloseStep
  <2>2. LoopTo(e) \in Loops /\ UNCHANGED <<inbox, received, sent>>
    BY <2>1, LoopOfEnd, CloseMoves DEF ends
  <2>3. \/ outbox' = outbox
        \/ outbox' = [outbox EXCEPT ![LoopTo(e)] = @ \o held[LoopTo(e)]]
    BY <2>1, CloseMoves
  <2>4. CASE outbox' = outbox
    BY <1>2, <2>2, <2>4
  <2>5. ASSUME NEW f \in Loops, outbox' = [outbox EXCEPT ![f] = @ \o held[f]],
               NEW d \in Loops
        PROVE  Len(received[d]) + Len(outbox[d]) <= Len(received'[d]) + Len(outbox'[d])
    <3> DEFINE r == Len(received[d])
               o == Len(outbox[d])
               h == Len(held[d])
    <3>1. /\ r \in Nat /\ o \in Nat /\ h \in Nat
          /\ outbox[d] \in Seq(Nat) /\ held[d] \in Seq(Nat)
      BY <1>0, QueueTypes
    <3>2. Len(outbox'[d]) \in {o, o + h}
      <4>1. CASE d = f
        <5>1. outbox'[d] = outbox[d] \o held[d]
          BY <1>0, <2>5, <4>1 DEF TypeOK
        <5>2. Len(outbox[d] \o held[d]) = o + h
          BY <3>1, ConcatProperties
        <5> QED
          BY <5>1, <5>2
      <4>2. CASE d # f
        BY <1>0, <2>5, <4>2 DEF TypeOK
      <4> QED
        BY <4>1, <4>2
    <3> DEFINE p == Len(outbox'[d])
    <3>3. p \in {o, o + h}
      BY <3>2
    <3> HIDE DEF r, o, h, p
    <3>4. r + o <= r + p
      BY <3>1, <3>3
    <3> QED
      BY <2>2, <3>4 DEF r, o, p
  <2> QED
    BY <2>2, <2>3, <2>4, <2>5, NothingTaken
<1>7. ASSUME NEW e \in Loops, Receive(e)
      PROVE  LosesAtMostOne'
  <2>1. UNCHANGED <<inbox, sent>>
    BY <1>7 DEF Receive
  <2>2. ASSUME NEW d \in Loops
        PROVE  Len(received'[d]) + Len(outbox'[d]) = Len(received[d]) + Len(outbox[d])
    <3>1. CASE d = e
      BY <1>7, <3>1, ReceiveKeepsOrder
    <3>2. CASE d # e
      BY <1>0, <1>7, <3>2 DEF Receive, TypeOK
    <3> QED
      BY <3>1, <3>2
  <2>3. \A n \in Nat : n <= n
    OBVIOUS
  <2>4. \A d \in Loops : Len(received[d]) + Len(outbox[d])
                             <= Len(received'[d]) + Len(outbox'[d])
    BY <1>0, <2>2, <2>3
  <2> QED
    BY <2>1, <2>4, NothingTaken
<1> QED
  BY <1>1, <1>3, <1>4, <1>5, <1>6, <1>7, SendLosesNothing
     DEF Next, ForwardLoop, Environment, QuietStep

\* The relay itself loses at most one message in each direction, however its
\* loops end: a failed send or a branch of select! that is dropped takes the
\* one that loop held with it, and no other (websocket_interceptor.rs:120-203).
THEOREM RelayLosesAtMostOne == Spec => []LosesAtMostOne
<1>1. Init => Whole
  BY DEF Init, Whole
<1>2. Init => LosesAtMostOne
  BY <1>1, SocketInvInit, WholeHasAll
<1> QED
  BY <1>2, LossNext, SocketInvariant, PTL DEF Spec

-----------------------------------------------------------------------------
(* Who is told of the end.                                                  *)

\* Each end is answered once its close() has been awaited.
ToldInTurn ==
    cause # "none" =>
        /\ pc \in {"close_target", "ended"} => Answered("client")
        /\ pc = "ended" => Answered("target")

\* An end that is answered stays so: its close frame, once read, was the last
\* message of its stream.
LEMMA AnsweredStays ==
    ASSUME SocketInv, [Next]_vars, NEW e \in Ends, Answered(e)
    PROVE  Answered(e)'
<1> DEFINE f == LoopFrom(e)
<1>1. /\ TypeOK /\ f \in Loops
      /\ e \in told \cup broken \/ (finished[f] /\ inbox[f] = <<>>)
  BY DEF SocketInv, Ends, LoopFrom, Loops, Source, Answered, Unwilling
<1> SUFFICES e \in told' \cup broken' \/ (finished'[f] /\ inbox'[f] = <<>>)
  BY DEF Answered, Unwilling
<1> HIDE DEF f
<1>2. CASE UNCHANGED <<told, broken, finished, inbox>>
  BY <1>1, <1>2
<1>3. CASE Handshake
  BY <1>2, <1>3 DEF Handshake, ConnectTarget, ConnectFails, HandlerDropped, Upgraded,
                    UpgradeFails, Step, ends
<1>4. ASSUME NEW d \in Loops, ForwardLoop(d)
      PROVE  e \in told' \cup broken' \/ (finished'[f] /\ inbox'[f] = <<>>)
  <2>1. CASE ReadMessage(d)
    <3>1. /\ inbox[d] # <<>> /\ inbox' = [inbox EXCEPT ![d] = Tail(@)]
          /\ UNCHANGED <<told, broken, finished>>
      BY <2>1 DEF ReadMessage, task, ends
    <3>2. inbox[f] = <<>> => inbox'[f] = <<>>
      BY <1>1, <3>1 DEF TypeOK
    <3> QED
      BY <1>1, <3>1, <3>2
  <2>2. CASE StreamEnds(d) \/ ReadError(d) \/ Forward(d) \/ SendError(d)
    BY <1>2, <2>2 DEF StreamEnds, ReadError, Forward, SendError, EndLoops, task, ends
  <2> QED
    BY <1>4, <2>1, <2>2 DEF ForwardLoop
<1>5. CASE CloseClient \/ CloseTarget
  <2>1. PICK g \in Ends : CloseEnd(g) \/ CloseFails(g)
    BY <1>5, CloseStep
  <2>2. told \subseteq told' /\ UNCHANGED <<broken, finished, inbox>>
    BY <2>1, CloseMoves DEF ends
  <2> QED
    BY <1>1, <2>2
<1>6. ASSUME NEW d \in Loops, Send(d)
      PROVE  e \in told' \cup broken' \/ (finished'[f] /\ inbox'[f] = <<>>)
  <2>1. /\ ~finished[d] /\ inbox' = [inbox EXCEPT ![d] = Append(@, sent[d] + 1)]
        /\ UNCHANGED <<told, broken, finished>>
    BY <1>6 DEF Send, task
  <2>2. finished[f] => inbox'[f] = inbox[f]
    BY <1>1, <2>1 DEF TypeOK
  <2> QED
    BY <1>1, <2>1, <2>2
<1>7. ASSUME NEW d \in Loops, Receive(d)
      PROVE  e \in told' \cup broken' \/ (finished'[f] /\ inbox'[f] = <<>>)
  BY <1>2, <1>7 DEF Receive, task
<1>8. ASSUME NEW d \in Loops, EndStream(d)
      PROVE  e \in told' \cup broken' \/ (finished'[f] /\ inbox'[f] = <<>>)
  <2>1. /\ finished' = [finished EXCEPT ![d] = TRUE] /\ finished \in [Loops -> BOOLEAN]
        /\ UNCHANGED <<told, broken, inbox>>
    BY <1>1, <1>8 DEF EndStream, task, TypeOK
  <2>2. finished[f] => finished'[f]
    BY <1>1, <2>1
  <2> QED
    BY <1>1, <2>1, <2>2
<1>9. ASSUME NEW g \in Ends, Break(g)
      PROVE  e \in told' \cup broken' \/ (finished'[f] /\ inbox'[f] = <<>>)
  <2>1. broken \subseteq broken' /\ UNCHANGED <<told, finished, inbox>>
    BY <1>9 DEF Break, task
  <2> QED
    BY <1>1, <2>1
<1>10. CASE UNCHANGED vars
  BY <1>2, <1>10 DEF vars, task, ends
<1> QED
  BY <1>3, <1>4, <1>5, <1>6, <1>7, <1>8, <1>9, <1>10 DEF Next, Environment

\* close() answers the end it is called for, whether it fails or not.
LEMMA CloseAnswers ==
    ASSUME NEW e \in Ends, CloseEnd(e) \/ CloseFails(e)
    PROVE  Answered(e)'
<1>1. CASE CloseEnd(e)
  BY <1>1 DEF CloseEnd, Answered
<1>2. CASE CloseFails(e)
  BY <1>2 DEF CloseFails, Unwilling, Answered, ends
<1> QED
  BY <1>1, <1>2

\* The ends are answered one after the other.
LEMMA ToldNext == SocketInv /\ ToldInTurn /\ [Next]_vars => ToldInTurn'
<1> SUFFICES ASSUME SocketInv, ToldInTurn, [Next]_vars, cause' # "none"
             PROVE  /\ pc' \in {"close_target", "ended"} => Answered("client")'
                    /\ pc' = "ended" => Answered("target")'
  BY DEF ToldInTurn
<1>1. "client" \in Ends /\ "target" \in Ends
  BY DEF Ends
<1>2. CASE cause' = cause /\ pc' = pc
  BY <1>1, <1>2, AnsweredStays DEF ToldInTurn
<1>3. CASE CloseClient
  <2>1. /\ CloseEnd("client") \/ CloseFails("client")
        /\ pc' = "close_target"
    BY <1>3 DEF CloseClient
  <2> QED
    BY <1>1, <2>1, CloseAnswers
<1>4. CASE CloseTarget
  <2>1. /\ CloseEnd("target") \/ CloseFails("target")
        /\ pc = "close_target" /\ cause' = cause
    BY <1>4 DEF CloseTarget, CloseEnd, CloseFails
  <2>2. Answered("client")
    BY <2>1 DEF ToldInTurn
  <2> QED
    BY <1>1, <2>1, <2>2, CloseAnswers, AnsweredStays
<1>5. CASE Handshake
  <2>1. cause' = cause /\ Whole
    BY <1>5 DEF Handshake, ConnectTarget, ConnectFails, HandlerDropped, Upgraded,
                UpgradeFails, Step, Whole
  <2> QED
    BY <2>1 DEF SocketInv, RunningIsFresh
<1>6. ASSUME NEW d \in Loops, ForwardLoop(d)
      PROVE  pc' \in {"close_client", pc} /\ pc = "forwarding"
  BY <1>6 DEF ForwardLoop, ReadMessage, StreamEnds, ReadError, Forward, SendError,
              EndLoops, task
<1>7. CASE Environment \/ UNCHANGED vars
  BY <1>2, <1>7 DEF Environment, Send, Receive, EndStream, Break, vars, task
<1> QED
  BY <1>3, <1>4, <1>5, <1>6, <1>7 DEF Next

\* No end is left without a close frame because closing the other one failed or
\* because reading from it failed while it is still there, whenever either of
\* them fails or leaves (websocket_interceptor.rs:132-138, 155-161, 168-201).
THEOREM BothEndsAnswered == Spec => []NobodyLeftOut
<1>1. Init => ToldInTurn
  BY DEF Init, ToldInTurn
<1>2. ToldInTurn => NobodyLeftOut
  BY DEF ToldInTurn, NobodyLeftOut, Ends
<1> QED
  BY <1>1, <1>2, ToldNext, SocketInvariant, PTL DEF Spec

-----------------------------------------------------------------------------
(* The refinement.                                                          *)

\* Nothing is sent or received at the start, as in the abstract relay.
LEMMA SocketInitRefines == Init => Relay!RelayInit
BY DEF Init, Relay!RelayInit

\* Send and Receive are the steps of the abstract relay; everything the
\* handler and its loops do is invisible to it.
LEMMA SocketStepRefines ==
    SocketInv /\ [Next]_vars => [Relay!RelayNext]_(Relay!relayVars)
<1> SUFFICES ASSUME SocketInv, [Next]_vars
             PROVE  [Relay!RelayNext]_(Relay!relayVars)
  OBVIOUS
<1>1. ASSUME NEW d \in Loops, Send(d)
      PROVE  Relay!SendNext(d)
  BY <1>1 DEF Send, Relay!SendNext
<1>2. ASSUME NEW d \in Loops, Receive(d)
      PROVE  Relay!ReceiveNext(d)
  <2>1. /\ received' = [received EXCEPT ![d] = Append(@, Len(@) + 1)]
        /\ Len(received[d]) < sent[d] /\ sent' = sent
    BY <1>2, ReceiveKeepsOrder DEF Receive
  <2> QED
    BY <2>1 DEF Relay!ReceiveNext
<1>3. CASE QuietStep
  BY <1>3, QuietStepMoves DEF Relay!relayVars
<1>4. CASE \E d \in Loops : ReadMessage(d) \/ Forward(d) \/ SendError(d)
  BY <1>4 DEF ReadMessage, Forward, SendError, ends, Relay!relayVars
<1>5. CASE CloseClient \/ CloseTarget
  BY <1>5, CloseStep, CloseMoves DEF ends, Relay!relayVars
<1> QED
  BY <1>1, <1>2, <1>3, <1>4, <1>5
     DEF Next, ForwardLoop, Environment, QuietStep, Relay!RelayNext

\* The two loops implement the abstract relay: each end receives a prefix of
\* what the other one sent (websocket_interceptor.rs:120-203).
THEOREM SocketImplementsRelay == Spec => ImplementsRelay
BY SocketInitRefines, SocketStepRefines, SocketInvariant, PTL
   DEF Spec, ImplementsRelay, Relay!RelaySpec

\* In each direction exactly the first so many of the messages sent have been
\* received, in order, none of them twice and none left out: what the abstract
\* relay promises, said of the ends (websocket_interceptor.rs:120-203).
THEOREM MessagesArriveInOrder == Spec => []ArePrefixes(Loops, received, sent)
<1>1. Relay!RelayInit => ArePrefixes(Loops, received, sent)
  BY EmptyPrefixes DEF Relay!RelayInit
<1>2. ArePrefixes(Loops, received, sent) /\ [Relay!RelayNext]_(Relay!relayVars)
        => ArePrefixes(Loops, received, sent)'
  <2> SUFFICES ASSUME ArePrefixes(Loops, received, sent),
                      [Relay!RelayNext]_(Relay!relayVars)
               PROVE  ArePrefixes(Loops, received', sent')
    BY DEF ArePrefixes, Follows, Loops
  <2>1. ASSUME NEW d \in Loops, Relay!SendNext(d)
        PROVE  ArePrefixes(Loops, received', sent')
    BY <2>1, SendKeepsPrefixes DEF Relay!SendNext
  <2>2. ASSUME NEW d \in Loops, Relay!ReceiveNext(d)
        PROVE  ArePrefixes(Loops, received', sent')
    BY <2>2, ReceiveKeepsPrefixes DEF Relay!ReceiveNext
  <2>3. CASE UNCHANGED Relay!relayVars
    BY <2>3 DEF Relay!relayVars
  <2> QED
    BY <2>1, <2>2, <2>3 DEF Relay!RelayNext
<1>3. Relay!RelaySpec => []ArePrefixes(Loops, received, sent)
  BY <1>1, <1>2, PTL DEF Relay!RelaySpec
<1> QED
  BY <1>3, SocketImplementsRelay, PTL DEF ImplementsRelay
=============================================================================
