---------------------------- MODULE TunnelProofs ----------------------------
(***************************************************************************)
(* Theorems about Tunnel for any buffer, sockets, volume of traffic and     *)
(* timeout: what the copying loop owes its two ends in every interleaving   *)
(* of reads, writes, shutdowns, resets and the timer.                       *)
(***************************************************************************)
EXTENDS Tunnel, StreamLemmas

\* While a chunk is written it is not empty, and the read that filled it has
\* just reset the error count.
WriteFollowsRead == pc = "write" => errors = 0 /\ buf # <<>>

\* On its way a byte is behind the ones received, in order and without a gap:
\* in the outbox, in the chunk (as long as it can be written) and in the inbox.
InOrder ==
    \A d \in DataDirection :
        /\ Follows(outbox[d], Len(received[d]))
        /\ Sink(d) \notin reset => Follows(Chunk(d), Delivered(d))
        /\ Follows(inbox[d], counted[d])

\* A stream that has ended the tunnel has been read to its end.
EofRead == \A d \in DataDirection : cause = d => inbox[d] = <<>>

\* The inductive invariant.
TunnelInv ==
    /\ TypeOK
    /\ WriteFollowsRead
    /\ CountsEveryByte
    /\ InOrder
    /\ EofRead

-----------------------------------------------------------------------------
(* The streams.                                                             *)

\* The queues of a direction are sequences of numbers, the chunk among them.
LEMMA QueueTypes ==
    ASSUME TypeOK, NEW d \in DataDirection
    PROVE  /\ inbox[d] \in Seq(Nat) /\ Len(inbox[d]) \in Nat
           /\ outbox[d] \in Seq(Nat) /\ Len(outbox[d]) \in Nat
           /\ received[d] \in Seq(Nat) /\ Len(received[d]) \in Nat
           /\ Chunk(d) \in Seq(Nat) /\ Len(Chunk(d)) \in Nat
           /\ sent[d] \in Nat /\ counted[d] \in Nat
           /\ Delivered(d) \in Nat
<1>1. /\ inbox[d] \in Seq(Nat) /\ outbox[d] \in Seq(Nat) /\ received[d] \in Seq(Nat)
      /\ Chunk(d) \in Seq(Nat)
      /\ sent[d] \in Nat /\ counted[d] \in Nat
  BY EmptySeq DEF TypeOK, Chunk
<1>2. \A s \in Seq(Nat) : Len(s) \in Nat
  BY LenProperties
<1>3. Delivered(d) \in Nat
  <2> DEFINE r == Len(received[d])
             o == Len(outbox[d])
  <2>1. r \in Nat /\ o \in Nat /\ Delivered(d) = r + o
    BY <1>1, <1>2 DEF Delivered
  <2> HIDE DEF r, o
  <2> QED
    BY <2>1
<1> QED
  BY <1>1, <1>2, <1>3

\* Between two chunks the tunnel holds nothing.
LEMMA NoChunk ==
    ASSUME NEW d \in DataDirection, pc # "write" \/ dir # d
    PROVE  Chunk(d) = <<>> /\ Len(Chunk(d)) = 0
BY DEF Chunk

\* A step that moves no byte, and gives up a chunk only if its receiver is
\* gone, keeps what is said about bytes.
LEMMA QuietKeepsStreams ==
    ASSUME TunnelInv,
           UNCHANGED <<inbox, outbox, received, sent, counted>>,
           reset \subseteq reset',
           \A d \in DataDirection : Sink(d) \notin reset' => Chunk(d)' = Chunk(d)
    PROVE  CountsEveryByte' /\ InOrder'
BY DEF TunnelInv, CountsEveryByte, InOrder, Delivered

\* A step that moves bytes of one direction only, and resets nothing.
LEMMA OtherDirection ==
    ASSUME TunnelInv, NEW d \in DataDirection, reset' = reset,
           \A e \in DataDirection \ {d} :
                /\ inbox'[e] = inbox[e] /\ outbox'[e] = outbox[e]
                /\ received'[e] = received[e] /\ sent'[e] = sent[e]
                /\ counted'[e] = counted[e] /\ Chunk(e)' = Chunk(e),
           /\ counted'[d] + Len(inbox'[d]) = sent'[d]
           /\ Sink(d) \notin reset => counted'[d] = Delivered(d)' + Len(Chunk(d)')
           /\ Follows(outbox'[d], Len(received'[d]))
           /\ Sink(d) \notin reset => Follows(Chunk(d)', Delivered(d)')
           /\ Follows(inbox'[d], counted'[d])
    PROVE  CountsEveryByte' /\ InOrder'
BY DEF TunnelInv, CountsEveryByte, InOrder, Delivered

\* A read moves the front of the inbox into the chunk.
LEMMA ReadKeepsStreams ==
    ASSUME TunnelInv, NEW d \in DataDirection, ReadData(d)
    PROVE  CountsEveryByte' /\ InOrder'
<1>1. TypeOK /\ CountsEveryByte /\ InOrder
  BY DEF TunnelInv
<1>2. PICK n \in 1..BufSize :
        /\ n <= Len(inbox[d])
        /\ buf' = SubSeq(inbox[d], 1, n)
        /\ inbox' = [inbox EXCEPT ![d] = SubSeq(inbox[d], n + 1, Len(inbox[d]))]
        /\ counted' = [counted EXCEPT ![d] = counted[d] + n]
  BY DEF ReadData
<1>3. /\ pc = "select" /\ pc' = "write" /\ dir' = d
      /\ UNCHANGED <<outbox, sent, received, reset>>
  BY DEF ReadData, ends
<1>4. /\ Len(buf') = n /\ Follows(buf', counted[d])
      /\ Len(SubSeq(inbox[d], n + 1, Len(inbox[d]))) = Len(inbox[d]) - n
      /\ Follows(SubSeq(inbox[d], n + 1, Len(inbox[d])), counted[d] + n)
  <2>1. n \in Nat /\ inbox[d] \in Seq(Nat) /\ counted[d] \in Nat
    BY <1>1, QueueTypes, TunnelAssumption
  <2>2. Follows(inbox[d], counted[d])
    BY <1>1 DEF InOrder
  <2> QED
    BY <1>2, <2>1, <2>2, SplitFollows
<1>5. /\ inbox'[d] = SubSeq(inbox[d], n + 1, Len(inbox[d]))
      /\ counted'[d] = counted[d] + n
      /\ \A e \in DataDirection \ {d} :
            inbox'[e] = inbox[e] /\ counted'[e] = counted[e]
  BY <1>1, <1>2 DEF TypeOK
<1>6. /\ Chunk(d)' = buf' /\ Delivered(d)' = Delivered(d)
      /\ \A e \in DataDirection \ {d} : Chunk(e)' = Chunk(e)
  BY <1>3 DEF Chunk, Delivered
<1>7. /\ counted[d] + Len(inbox[d]) = sent[d]
      /\ Sink(d) \notin reset => counted[d] = Delivered(d)
  <2>1. Len(Chunk(d)) = 0
    BY <1>3, NoChunk
  <2> QED
    BY <1>1, <2>1, QueueTypes DEF CountsEveryByte
<1>8. /\ counted'[d] + Len(inbox'[d]) = sent'[d]
      /\ Sink(d) \notin reset => counted'[d] = Delivered(d)' + Len(Chunk(d)')
  BY <1>1, <1>3, <1>4, <1>5, <1>6, <1>7, QueueTypes, TunnelAssumption
<1>9. /\ Follows(outbox'[d], Len(received'[d]))
      /\ Sink(d) \notin reset => Follows(Chunk(d)', Delivered(d)')
      /\ Follows(inbox'[d], counted'[d])
  BY <1>1, <1>3, <1>4, <1>5, <1>6, <1>7 DEF InOrder
<1> QED
  BY <1>3, <1>5, <1>6, <1>8, <1>9, OtherDirection

\* write_all moves the first byte of the chunk into the outbox.
LEMMA WriteKeepsStreams ==
    ASSUME TunnelInv, NEW d \in DataDirection, dir = d, WriteByte
    PROVE  /\ CountsEveryByte' /\ InOrder'
           /\ buf' \in Seq(Nat) /\ outbox'[d] \in Seq(Nat)
           /\ pc' = "write" => buf' # <<>>
<1>1. TypeOK /\ CountsEveryByte /\ InOrder
  BY DEF TunnelInv
<1>2. /\ pc = "write" /\ Sink(d) \notin reset
      /\ outbox' = [outbox EXCEPT ![d] = Append(outbox[d], Head(buf))]
      /\ buf' = Tail(buf) /\ pc' = IF Len(buf) = 1 THEN "select" ELSE "write"
      /\ UNCHANGED <<dir, counted, inbox, sent, received, reset>>
  BY DEF WriteByte, ends
<1>3. /\ Chunk(d) = buf /\ buf \in Seq(Nat) /\ buf # <<>>
      /\ Follows(buf, Delivered(d)) /\ counted[d] = Delivered(d) + Len(buf)
  BY <1>1, <1>2 DEF TunnelInv, WriteFollowsRead, Chunk, TypeOK, InOrder, CountsEveryByte
<1>4. /\ Head(buf) = Delivered(d) + 1
      /\ Tail(buf) \in Seq(Nat) /\ Len(Tail(buf)) = Len(buf) - 1 /\ Len(buf) >= 1
      /\ Follows(Tail(buf), Delivered(d) + 1)
  BY <1>1, <1>3, QueueTypes, TailFollows
<1>5. /\ outbox'[d] \in Seq(Nat) /\ Len(outbox'[d]) = Len(outbox[d]) + 1
      /\ Follows(outbox'[d], Len(received[d]))
  <2>1. /\ outbox[d] \in Seq(Nat) /\ Len(received[d]) \in Nat
        /\ Follows(outbox[d], Len(received[d]))
    BY <1>1, QueueTypes DEF InOrder
  <2>2. Head(buf) = Len(received[d]) + Len(outbox[d]) + 1
    BY <1>4 DEF Delivered
  <2>3. outbox'[d] = Append(outbox[d], Len(received[d]) + Len(outbox[d]) + 1)
    BY <1>1, <1>2, <2>2 DEF TypeOK
  <2> QED
    BY <2>1, <2>2, <2>3, AppendFollows
<1>6. Delivered(d)' = Delivered(d) + 1
  <2> DEFINE r == Len(received[d])
             o == Len(outbox[d])
  <2>1. r \in Nat /\ o \in Nat /\ Delivered(d) = r + o
    BY <1>1, QueueTypes DEF Delivered
  <2>2. Delivered(d)' = r + (o + 1)
    BY <1>2, <1>5 DEF Delivered
  <2> HIDE DEF r, o
  <2> QED
    BY <2>1, <2>2
<1>7. /\ Len(Chunk(d)') = Len(buf) - 1 /\ Follows(Chunk(d)', Delivered(d)')
  <2>1. Len(buf) \in Nat
    BY <1>3, LenProperties
  <2>2. CASE Len(buf) = 1
    <3>1. Chunk(d)' = <<>>
      BY <1>2, <2>2 DEF Chunk
    <3> QED
      BY <2>2, <3>1, EmptyFollows, EmptySeq
  <2>3. CASE Len(buf) # 1
    <3>1. Chunk(d)' = Tail(buf)
      BY <1>2, <2>3 DEF Chunk
    <3> QED
      BY <1>4, <1>6, <3>1
  <2> QED
    BY <2>2, <2>3
<1>8. /\ counted'[d] + Len(inbox'[d]) = sent'[d]
      /\ counted'[d] = Delivered(d)' + Len(Chunk(d)')
  BY <1>1, <1>2, <1>3, <1>4, <1>6, <1>7, QueueTypes, LenProperties DEF CountsEveryByte
<1>9. \A e \in DataDirection \ {d} : outbox'[e] = outbox[e] /\ Chunk(e)' = Chunk(e)
  BY <1>1, <1>2 DEF TypeOK, Chunk
<1>10. Follows(inbox'[d], counted'[d])
  BY <1>1, <1>2 DEF InOrder
<1>11. CountsEveryByte' /\ InOrder'
  BY <1>1, <1>2, <1>5, <1>7, <1>8, <1>9, <1>10, OtherDirection
<1>12. pc' = "write" => buf' # <<>>
  <2>1. Len(buf) \in Nat /\ (Tail(buf) = <<>> => Len(Tail(buf)) = 0)
    BY <1>3, LenProperties
  <2> QED
    BY <1>2, <1>4, <2>1
<1> QED
  BY <1>2, <1>4, <1>5, <1>11, <1>12

\* An end sends its next byte.
LEMMA SendKeepsStreams ==
    ASSUME TunnelInv, NEW d \in DataDirection, Send(d)
    PROVE  /\ CountsEveryByte' /\ InOrder'
           /\ inbox'[d] \in Seq(Nat)
<1>1. TypeOK /\ CountsEveryByte /\ InOrder
  BY DEF TunnelInv
<1>2. /\ sent' = [sent EXCEPT ![d] = sent[d] + 1]
      /\ inbox' = [inbox EXCEPT ![d] = Append(inbox[d], sent[d] + 1)]
      /\ UNCHANGED <<pc, dir, buf, counted, outbox, received, reset>>
  BY DEF Send, loop
<1>3. /\ sent'[d] = sent[d] + 1 /\ inbox'[d] = Append(inbox[d], sent[d] + 1)
      /\ \A e \in DataDirection \ {d} : sent'[e] = sent[e] /\ inbox'[e] = inbox[e]
  BY <1>1, <1>2 DEF TypeOK
<1>4. sent[d] = counted[d] + Len(inbox[d])
  BY <1>1 DEF CountsEveryByte
<1>5. /\ inbox'[d] \in Seq(Nat) /\ Len(inbox'[d]) = Len(inbox[d]) + 1
      /\ Follows(inbox'[d], counted[d])
  <2>1. Follows(inbox[d], counted[d]) /\ inbox[d] \in Seq(Nat) /\ counted[d] \in Nat
    BY <1>1, QueueTypes DEF InOrder
  <2> QED
    BY <1>3, <1>4, <2>1, AppendFollows
<1>6. \A e \in DataDirection : Chunk(e)' = Chunk(e) /\ Delivered(e)' = Delivered(e)
  BY <1>2 DEF Chunk, Delivered
<1>7. counted'[d] + Len(inbox'[d]) = sent'[d]
  BY <1>1, <1>2, <1>3, <1>4, <1>5, QueueTypes
<1>8. /\ Sink(d) \notin reset => counted'[d] = Delivered(d)' + Len(Chunk(d)')
      /\ Follows(outbox'[d], Len(received'[d]))
      /\ Sink(d) \notin reset => Follows(Chunk(d)', Delivered(d)')
      /\ Follows(inbox'[d], counted'[d])
  BY <1>1, <1>2, <1>5, <1>6 DEF InOrder, CountsEveryByte
<1> QED
  BY <1>2, <1>3, <1>5, <1>6, <1>7, <1>8, OtherDirection

\* A receiver reads the byte that comes next.
LEMMA ReceiveKeepsStreams ==
    ASSUME TunnelInv, NEW d \in DataDirection, Receive(d)
    PROVE  /\ CountsEveryByte' /\ InOrder'
           /\ outbox'[d] \in Seq(Nat) /\ received'[d] \in Seq(Nat)
           /\ received' = [received EXCEPT ![d] = Append(@, Len(@) + 1)]
           /\ Len(received[d]) < sent[d]
<1>1. TypeOK /\ CountsEveryByte /\ InOrder
  BY DEF TunnelInv
<1>2. /\ Sink(d) \notin reset /\ outbox[d] # <<>>
      /\ received' = [received EXCEPT ![d] = Append(received[d], Head(outbox[d]))]
      /\ outbox' = [outbox EXCEPT ![d] = Tail(outbox[d])]
      /\ UNCHANGED <<pc, dir, buf, counted, inbox, sent, reset>>
  BY DEF Receive, loop
<1>3. /\ Head(outbox[d]) = Len(received[d]) + 1 /\ Head(outbox[d]) \in Nat
      /\ Tail(outbox[d]) \in Seq(Nat)
      /\ Len(Tail(outbox[d])) = Len(outbox[d]) - 1 /\ Len(outbox[d]) >= 1
      /\ Follows(Tail(outbox[d]), Len(received[d]) + 1)
  <2>1. outbox[d] \in Seq(Nat) /\ Len(received[d]) \in Nat
    BY <1>1, QueueTypes
  <2> QED
    BY <1>1, <1>2, <2>1, TailFollows DEF InOrder
<1>4. /\ received'[d] \in Seq(Nat) /\ Len(received'[d]) = Len(received[d]) + 1
      /\ outbox'[d] = Tail(outbox[d])
      /\ \A e \in DataDirection \ {d} :
            received'[e] = received[e] /\ outbox'[e] = outbox[e]
  BY <1>1, <1>2, <1>3, AppendProperties DEF TypeOK
<1>5. \A e \in DataDirection : Chunk(e)' = Chunk(e)
  BY <1>2 DEF Chunk
<1>6. Delivered(d)' = Delivered(d)
  <2> DEFINE r == Len(received[d])
             o == Len(outbox[d])
  <2>1. r \in Nat /\ o \in Nat /\ Delivered(d) = r + o
    BY <1>1, QueueTypes DEF Delivered
  <2>2. Delivered(d)' = (r + 1) + (o - 1)
    BY <1>3, <1>4 DEF Delivered
  <2> HIDE DEF r, o
  <2> QED
    BY <2>1, <2>2
<1>7. /\ counted'[d] + Len(inbox'[d]) = sent'[d]
      /\ Sink(d) \notin reset => counted'[d] = Delivered(d)' + Len(Chunk(d)')
      /\ Sink(d) \notin reset => Follows(Chunk(d)', Delivered(d)')
      /\ Follows(inbox'[d], counted'[d])
  BY <1>1, <1>2, <1>5, <1>6 DEF InOrder, CountsEveryByte
<1>8. Follows(outbox'[d], Len(received'[d]))
  BY <1>3, <1>4
<1>9. Len(received[d]) < sent[d]
  <2> DEFINE r == Len(received[d])
             o == Len(outbox[d])
             c == Len(Chunk(d))
             i == Len(inbox[d])
  <2>1. /\ r \in Nat /\ o \in Nat /\ o >= 1 /\ c \in Nat /\ i \in Nat
        /\ sent[d] \in Nat /\ counted[d] \in Nat
    BY <1>1, <1>3, QueueTypes
  <2>2. counted[d] + i = sent[d] /\ counted[d] = (r + o) + c
    BY <1>1, <1>2 DEF CountsEveryByte, Delivered
  <2> HIDE DEF r, o, c, i
  <2>3. r < sent[d]
    BY <2>1, <2>2
  <2> QED
    BY <2>3 DEF r
<1> QED
  BY <1>2, <1>3, <1>4, <1>5, <1>7, <1>8, <1>9, OtherDirection

\* The steps that move no byte.
QuietStep ==
    \/ \E d \in DataDirection : ReadEof(d) \/ ReadError(d) \/ Finish(d)
    \/ \E e \in Ends : Reset(e)
    \/ WriteError \/ TimeoutFires \/ Tick
    \/ UNCHANGED vars

\* They leave the streams alone, and a chunk is only given up after its
\* receiver has gone.
LEMMA QuietStepMoves ==
    ASSUME TunnelInv, QuietStep
    PROVE  /\ UNCHANGED <<inbox, outbox, received, sent, counted>>
           /\ reset \subseteq reset'
           /\ \A d \in DataDirection : Sink(d) \notin reset' => Chunk(d)' = Chunk(d)
<1>1. UNCHANGED <<inbox, outbox, received, sent, counted>> /\ reset \subseteq reset'
  BY DEF QuietStep, ReadEof, ReadError, Finish, Reset, WriteError, TimeoutFires, Tick,
         vars, ends, loop
<1>2. CASE WriteError
  BY <1>2 DEF WriteError, Chunk, CountError, Close, ends
<1>3. CASE ~WriteError
  <2>1. \/ UNCHANGED <<pc, dir, buf>>
        \/ pc = "select" /\ pc' \in {"select", "closed"}
    BY <1>3 DEF QuietStep, ReadEof, ReadError, Finish, Reset, TimeoutFires, Tick,
                CountError, Close, vars, loop
  <2> QED
    BY <1>1, <2>1 DEF Chunk
<1> QED
  BY <1>1, <1>2, <1>3

\* Every step keeps what is said about bytes.
LEMMA StreamsNext == TunnelInv /\ [Next]_vars => CountsEveryByte' /\ InOrder'
<1> SUFFICES ASSUME TunnelInv, [Next]_vars PROVE CountsEveryByte' /\ InOrder'
  OBVIOUS
<1>1. CASE QuietStep
  BY <1>1, QuietStepMoves, QuietKeepsStreams
<1>2. CASE WriteByte
  BY <1>2, WriteKeepsStreams DEF TunnelInv, TypeOK
<1> QED
  BY <1>1, <1>2, ReadKeepsStreams, SendKeepsStreams, ReceiveKeepsStreams
     DEF Next, Tunnel, Environment, QuietStep

-----------------------------------------------------------------------------
(* The loop.                                                                *)

\* A failing write is the first error after the read before it.
LEMMA ErrorsCounted ==
    ASSUME TunnelInv, CountError, pc # "closed"
    PROVE  /\ errors' \in 0..MAX_ERRORS /\ (pc' = "select" => errors' < MAX_ERRORS)
           /\ pc' \in {"select", "closed"} /\ cause' \in Causes
           /\ pc' = "closed" <=> cause' # "none"
           /\ cause' \notin DataDirection
           /\ pc = "write" => pc' = "select"
<1>1. /\ errors \in 0..MAX_ERRORS /\ cause \in Causes /\ cause = "none"
      /\ pc \in {"select", "write"}
      /\ pc = "select" => errors < MAX_ERRORS
      /\ pc = "write" => errors = 0
  BY DEF TunnelInv, TypeOK, WriteFollowsRead
<1>2. errors < MAX_ERRORS
  BY <1>1 DEF MAX_ERRORS
<1> QED
  BY <1>1, <1>2 DEF CountError, Close, Causes, MAX_ERRORS, DataDirection

\* Every step keeps the types.
LEMMA TypesNext == TunnelInv /\ [Next]_vars => TypeOK'
<1> SUFFICES ASSUME TunnelInv, [Next]_vars PROVE TypeOK'
  OBVIOUS
<1>1. TypeOK
  BY DEF TunnelInv
<1>2. 0 \in 0..Timeout /\ 0 \in 0..MAX_ERRORS /\ 0 < MAX_ERRORS /\ <<>> \in Seq(Nat)
  BY TunnelAssumption, EmptySeq DEF MAX_ERRORS
<1>3. ASSUME NEW d \in DataDirection, ReadData(d)
      PROVE  TypeOK'
  <2>1. PICK n \in 1..BufSize :
          /\ n <= Len(inbox[d])
          /\ buf' = SubSeq(inbox[d], 1, n)
          /\ inbox' = [inbox EXCEPT ![d] = SubSeq(inbox[d], n + 1, Len(inbox[d]))]
          /\ counted' = [counted EXCEPT ![d] = counted[d] + n]
    BY <1>3 DEF ReadData
  <2>2. /\ n \in Nat /\ inbox[d] \in Seq(Nat) /\ counted[d] \in Nat
        /\ Follows(inbox[d], counted[d])
    BY <1>1, QueueTypes, TunnelAssumption DEF TunnelInv, InOrder
  <2>3. /\ SubSeq(inbox[d], 1, n) \in Seq(Nat)
        /\ SubSeq(inbox[d], n + 1, Len(inbox[d])) \in Seq(Nat)
        /\ counted[d] + n \in Nat
    <3>1. n <= Len(inbox[d])
      BY <2>1
    <3>2. /\ SubSeq(inbox[d], 1, n) \in Seq(Nat)
          /\ SubSeq(inbox[d], n + 1, Len(inbox[d])) \in Seq(Nat)
      BY <2>2, <3>1, SplitFollows
    <3>3. counted[d] + n \in Nat
      BY <2>2
    <3> QED
      BY <3>2, <3>3
  <2>4. /\ buf' \in Seq(Nat) /\ inbox' \in [DataDirection -> Seq(Nat)]
        /\ counted' \in [DataDirection -> Nat]
    BY <1>1, <2>1, <2>3 DEF TypeOK
  <2> QED
    BY <1>1, <1>2, <1>3, <2>4 DEF ReadData, ends, TypeOK
<1>4. ASSUME NEW d \in DataDirection, ReadEof(d) \/ TimeoutFires
      PROVE  TypeOK'
  BY <1>1, <1>4 DEF ReadEof, TimeoutFires, Close, ends, TypeOK, Causes, DataDirection
<1>5. ASSUME NEW d \in DataDirection, ReadError(d) \/ WriteError
      PROVE  TypeOK'
  <2>1. /\ CountError /\ pc # "closed" /\ buf' \in Seq(Nat)
        /\ UNCHANGED <<dir, counted, idle, quiet, inbox, outbox, ends>>
    BY <1>1, <1>2, <1>5 DEF ReadError, WriteError, TypeOK
  <2> QED
    BY <1>1, <2>1, ErrorsCounted DEF ends, TypeOK
<1>6. CASE WriteByte
  <2>1. dir \in DataDirection
    BY <1>1 DEF TypeOK
  <2>2. buf' \in Seq(Nat) /\ outbox'[dir] \in Seq(Nat)
    BY <1>6, <2>1, WriteKeepsStreams
  <2>3. outbox' \in [DataDirection -> Seq(Nat)]
    BY <1>1, <1>6, <2>1, <2>2 DEF WriteByte, TypeOK
  <2> QED
    BY <1>1, <1>2, <1>6, <2>2, <2>3, TunnelAssumption
       DEF WriteByte, TypeOK, TunnelInv, WriteFollowsRead, ends
<1>7. ASSUME NEW d \in DataDirection, Send(d)
      PROVE  TypeOK'
  <2>1. inbox'[d] \in Seq(Nat) /\ sent[d] + 1 \in Nat
    BY <1>1, <1>7, SendKeepsStreams DEF TypeOK
  <2>2. inbox' \in [DataDirection -> Seq(Nat)] /\ sent' \in [DataDirection -> Nat]
    BY <1>1, <1>7, <2>1 DEF Send, TypeOK
  <2> QED
    BY <1>1, <1>7, <2>2 DEF Send, loop, TypeOK
<1>8. ASSUME NEW d \in DataDirection, Receive(d)
      PROVE  TypeOK'
  <2>1. outbox'[d] \in Seq(Nat) /\ received'[d] \in Seq(Nat)
    BY <1>8, ReceiveKeepsStreams
  <2>2. /\ outbox' \in [DataDirection -> Seq(Nat)]
        /\ received' \in [DataDirection -> Seq(Nat)]
    BY <1>1, <1>8, <2>1 DEF Receive, TypeOK
  <2> QED
    BY <1>1, <1>8, <2>2 DEF Receive, loop, TypeOK
<1>9. ASSUME NEW d \in DataDirection, NEW e \in Ends, Finish(d) \/ Reset(e)
      PROVE  TypeOK'
  BY <1>1, <1>9 DEF Finish, Reset, loop, TypeOK
<1>10. CASE Tick
  BY <1>1, <1>10, TunnelAssumption DEF Tick, loop, ends, TypeOK
<1>11. CASE UNCHANGED vars
  BY <1>1, <1>11 DEF vars, loop, ends, TypeOK
<1>12. \E d \in DataDirection, e \in Ends : TRUE
  BY DEF DataDirection, Ends
<1> QED
  BY <1>3, <1>4, <1>5, <1>6, <1>7, <1>8, <1>9, <1>10, <1>11, <1>12
     DEF Next, Tunnel, Environment

\* Every step keeps a written chunk behind a read, and what an ended stream
\* has left in the inbox.
LEMMA LoopNext == TunnelInv /\ [Next]_vars => WriteFollowsRead' /\ EofRead'
<1> SUFFICES ASSUME TunnelInv, [Next]_vars PROVE WriteFollowsRead' /\ EofRead'
  OBVIOUS
<1>1. /\ TypeOK /\ WriteFollowsRead /\ EofRead
      /\ pc # "closed" => cause = "none"
      /\ "none" \notin DataDirection /\ "timeout" \notin DataDirection
  BY DEF TunnelInv, TypeOK, DataDirection
<1>2. ASSUME NEW d \in DataDirection, ReadData(d)
      PROVE  WriteFollowsRead' /\ EofRead'
  <2>1. PICK n \in 1..BufSize : n <= Len(inbox[d]) /\ buf' = SubSeq(inbox[d], 1, n)
    BY <1>2 DEF ReadData
  <2>2. Len(buf') = n
    <3>1. /\ n \in Nat /\ inbox[d] \in Seq(Nat) /\ counted[d] \in Nat
          /\ Follows(inbox[d], counted[d])
      BY <1>1, QueueTypes, TunnelAssumption DEF TunnelInv, InOrder
    <3> QED
      BY <2>1, <3>1, SplitFollows
  <2>3. n # 0
    BY TunnelAssumption
  <2>4. buf' # <<>>
    BY <2>2, <2>3, EmptySeq
  <2>5. pc = "select" /\ errors' = 0 /\ cause' = cause
    BY <1>2 DEF ReadData
  <2> QED
    BY <1>1, <2>4, <2>5 DEF WriteFollowsRead, EofRead
<1>3. ASSUME NEW d \in DataDirection, ReadEof(d)
      PROVE  WriteFollowsRead' /\ EofRead'
  BY <1>3 DEF ReadEof, Close, WriteFollowsRead, EofRead
<1>4. ASSUME NEW d \in DataDirection, ReadError(d) \/ WriteError
      PROVE  WriteFollowsRead' /\ EofRead'
  <2>1. CountError /\ pc # "closed"
    BY <1>4 DEF ReadError, WriteError
  <2>2. pc' # "write" /\ cause' \notin DataDirection
    BY <2>1, ErrorsCounted
  <2> QED
    BY <2>2 DEF WriteFollowsRead, EofRead
<1>5. CASE WriteByte
  <2>1. dir \in DataDirection
    BY <1>1 DEF TypeOK
  <2>2. pc' = "write" => buf' # <<>>
    BY <1>5, <2>1, WriteKeepsStreams
  <2>3. pc = "write" /\ errors' = errors /\ cause' = cause
    BY <1>5 DEF WriteByte
  <2> QED
    BY <1>1, <2>2, <2>3 DEF WriteFollowsRead, EofRead
<1>6. CASE TimeoutFires
  BY <1>1, <1>6 DEF TimeoutFires, Close, WriteFollowsRead, EofRead
<1>7. ASSUME NEW d \in DataDirection, Send(d)
      PROVE  WriteFollowsRead' /\ EofRead'
  BY <1>1, <1>7 DEF Send, loop, WriteFollowsRead, EofRead
<1>8. ASSUME UNCHANGED <<pc, errors, buf, cause, inbox>>
      PROVE  WriteFollowsRead' /\ EofRead'
  BY <1>1, <1>8 DEF WriteFollowsRead, EofRead
<1>9. CASE \/ \E d \in DataDirection : Receive(d) \/ Finish(d)
           \/ \E e \in Ends : Reset(e)
           \/ Tick
           \/ UNCHANGED vars
  BY <1>8, <1>9 DEF Receive, Finish, Reset, Tick, loop, vars
<1>10. \E d \in DataDirection : TRUE
  BY DEF DataDirection
<1> QED
  BY <1>2, <1>3, <1>4, <1>5, <1>6, <1>7, <1>9, <1>10 DEF Next, Tunnel, Environment

-----------------------------------------------------------------------------
(* The theorems.                                                            *)

\* Nothing has been sent at the start.
LEMMA TunnelInvInit == Init => TunnelInv
<1> SUFFICES ASSUME Init PROVE TunnelInv
  OBVIOUS
<1>1. <<>> \in Seq(Nat) /\ Len(<<>>) = 0
  BY EmptySeq
<1>2. TypeOK
  BY <1>1, TunnelAssumption DEF Init, TypeOK, Causes, DataDirection, MAX_ERRORS
<1>3. ASSUME NEW d \in DataDirection
      PROVE  /\ counted[d] = 0 /\ sent[d] = 0 /\ Chunk(d) = <<>> /\ Delivered(d) = 0
             /\ inbox[d] = <<>> /\ outbox[d] = <<>> /\ received[d] = <<>>
  BY <1>1 DEF Init, Chunk, Delivered
<1>4. CountsEveryByte /\ InOrder
  BY <1>1, <1>3, EmptyFollows DEF CountsEveryByte, InOrder
<1>5. WriteFollowsRead /\ EofRead
  BY DEF Init, WriteFollowsRead, EofRead
<1> QED
  BY <1>2, <1>4, <1>5 DEF TunnelInv

\* The invariant holds for every instance.
THEOREM TunnelInvariant == Spec => []TunnelInv
<1>1. TunnelInv /\ [Next]_vars => TunnelInv'
  BY TypesNext, StreamsNext, LoopNext DEF TunnelInv
<1> QED
  BY <1>1, TunnelInvInit, PTL DEF Spec

\* Types; the loop never waits with MAX_ERRORS errors counted.
THEOREM TunnelTypeCorrect == Spec => []TypeOK
<1>1. TunnelInv => TypeOK
  BY DEF TunnelInv
<1> QED
  BY <1>1, TunnelInvariant, PTL

\* The byte counters are told of every byte read, once, and of nothing else
\* (tunnel_interceptor.rs:51-63, 81-93).
THEOREM EveryByteCounted == Spec => []CountsEveryByte
<1>1. TunnelInv => CountsEveryByte
  BY DEF TunnelInv
<1> QED
  BY <1>1, TunnelInvariant, PTL

\* A tunnel that ends with the stream of one end has written all that end
\* sent to the other one (tunnel_interceptor.rs:46-50, 76-80).
THEOREM EofLosesNothing == Spec => []EofDrains
<1>1. TunnelInv => EofDrains
  <2> SUFFICES ASSUME TunnelInv, NEW d \in DataDirection, cause = d, Sink(d) \notin reset
               PROVE  Delivered(d) = sent[d]
    BY DEF EofDrains
  <2>1. TypeOK /\ inbox[d] = <<>> /\ pc = "closed"
    BY DEF TunnelInv, TypeOK, EofRead, DataDirection
  <2>2. Len(inbox[d]) = 0 /\ Len(Chunk(d)) = 0
    BY <2>1, EmptySeq, NoChunk
  <2> QED
    BY <2>1, <2>2, QueueTypes DEF TunnelInv, CountsEveryByte
<1> QED
  BY <1>1, TunnelInvariant, PTL

\* No failing write ends the tunnel, whatever errors came before
\* (tunnel_interceptor.rs:51-74, 81-102).
THEOREM WritesNeverClose == Spec => FailedWriteNeverCloses
<1>1. TunnelInv /\ [Next]_vars => (pc = "write" => pc' # "closed")
  <2> SUFFICES ASSUME TunnelInv, [Next]_vars, pc = "write" PROVE pc' # "closed"
    OBVIOUS
  <2>1. CASE WriteError
    BY <2>1, ErrorsCounted DEF WriteError
  <2>2. CASE WriteByte
    BY <2>2 DEF WriteByte
  <2>3. CASE Environment \/ UNCHANGED vars
    BY <2>3 DEF Environment, Send, Receive, Finish, Reset, Tick, loop, vars
  <2> QED
    BY <2>1, <2>2, <2>3 DEF Next, Tunnel, ReadData, ReadEof, ReadError, TimeoutFires
<1> QED
  BY <1>1, TunnelInvariant, PTL DEF Spec, FailedWriteNeverCloses

-----------------------------------------------------------------------------
(* The refinement.                                                          *)

\* Nothing is sent or received at the start, as in the abstract relay.
LEMMA TunnelInitRefines == Init => Relay!RelayInit
BY DEF Init, Relay!RelayInit

\* Send and Receive are the steps of the abstract relay; everything the tunnel
\* itself does is invisible to it.
LEMMA TunnelStepRefines ==
    TunnelInv /\ [Next]_vars => [Relay!RelayNext]_(Relay!relayVars)
<1> SUFFICES ASSUME TunnelInv, [Next]_vars
             PROVE  [Relay!RelayNext]_(Relay!relayVars)
  OBVIOUS
<1>1. ASSUME NEW d \in DataDirection, Send(d)
      PROVE  Relay!SendNext(d)
  BY <1>1 DEF Send, Relay!SendNext
<1>2. ASSUME NEW d \in DataDirection, Receive(d)
      PROVE  Relay!ReceiveNext(d)
  <2>1. /\ received' = [received EXCEPT ![d] = Append(@, Len(@) + 1)]
        /\ Len(received[d]) < sent[d] /\ sent' = sent
    BY <1>2, ReceiveKeepsStreams DEF Receive
  <2> QED
    BY <2>1 DEF Relay!ReceiveNext
<1>3. CASE QuietStep
  BY <1>3, QuietStepMoves DEF Relay!relayVars
<1>4. CASE WriteByte \/ \E d \in DataDirection : ReadData(d)
  BY <1>4 DEF WriteByte, ReadData, ends, Relay!relayVars
<1> QED
  BY <1>1, <1>2, <1>3, <1>4 DEF Next, Tunnel, Environment, QuietStep, Relay!RelayNext

\* The tunnel implements the abstract relay: each end receives a prefix of
\* what the other one sent (tunnel_interceptor.rs:42-102).
THEOREM TunnelImplementsRelay == Spec => ImplementsRelay
BY TunnelInitRefines, TunnelStepRefines, TunnelInvariant, PTL
   DEF Spec, ImplementsRelay, Relay!RelaySpec

\* In each direction exactly the first so many of the bytes sent have been
\* received, in order, none of them twice and none left out: what the abstract
\* relay promises, said of the ends (tunnel_interceptor.rs:42-102).
THEOREM BytesArriveInOrder == Spec => []ArePrefixes(DataDirection, received, sent)
<1>1. Relay!RelayInit => ArePrefixes(DataDirection, received, sent)
  BY EmptyPrefixes DEF Relay!RelayInit
<1>2. ArePrefixes(DataDirection, received, sent) /\ [Relay!RelayNext]_(Relay!relayVars)
        => ArePrefixes(DataDirection, received, sent)'
  <2> SUFFICES ASSUME ArePrefixes(DataDirection, received, sent),
                      [Relay!RelayNext]_(Relay!relayVars)
               PROVE  ArePrefixes(DataDirection, received', sent')
    BY DEF ArePrefixes, Follows, DataDirection
  <2>1. ASSUME NEW d \in DataDirection, Relay!SendNext(d)
        PROVE  ArePrefixes(DataDirection, received', sent')
    BY <2>1, SendKeepsPrefixes DEF Relay!SendNext
  <2>2. ASSUME NEW d \in DataDirection, Relay!ReceiveNext(d)
        PROVE  ArePrefixes(DataDirection, received', sent')
    BY <2>2, ReceiveKeepsPrefixes DEF Relay!ReceiveNext
  <2>3. CASE UNCHANGED Relay!relayVars
    BY <2>3 DEF Relay!relayVars
  <2> QED
    BY <2>1, <2>2, <2>3 DEF Relay!RelayNext
<1>3. Relay!RelaySpec => []ArePrefixes(DataDirection, received, sent)
  BY <1>1, <1>2, PTL DEF Relay!RelaySpec
<1> QED
  BY <1>3, TunnelImplementsRelay, PTL DEF ImplementsRelay
=============================================================================
