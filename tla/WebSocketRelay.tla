--------------------------- MODULE WebSocketRelay ---------------------------
(***************************************************************************)
(* Websocket::handle_websocket: the target is dialled, the client upgraded, *)
(* and one task forwards messages both ways with two loops, the branches of *)
(* one select!.  Each loop awaits its own reads and sends, so that one of   *)
(* them can wait while the other goes on; when one ends, select! drops the  *)
(* other.  The sockets, and tungstenite on top of them, are external:       *)
(* bounded queues of messages, streams that end (a close frame is the last  *)
(* message of its stream and is forwarded like any other) or fail.          *)
(***************************************************************************)
EXTENDS Integers, Sequences

CONSTANTS
    SockSize,       \* messages the connection to an end holds
    MaxMessages     \* bound on the messages each end sends

ASSUME WebSocketAssumption ==
    /\ SockSize \in Nat \ {0}
    /\ MaxMessages \in Nat

\* The two loops, named as in the source.
Loops == {"client_to_server", "server_to_client"}

VARIABLES
    pc,         \* what the handler, then the spawned task, is doing
    response,   \* what the client is answered
    cause,      \* the loop whose stream has ended, or how else they stopped
    held,       \* what a loop has read and not sent: at most one message
    told,       \* the ends that have been sent a close frame
    sent,       \* messages sent by the source of each loop
    inbox,      \* messages a loop has not read yet
    outbox,     \* messages a loop has sent and the sink not received
    received,   \* messages the sink has received
    finished,   \* the source has ended its stream
    broken,     \* the ends whose connection has failed
    attentive   \* the ends that keep receiving

task == <<pc, response, cause, told>>
ends == <<sent, received, finished, broken, attentive>>
vars == <<task, held, inbox, outbox, ends>>

Ends == {"client", "target"}
Source(d) == IF d = "client_to_server" THEN "client" ELSE "target"
Sink(d)   == IF d = "client_to_server" THEN "target" ELSE "client"
LoopTo(e) == CHOOSE d \in Loops : Sink(d) = e
LoopFrom(e) == CHOOSE d \in Loops : Source(d) = e

-----------------------------------------------------------------------------
(* From the request to the two loops.                                       *)

Step(from, to) ==
    /\ pc = from /\ pc' = to
    /\ UNCHANGED <<cause, told, held, inbox, outbox, ends>>

\* The client is answered with the status of the target's own answer.
AnswerUpgrade == response' = "101"

\* connect_async succeeds: the upgrade task is spawned and the answer returned.
ConnectTarget == Step("connecting", "upgrading") /\ AnswerUpgrade

ConnectFails == Step("connecting", "ended") /\ response' = "502"

\* The client leaves while the target is dialled.
HandlerDropped == Step("connecting", "ended") /\ UNCHANGED response

Upgraded == Step("upgrading", "forwarding") /\ UNCHANGED response

\* The connection to the target is dropped without a close frame.
UpgradeFails == Step("upgrading", "ended") /\ UNCHANGED response

-----------------------------------------------------------------------------
(* The two loops.                                                           *)

\* select! leaves with the first loop to end; the other one is dropped.
EndLoops(why) ==
    /\ pc' = "close_client"
    /\ cause' = why
    /\ UNCHANGED <<response, told>>

ReadAhead(d) ==
    /\ pc = "forwarding"
    /\ inbox[d] # <<>>
    /\ held' = [held EXCEPT ![d] = Append(@, Head(inbox[d]))]
    /\ inbox' = [inbox EXCEPT ![d] = Tail(@)]
    /\ UNCHANGED <<task, outbox, ends>>
ReadMessage(d) ==
    /\ pc = "forwarding" /\ held[d] = <<>>
    /\ inbox[d] # <<>>
    /\ held' = [held EXCEPT ![d] = <<Head(inbox[d])>>]
    /\ inbox' = [inbox EXCEPT ![d] = Tail(@)]
    /\ UNCHANGED <<task, outbox, ends>>

\* next() returns None
StreamEndsEarly(d) ==
    /\ pc = "forwarding"
    /\ inbox[d] = <<>> /\ finished[d]
    /\ EndLoops(d)
    /\ UNCHANGED <<held, inbox, outbox, ends>>
StreamEnds(d) ==
    /\ pc = "forwarding" /\ held[d] = <<>>
    /\ inbox[d] = <<>> /\ finished[d]
    /\ EndLoops(d)
    /\ UNCHANGED <<held, inbox, outbox, ends>>

\* next() returns Some(Err(e)): the connection has failed, and what had arrived
\* before may be lost, or it stays and the message that comes next is refused
\* (protocol, UTF-8, size).  Nobody reads on.
ReadErrorTakenAsGone(d) ==
    /\ pc = "forwarding" /\ held[d] = <<>>
    /\ Source(d) \in broken \/ inbox[d] # <<>>
    /\ pc' = IF Source(d) = "client" THEN "close_target" ELSE "close_client"
    /\ cause' = "error"
    /\ UNCHANGED <<response, told, held, inbox, outbox, ends>>
ReadError(d) ==
    /\ pc = "forwarding" /\ held[d] = <<>>
    /\ Source(d) \in broken \/ inbox[d] # <<>>
    /\ EndLoops("error")
    /\ UNCHANGED <<held, inbox, outbox, ends>>

\* send(msg).await ends once the connection has taken the message.
ForwardAlone(d) ==
    /\ pc = "forwarding" /\ held[d] # <<>>
    /\ held[LoopTo(Source(d))] = <<>>
    /\ Sink(d) \notin broken
    /\ Len(outbox[d]) < SockSize
    /\ outbox' = [outbox EXCEPT ![d] = @ \o held[d]]
    /\ held' = [held EXCEPT ![d] = <<>>]
    /\ UNCHANGED <<task, inbox, ends>>
ForwardAgain(d) ==
    /\ pc = "forwarding" /\ held[d] # <<>>
    /\ Sink(d) \notin broken
    /\ Len(outbox[d]) < SockSize
    /\ outbox' = [outbox EXCEPT ![d] = @ \o held[d]]
    /\ UNCHANGED <<task, held, inbox, ends>>
Forward(d) ==
    /\ pc = "forwarding" /\ held[d] # <<>>
    /\ Sink(d) \notin broken
    /\ Len(outbox[d]) < SockSize
    /\ outbox' = [outbox EXCEPT ![d] = @ \o held[d]]
    /\ held' = [held EXCEPT ![d] = <<>>]
    /\ UNCHANGED <<task, inbox, ends>>

\* An end that is gone, or whose close frame the other loop has read already.
Unwilling(e) ==
    \/ e \in broken
    \/ LET d == LoopFrom(e) IN finished[d] /\ inbox[d] = <<>>

SendError(d) ==
    /\ pc = "forwarding" /\ held[d] # <<>>
    /\ Unwilling(Sink(d))
    /\ EndLoops("error")
    /\ held' = [held EXCEPT ![d] = <<>>]
    /\ UNCHANGED <<inbox, outbox, ends>>

ForwardLoop(d) ==
    \/ ReadMessage(d) \/ StreamEnds(d) \/ ReadError(d)
    \/ Forward(d) \/ SendError(d)

-----------------------------------------------------------------------------
(* After select!: the client is sent a close frame, then the target.        *)

\* What the dropped loop had read may still be in the buffer of the sink,
\* which close() flushes, or lost.
CloseEnd(e) ==
    LET d == LoopTo(e)
    IN  /\ e \notin broken
        /\ Len(outbox[d]) < SockSize
        /\ outbox' \in {outbox, [outbox EXCEPT ![d] = @ \o held[d]]}
        /\ held' = [held EXCEPT ![d] = <<>>]
        /\ told' = told \cup {e}
        /\ UNCHANGED <<response, cause, inbox, ends>>

CloseFails(e) ==
    /\ Unwilling(e)
    /\ held' = [held EXCEPT ![LoopTo(e)] = <<>>]
    /\ UNCHANGED <<response, cause, told, inbox, outbox, ends>>

\* An error of close() is logged, and the target is closed all the same.
CloseClientOrGiveUp ==
    /\ pc = "close_client"
    /\ \/ CloseEnd("client") /\ pc' = "close_target"
       \/ CloseFails("client") /\ pc' = "ended"
CloseClient ==
    /\ pc = "close_client"
    /\ CloseEnd("client") \/ CloseFails("client")
    /\ pc' = "close_target"

CloseTarget ==
    /\ pc = "close_target"
    /\ CloseEnd("target") \/ CloseFails("target")
    /\ pc' = "ended"

-----------------------------------------------------------------------------
(* The two ends.                                                            *)

Connected == pc \notin {"connecting", "ended"}

Send(d) ==
    /\ Connected
    /\ ~finished[d] /\ Source(d) \notin broken
    /\ sent[d] < MaxMessages /\ Len(inbox[d]) < SockSize
    /\ sent' = [sent EXCEPT ![d] = @ + 1]
    /\ inbox' = [inbox EXCEPT ![d] = Append(@, sent[d] + 1)]
    /\ UNCHANGED <<task, held, outbox, received, finished, broken, attentive>>

Receive(d) ==
    /\ Sink(d) \notin broken
    /\ outbox[d] # <<>>
    /\ received' = [received EXCEPT ![d] = Append(@, Head(outbox[d]))]
    /\ outbox' = [outbox EXCEPT ![d] = Tail(@)]
    /\ UNCHANGED <<task, held, inbox, sent, finished, broken, attentive>>

\* The message sent last was a close frame.
EndStream(d) ==
    /\ Connected
    /\ sent[d] > 0
    /\ ~finished[d] /\ Source(d) \notin broken
    /\ finished' = [finished EXCEPT ![d] = TRUE]
    /\ UNCHANGED <<task, held, inbox, outbox, sent, received, broken, attentive>>

Break(e) ==
    /\ Connected
    /\ e \notin broken
    /\ broken' = broken \cup {e}
    /\ UNCHANGED <<task, held, inbox, outbox, sent, received, finished, attentive>>

-----------------------------------------------------------------------------
Init ==
    /\ pc = "connecting" /\ response = "none" /\ cause = "none" /\ told = {}
    /\ held = [d \in Loops |-> <<>>]
    /\ sent = [d \in Loops |-> 0]
    /\ inbox = [d \in Loops |-> <<>>]
    /\ outbox = [d \in Loops |-> <<>>]
    /\ received = [d \in Loops |-> <<>>]
    /\ finished = [d \in Loops |-> FALSE]
    /\ broken = {}
    /\ attentive \in SUBSET Ends

Handshake ==
    ConnectTarget \/ ConnectFails \/ HandlerDropped \/ Upgraded \/ UpgradeFails

Environment ==
    \/ \E d \in Loops : Send(d) \/ Receive(d) \/ EndStream(d)
    \/ \E e \in Ends : Break(e)

Next ==
    \/ Handshake
    \/ \E d \in Loops : ForwardLoop(d)
    \/ CloseClient \/ CloseTarget
    \/ Environment

Spec == Init /\ [][Next]_vars

\* select! polls both loops whenever their sockets are ready, the runtime polls
\* the task, and the attentive ends receive what has arrived.
Fairness ==
    /\ \A d \in Loops :
        /\ WF_vars(ForwardLoop(d))
        /\ WF_vars(Sink(d) \in attentive /\ Receive(d))
    /\ WF_vars(CloseClient \/ CloseTarget)

FairSpec == Spec /\ Fairness

-----------------------------------------------------------------------------
(* Properties.                                                              *)

\* Types; a loop holds at most one message, and nobody is sent a close frame
\* while messages are forwarded.
TypeOK ==
    /\ pc \in {"connecting", "upgrading", "forwarding", "close_client",
               "close_target", "ended"}
    /\ response \in {"none", "101", "502"}
    /\ cause \in Loops \cup {"none", "error"}
    /\ told \subseteq Ends /\ (pc = "forwarding" => told = {})
    /\ held \in [Loops -> Seq(Nat)] /\ \A d \in Loops : Len(held[d]) <= 1
    /\ sent \in [Loops -> Nat]
    /\ inbox \in [Loops -> Seq(Nat)]
    /\ outbox \in [Loops -> Seq(Nat)]
    /\ received \in [Loops -> Seq(Nat)]
    /\ finished \in [Loops -> BOOLEAN]
    /\ broken \subseteq Ends
    /\ attentive \subseteq Ends

\* Each end receives a prefix of the messages the other one sent, in order and
\* none twice, also when a loop is dropped in the middle of a send and close()
\* flushes what it held (websocket_interceptor.rs:120-203).
Relay == INSTANCE ByteRelay WITH Directions <- Loops

ImplementsRelay == Relay!RelaySpec

\* When the loops end because the stream of one end has ended, everything that
\* end sent, its close frame included, has been handed to the other one
\* (websocket_interceptor.rs:121-131).
StreamEndDrains ==
    \A d \in Loops :
        cause = d => Len(received[d]) + Len(outbox[d]) = sent[d]

\* The relay itself loses at most one message in each direction, however its
\* loops end: all others an end has sent have been received, are with the
\* connection to the other end, have not been read or were refused.  The one
\* is what a loop held when its send failed or select! dropped it
\* (websocket_interceptor.rs:120-203).
LosesAtMostOne ==
    \A d \in Loops :
        sent[d] <= Len(received[d]) + Len(outbox[d]) + Len(inbox[d]) + 1

\* A task that ends after its loops has told both ends, each of which has been
\* sent a close frame, is gone or has had its own close frame read: neither a
\* failure of the first close() nor a message of a living end that was refused
\* leaves anybody out (websocket_interceptor.rs:132-138, 155-161, 168-201).
\* That the task ends is the other half, BothEndsTold.
Answered(e) == e \in told \/ Unwilling(e)

NobodyLeftOut == pc = "ended" /\ cause # "none" => \A e \in Ends : Answered(e)

\* An end that receives gets what the other one sends even if that one
\* receives nothing itself, so that the opposite loop waits in send for ever
\* (websocket_interceptor.rs:167; TunnelInterceptor does not have this).
DirectionsIndependent ==
    \A d \in Loops :
        pc = "forwarding" /\ Sink(d) \in attentive
            ~> \/ Len(received[d]) = sent[d]
               \/ pc # "forwarding"
               \/ Sink(d) \in broken

\* Once a loop has ended, for whatever reason, each end is sent a close frame
\* unless it is gone or its own has been read, whatever fails before: an error
\* of the client does not keep the close frame from the target, nor from the
\* client itself if it is still there.  A client that stays but does not
\* receive does (websocket_interceptor.rs:171-182, 190-201).
BothEndsTold ==
    cause # "none" /\ Ends \subseteq attentive \cup broken
        ~> \A e \in Ends : Answered(e)
=============================================================================
