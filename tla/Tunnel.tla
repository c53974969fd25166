------------------------------- MODULE Tunnel -------------------------------
(***************************************************************************)
(* The copying loop of TunnelInterceptor::handle_tunnel between a client    *)
(* and a target.  One task serves both directions: it waits in select! for  *)
(* a read or for the idle timer, and while it writes what it has read it    *)
(* neither reads nor looks at the timer.  The sockets of the two ends are   *)
(* external: bounded queues, orderly shutdown and reset.                    *)
(***************************************************************************)
EXTENDS Integers, Sequences, FiniteSets

CONSTANTS
    BufSize,    \* bytes of client_buf and server_buf, 32 KiB in the program
    SockSize,   \* bytes a socket holds for each direction
    Volume,     \* bound on the bytes each end sends: [DataDirection -> Nat]
    Timeout,    \* clock ticks of TIMEOUT_DURATION
    EchoTarget  \* the target reads on only after answering what it has read,
                \* and both ends stay connected

DataDirection == {"Upstream", "Downstream"}

ASSUME TunnelAssumption ==
    /\ BufSize \in Nat \ {0}
    /\ SockSize \in Nat \ {0}
    /\ Volume \in [DataDirection -> Nat]
    /\ Timeout \in Nat \ {0}
    /\ EchoTarget \in BOOLEAN

MAX_ERRORS == 3

VARIABLES
    pc,         \* "select", "write" or "closed"
    dir,        \* the direction being written
    buf,        \* what write_all still has to write
    errors,     \* error_count
    idle,       \* ticks since the timer was reset, up to Timeout
    quiet,      \* history: ticks since the tunnel read or wrote a byte
    cause,      \* why the loop ended
    counted,    \* bytes given to handle_data, per direction
    sent,       \* bytes sent by the source of each direction
    inbox,      \* bytes the tunnel has not read yet
    outbox,     \* bytes the tunnel has written and the receiver not read
    received,   \* bytes the receiver has read
    finished,   \* the source of the direction has shut its side down
    reset       \* the ends that have reset their connection

loop == <<pc, dir, buf, errors, cause, counted>>
ends == <<sent, received, finished, reset>>
vars == <<loop, idle, quiet, ends, inbox, outbox>>

Ends == {"client", "target"}
Source(d) == IF d = "Upstream" THEN "client" ELSE "target"
Sink(d)   == IF d = "Upstream" THEN "target" ELSE "client"

\* The loop ends with the stream of a direction, with errors or by the timer.
Causes == DataDirection \cup {"none", "errors", "timeout"}

-----------------------------------------------------------------------------
(* The loop.                                                                *)

Close(why) == pc' = "closed" /\ cause' = why

\* error_count += 1; if error_count >= MAX_ERRORS { break; }
CountErrorLate ==
    /\ errors' = errors + 1
    /\ IF errors + 1 > MAX_ERRORS
       THEN Close("errors")
       ELSE pc' = "select" /\ UNCHANGED cause
CountError ==
    /\ errors' = errors + 1
    /\ IF errors + 1 >= MAX_ERRORS
       THEN Close("errors")
       ELSE pc' = "select" /\ UNCHANGED cause

\* Ok(n): the error count and the timer are reset, the plugins are told, and
\* write_all starts.  A read returns some prefix of what has arrived.
ReadDataWholeBuffer(d) ==
    /\ pc = "select"
    /\ \E n \in 1..BufSize :
        /\ n <= Len(inbox[d])
        /\ buf' = SubSeq(inbox[d], 1, n) \o [i \in 1..(BufSize - n) |-> 0]
        /\ inbox' = [inbox EXCEPT ![d] = SubSeq(@, n + 1, Len(@))]
        /\ counted' = [counted EXCEPT ![d] = @ + n]
    /\ pc' = "write" /\ dir' = d /\ errors' = 0 /\ idle' = 0 /\ quiet' = 0
    /\ UNCHANGED <<cause, outbox, ends>>
ReadDataKeepsErrors(d) ==
    /\ pc = "select"
    /\ \E n \in 1..BufSize :
        /\ n <= Len(inbox[d])
        /\ buf' = SubSeq(inbox[d], 1, n)
        /\ inbox' = [inbox EXCEPT ![d] = SubSeq(@, n + 1, Len(@))]
        /\ counted' = [counted EXCEPT ![d] = @ + n]
    /\ pc' = "write" /\ dir' = d /\ idle' = 0 /\ quiet' = 0
    /\ UNCHANGED <<errors, cause, outbox, ends>>
ReadData(d) ==
    /\ pc = "select"
    /\ \E n \in 1..BufSize :
        /\ n <= Len(inbox[d])
        /\ buf' = SubSeq(inbox[d], 1, n)
        /\ inbox' = [inbox EXCEPT ![d] = SubSeq(@, n + 1, Len(@))]
        /\ counted' = [counted EXCEPT ![d] = @ + n]
    /\ pc' = "write"
    /\ dir' = d
    /\ errors' = 0
    /\ idle' = 0
    /\ quiet' = 0
    /\ UNCHANGED <<cause, outbox, ends>>

\* Ok(0)
ReadEof(d) ==
    /\ pc = "select"
    /\ inbox[d] = <<>>
    /\ finished[d] \/ Source(d) \in reset
    /\ Close(d)
    /\ UNCHANGED <<dir, buf, errors, counted, idle, quiet, inbox, outbox, ends>>

\* Err(e)
ReadError(d) ==
    /\ pc = "select"
    /\ inbox[d] = <<>>
    /\ Source(d) \in reset
    /\ CountError
    /\ UNCHANGED <<dir, buf, counted, idle, quiet, inbox, outbox, ends>>

\* write_all hands the next byte to the socket, and returns after the last.
WriteOnce ==
    /\ pc = "write"
    /\ Sink(dir) \notin reset
    /\ Len(outbox[dir]) < SockSize
    /\ outbox' = [outbox EXCEPT ![dir] = Append(@, Head(buf))]
    /\ buf' = <<>>
    /\ pc' = "select"
    /\ quiet' = 0
    /\ UNCHANGED <<dir, errors, cause, counted, idle, inbox, ends>>
WriteByte ==
    /\ pc = "write"
    /\ Sink(dir) \notin reset
    /\ Len(outbox[dir]) < SockSize
    /\ outbox' = [outbox EXCEPT ![dir] = Append(@, Head(buf))]
    /\ buf' = Tail(buf)
    /\ pc' = IF Len(buf) = 1 THEN "select" ELSE "write"
    /\ quiet' = 0
    /\ UNCHANGED <<dir, errors, cause, counted, idle, inbox, ends>>

\* write_all fails: the rest of the chunk is given up.
WriteError ==
    /\ pc = "write"
    /\ Sink(dir) \in reset
    /\ buf' = <<>>
    /\ CountError
    /\ UNCHANGED <<dir, counted, idle, quiet, inbox, outbox, ends>>

\* The timer branch of select!.
TimeoutWithoutBreak ==
    /\ pc = "select"
    /\ idle = Timeout
    /\ UNCHANGED vars
TimeoutFires ==
    /\ pc = "select"
    /\ idle = Timeout
    /\ Close("timeout")
    /\ UNCHANGED <<dir, buf, errors, counted, idle, quiet, inbox, outbox, ends>>

Tunnel ==
    \/ \E d \in DataDirection : ReadData(d) \/ ReadEof(d) \/ ReadError(d)
    \/ WriteByte
    \/ WriteError
    \/ TimeoutFires

-----------------------------------------------------------------------------
(* The two ends and the clock.                                              *)

\* An echo target answers each byte before it reads the next one.
MaySend(d) ==
    EchoTarget /\ d = "Downstream" => sent[d] < Len(received["Upstream"])
MayReceive(d) ==
    EchoTarget /\ d = "Upstream" => Len(received[d]) = sent["Downstream"]

Send(d) ==
    /\ pc # "closed"
    /\ ~finished[d] /\ Source(d) \notin reset
    /\ sent[d] < Volume[d] /\ Len(inbox[d]) < SockSize
    /\ MaySend(d)
    /\ sent' = [sent EXCEPT ![d] = @ + 1]
    /\ inbox' = [inbox EXCEPT ![d] = Append(@, sent[d] + 1)]
    /\ UNCHANGED <<loop, idle, quiet, outbox, received, finished, reset>>

Receive(d) ==
    /\ Sink(d) \notin reset
    /\ outbox[d] # <<>>
    /\ MayReceive(d)
    /\ received' = [received EXCEPT ![d] = Append(@, Head(outbox[d]))]
    /\ outbox' = [outbox EXCEPT ![d] = Tail(@)]
    /\ UNCHANGED <<loop, idle, quiet, inbox, sent, finished, reset>>

Finish(d) ==
    /\ pc # "closed"
    /\ ~EchoTarget
    /\ ~finished[d] /\ Source(d) \notin reset
    /\ finished' = [finished EXCEPT ![d] = TRUE]
    /\ UNCHANGED <<loop, idle, quiet, inbox, outbox, sent, received, reset>>

Reset(e) ==
    /\ pc # "closed"
    /\ ~EchoTarget
    /\ e \notin reset
    /\ reset' = reset \cup {e}
    /\ UNCHANGED <<loop, idle, quiet, inbox, outbox, sent, received, finished>>

Tick ==
    /\ pc # "closed"
    /\ idle < Timeout \/ quiet < Timeout
    /\ idle' = IF idle < Timeout THEN idle + 1 ELSE idle
    /\ quiet' = IF quiet < Timeout THEN quiet + 1 ELSE quiet
    /\ UNCHANGED <<loop, inbox, outbox, ends>>

-----------------------------------------------------------------------------
Init ==
    /\ pc = "select" /\ dir = "Upstream" /\ buf = <<>> /\ errors = 0
    /\ idle = 0 /\ quiet = 0 /\ cause = "none"
    /\ counted = [d \in DataDirection |-> 0]
    /\ sent = [d \in DataDirection |-> 0]
    /\ inbox = [d \in DataDirection |-> <<>>]
    /\ outbox = [d \in DataDirection |-> <<>>]
    /\ received = [d \in DataDirection |-> <<>>]
    /\ finished = [d \in DataDirection |-> FALSE]
    /\ reset = {}

Environment ==
    \/ \E d \in DataDirection : Send(d) \/ Receive(d) \/ Finish(d)
    \/ \E e \in Ends : Reset(e)
    \/ Tick

Next == Tunnel \/ Environment

Spec == Init /\ [][Next]_vars

\* The runtime polls the task while it can go on, time passes, and both ends
\* read what has arrived and (the echo target) answer it as their kind does.
Fairness ==
    /\ WF_vars(Tunnel)
    /\ WF_vars(Tick)
    /\ \A d \in DataDirection : WF_vars(Receive(d))
    /\ EchoTarget => WF_vars(Send("Downstream"))

FairSpec == Spec /\ Fairness

-----------------------------------------------------------------------------
(* Properties.                                                              *)

\* Types; the loop only waits with fewer than MAX_ERRORS errors counted.
TypeOK ==
    /\ pc \in {"select", "write", "closed"}
    /\ dir \in DataDirection
    /\ buf \in Seq(Nat)
    /\ errors \in 0..MAX_ERRORS /\ (pc = "select" => errors < MAX_ERRORS)
    /\ idle \in 0..Timeout /\ quiet \in 0..Timeout
    /\ cause \in Causes /\ (pc = "closed" <=> cause # "none")
    /\ counted \in [DataDirection -> Nat]
    /\ sent \in [DataDirection -> Nat]
    /\ inbox \in [DataDirection -> Seq(Nat)]
    /\ outbox \in [DataDirection -> Seq(Nat)]
    /\ received \in [DataDirection -> Seq(Nat)]
    /\ finished \in [DataDirection -> BOOLEAN]
    /\ reset \subseteq Ends

\* Bytes on their way through the tunnel, and bytes that have left it.
Chunk(d)     == IF pc = "write" /\ dir = d THEN buf ELSE <<>>
Delivered(d) == Len(received[d]) + Len(outbox[d])

\* In both directions the receiver gets a prefix of what was sent: chunks are
\* written whole, in order and to the right end, also when the reads of the
\* two directions alternate (tunnel_interceptor.rs:42-102).
Relay == INSTANCE ByteRelay WITH Directions <- DataDirection

ImplementsRelay == Relay!RelaySpec

\* handle_data is told of every byte read, once, and of nothing else: the
\* byte counters are the bytes that left the tunnel and the chunk being
\* written, as long as the receiving end takes them.
CountsEveryByte ==
    \A d \in DataDirection :
        /\ counted[d] + Len(inbox[d]) = sent[d]
        /\ Sink(d) \notin reset => counted[d] = Delivered(d) + Len(Chunk(d))

\* When the tunnel ends because one end has shut down, everything that end
\* sent has been written to the other one (the opposite direction may still
\* hold bytes, which are lost).
EofDrains ==
    \A d \in DataDirection :
        cause = d /\ Sink(d) \notin reset => Delivered(d) = sent[d]

\* A failing write never ends the tunnel: each write follows a read, which
\* has just reset the error count, so that MAX_ERRORS only ever counts failed
\* reads (tunnel_interceptor.rs:51-63, 81-93).
FailedWriteNeverCloses == [][pc = "write" => pc' # "closed"]_vars

\* tunnel_interceptor.rs:105: the tunnel is closed after 300 seconds without
\* data transmission.  It holds if both ends read what has arrived, whatever
\* else they do; it fails for an end that stops reading while its own bytes
\* are not taken, because a blocked write does not look at the timer.
IdleTunnelCloses ==
    pc # "closed" /\ quiet = Timeout ~> pc = "closed" \/ quiet < Timeout
=============================================================================
