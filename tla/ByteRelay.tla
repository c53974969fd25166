----------------------------- MODULE ByteRelay -----------------------------
(***************************************************************************)
(* What a tunnel promises to its two ends: in each direction the receiver   *)
(* gets a prefix of the bytes the sender sent, in order, none of them lost  *)
(* in between, repeated or altered.  Byte number i of a stream is written i.*)
(* Nothing is promised about how much arrives before the tunnel ends.       *)
(***************************************************************************)
EXTENDS Integers, Sequences

CONSTANT Directions

VARIABLES
    sent,       \* number of bytes sent, per direction
    received    \* the bytes received, per direction

relayVars == <<sent, received>>

RelayInit ==
    /\ sent = [d \in Directions |-> 0]
    /\ received = [d \in Directions |-> <<>>]

SendNext(d) ==
    /\ sent' = [sent EXCEPT ![d] = @ + 1]
    /\ UNCHANGED received

ReceiveNext(d) ==
    /\ Len(received[d]) < sent[d]
    /\ received' = [received EXCEPT ![d] = Append(@, Len(@) + 1)]
    /\ UNCHANGED sent

RelayNext == \E d \in Directions : SendNext(d) \/ ReceiveNext(d)

RelaySpec == RelayInit /\ [][RelayNext]_relayVars
=============================================================================
