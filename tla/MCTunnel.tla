------------------------------ MODULE MCTunnel ------------------------------
(* Traffic volumes for the runs of Tunnel. *)
EXTENDS Tunnel

TwoEach == [d \in DataDirection |-> 2]
SixEach == [d \in DataDirection |-> 6]
=============================================================================
