--------------------------- MODULE TrafficTotals ---------------------------
(***************************************************************************)
(* What the statistics promise to a reader of the totals: a request is      *)
(* counted in one go, leaves at most once, and bytes are only counted while *)
(* some request is, in one direction at a time.  TrafficStats, in which a   *)
(* handler is several atomic operations, and Proxy, in which it is one      *)
(* step, are both shown to implement this specification.                    *)
(***************************************************************************)
EXTENDS Integers

CONSTANT Directions

VARIABLES
    total,  \* requests counted since the start
    open,   \* requests counted that have not left
    bytes   \* bytes counted in each direction

totals == <<total, open, bytes>>

EnterOne ==
    /\ total' = total + 1
    /\ open' = open + 1
    /\ UNCHANGED bytes

LeaveOne ==
    /\ open > 0
    /\ open' = open - 1
    /\ UNCHANGED <<total, bytes>>

Transfer(d) ==
    /\ open > 0
    /\ bytes[d] < bytes'[d]
    /\ bytes' = [bytes EXCEPT ![d] = bytes'[d]]
    /\ UNCHANGED <<total, open>>

TotalsInit == total = 0 /\ open = 0 /\ bytes = [d \in Directions |-> 0]

TotalsNext == EnterOne \/ LeaveOne \/ \E d \in Directions : Transfer(d)

TotalsSpec == TotalsInit /\ [][TotalsNext]_totals
=============================================================================
