---------------------------- MODULE CacheClients ----------------------------
(***************************************************************************)
(* The requests that use the caches of the interceptors and the wall clock  *)
(* they read.  SystemTime is not monotonic: it may be set to any time.      *)
(***************************************************************************)
EXTENDS Integers

CONSTANTS
    Flows,      \* the requests of a behaviour
    Hosts,      \* the hosts they ask for
    Nobody,     \* no request
    MaxTime     \* bound on the readings of the clock

ASSUME ClientsAssumption ==
    /\ Nobody \notin Flows
    /\ MaxTime \in Nat

VARIABLE clock  \* SystemTime::now()

Times == 0..MaxTime

SetClock == \E t \in Times \ {clock} : clock' = t
=============================================================================
