----------------------------- MODULE TimedCache -----------------------------
(***************************************************************************)
(* What a cache with a lifetime promises to the requests that use it: a     *)
(* request gets one value, which was made for its own key, either for the   *)
(* request itself or so recently that it had not outlived Lifetime when the *)
(* request asked.  A value is named after the request it was made for.      *)
(* DnsCache and CertCache implement this specification.                     *)
(***************************************************************************)
EXTENDS Integers

CONSTANTS
    Clients,    \* the requests
    Keys,       \* what values are made for
    Nobody,     \* no value, not in Clients
    Times,      \* the readings of the clock
    Lifetime    \* how long a value may be reused

VARIABLES
    key,        \* the key of each request
    asked,      \* when it asked
    born,       \* when the value made for it was made
    got         \* the value it got

cacheVars == <<key, asked, born, got>>

CacheInit ==
    /\ key \in [Clients -> Keys]
    /\ asked \in [Clients -> Times]
    /\ born \in [Clients -> Times]
    /\ got = [c \in Clients |-> Nobody]

\* A request that waits may ask, or have its value made.
Wait(c) ==
    /\ got[c] = Nobody
    /\ \E t, b \in Times :
        /\ asked' = [asked EXCEPT ![c] = t]
        /\ born' = [born EXCEPT ![c] = b]
    /\ UNCHANGED <<key, got>>

GetOwn(c) ==
    /\ got[c] = Nobody
    /\ got' = [got EXCEPT ![c] = c]
    /\ UNCHANGED <<key, asked, born>>

\* Another request has got value m as its own, and m is still fresh.
Reuse(c, m) ==
    /\ got[c] = Nobody
    /\ got[m] = m /\ key[m] = key[c]
    /\ \E t \in Times :
        /\ t < born[m] + Lifetime
        /\ asked' = [asked EXCEPT ![c] = t]
    /\ got' = [got EXCEPT ![c] = m]
    /\ UNCHANGED <<key, born>>

CacheNext == \E c \in Clients : Wait(c) \/ GetOwn(c) \/ \E m \in Clients : Reuse(c, m)

CacheSpec == CacheInit /\ [][CacheNext]_cacheVars
=============================================================================
