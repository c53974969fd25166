-------------------------- MODULE TimedCacheProofs --------------------------
(***************************************************************************)
(* What follows from the promise of TimedCache for the requests that get a  *)
(* value.  DnsCacheProofs and CertCacheProofs, which prove that the two     *)
(* caches keep the promise, take this result over to the program.           *)
(***************************************************************************)
EXTENDS TimedCache, TLAPS

\* The value a request has got was made for its own key, by a request that has
\* got it itself: for this one, or so recently that it had not outlived
\* Lifetime when this one asked.
OwnOrFresh ==
    \A c \in Clients :
        got[c] # Nobody =>
            /\ got[c] \in Clients
            /\ key[got[c]] = key[c] /\ got[got[c]] = got[c]
            /\ got[c] = c \/ asked[c] < born[got[c]] + Lifetime

CacheTypes ==
    /\ key \in [Clients -> Keys]
    /\ asked \in [Clients -> Times]
    /\ born \in [Clients -> Times]
    /\ got \in [Clients -> Clients \cup {Nobody}]

\* The inductive invariant.
CacheInv == CacheTypes /\ OwnOrFresh

LEMMA CacheInvInit == CacheInit => CacheInv
BY DEF CacheInit, CacheInv, CacheTypes, OwnOrFresh

\* Nobody has got the value of a request that has not got it itself, so that
\* the times a value was handed out with never change again.
LEMMA CacheInvNext ==
    Nobody \notin Clients /\ CacheInv /\ [CacheNext]_cacheVars => CacheInv'
<1> SUFFICES ASSUME Nobody \notin Clients, CacheInv, [CacheNext]_cacheVars
             PROVE  CacheInv'
  OBVIOUS
<1>1. CacheTypes /\ OwnOrFresh
  BY DEF CacheInv
<1>2. ASSUME NEW c \in Clients, got[c] = Nobody
      PROVE  \A d \in Clients \ {c} : got[d] # Nobody => got[d] \in Clients \ {c}
  BY <1>1, <1>2 DEF OwnOrFresh
<1>3. ASSUME NEW c \in Clients, Wait(c)
      PROVE  CacheInv'
  <2>1. PICK t \in Times, b \in Times :
          /\ asked' = [asked EXCEPT ![c] = t]
          /\ born' = [born EXCEPT ![c] = b]
    BY <1>3 DEF Wait
  <2>2. got[c] = Nobody /\ UNCHANGED <<key, got>>
    BY <1>3 DEF Wait
  <2>3. \A d \in Clients \ {c} : asked'[d] = asked[d] /\ born'[d] = born[d]
    BY <1>1, <2>1 DEF CacheTypes
  <2>4. OwnOrFresh'
    BY <1>1, <1>2, <2>2, <2>3 DEF OwnOrFresh
  <2> QED
    BY <1>1, <2>1, <2>2, <2>4 DEF CacheInv, CacheTypes
<1>4. ASSUME NEW c \in Clients, GetOwn(c)
      PROVE  CacheInv'
  <2>1. /\ got[c] = Nobody /\ got' = [got EXCEPT ![c] = c]
        /\ UNCHANGED <<key, asked, born>>
    BY <1>4 DEF GetOwn
  <2>2. got'[c] = c /\ \A d \in Clients \ {c} : got'[d] = got[d]
    BY <1>1, <2>1 DEF CacheTypes
  <2>3. OwnOrFresh'
    BY <1>1, <1>2, <2>1, <2>2 DEF OwnOrFresh
  <2> QED
    BY <1>1, <2>1, <2>3 DEF CacheInv, CacheTypes
<1>5. ASSUME NEW c \in Clients, NEW m \in Clients, Reuse(c, m)
      PROVE  CacheInv'
  <2>1. PICK t \in Times : t < born[m] + Lifetime /\ asked' = [asked EXCEPT ![c] = t]
    BY <1>5 DEF Reuse
  <2>2. /\ got[c] = Nobody /\ got' = [got EXCEPT ![c] = m]
        /\ got[m] = m /\ key[m] = key[c] /\ m # c
        /\ UNCHANGED <<key, born>>
    BY <1>5 DEF Reuse
  <2>3. /\ got'[c] = m /\ asked'[c] = t
        /\ \A d \in Clients \ {c} : got'[d] = got[d] /\ asked'[d] = asked[d]
    BY <1>1, <2>1, <2>2 DEF CacheTypes
  <2>4. OwnOrFresh'
    BY <1>1, <1>2, <2>1, <2>2, <2>3 DEF OwnOrFresh
  <2> QED
    BY <1>1, <2>1, <2>2, <2>4 DEF CacheInv, CacheTypes
<1>6. CASE UNCHANGED cacheVars
  BY <1>1, <1>6 DEF cacheVars, CacheInv, CacheTypes, OwnOrFresh
<1> QED
  BY <1>3, <1>4, <1>5, <1>6 DEF CacheNext

\* Every value handed out is the request's own or was still fresh when the
\* request asked: what http_interceptor.rs:45-93 and
\* https_interceptor.rs:167-180 use their caches for.
THEOREM ValuesAreOwnOrFresh ==
    Nobody \notin Clients => (CacheSpec => []OwnOrFresh)
<1>1. CacheInv => OwnOrFresh
  BY DEF CacheInv
<1>2. CASE Nobody \notin Clients
  <2>1. CacheInv /\ [CacheNext]_cacheVars => CacheInv'
    BY <1>2, CacheInvNext
  <2> QED
    BY <1>1, <2>1, CacheInvInit, PTL DEF CacheSpec
<1> QED
  BY <1>2
=============================================================================
