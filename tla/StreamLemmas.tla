---------------------------- MODULE StreamLemmas ----------------------------
(***************************************************************************)
(* Lemmas about streams of numbered bytes or messages and the operators the *)
(* relays handle them with: Append, Head and Tail, SubSeq, concatenation.   *)
(* An element of a stream is written as its number.                         *)
(***************************************************************************)
EXTENDS Integers, Sequences, SequenceTheorems, TLAPS

\* The queue s holds the elements after number n, in order and without a gap.
Follows(s, n) == \A i \in 1..Len(s) : s[i] = n + i

\* An empty queue fits anywhere.
LEMMA EmptyFollows == ASSUME NEW n PROVE Follows(<<>>, n)
BY DEF Follows

\* A queue of one element.
LEMMA OneFollows ==
    ASSUME NEW n \in Nat
    PROVE  <<n + 1>> \in Seq(Nat) /\ Len(<<n + 1>>) = 1 /\ Follows(<<n + 1>>, n)
BY DEF Follows

\* Putting the next element into a queue.
LEMMA AppendFollows ==
    ASSUME NEW s \in Seq(Nat), NEW n \in Nat, Follows(s, n)
    PROVE  /\ Append(s, n + Len(s) + 1) \in Seq(Nat)
           /\ Len(Append(s, n + Len(s) + 1)) = Len(s) + 1
           /\ Follows(Append(s, n + Len(s) + 1), n)
<1> DEFINE x == n + Len(s) + 1
<1>1. x \in Nat /\ Len(s) \in Nat
  BY LenProperties
<1>2. /\ Append(s, x) \in Seq(Nat) /\ Len(Append(s, x)) = Len(s) + 1
      /\ \A i \in 1..Len(s) : Append(s, x)[i] = s[i]
      /\ Append(s, x)[Len(s) + 1] = x
  BY <1>1, AppendProperties
<1> HIDE DEF x
<1>3. Follows(Append(s, x), n)
  <2> SUFFICES ASSUME NEW i \in 1..(Len(s) + 1) PROVE Append(s, x)[i] = n + i
    BY <1>2 DEF Follows
  <2>1. CASE i = Len(s) + 1
    BY <1>1, <1>2, <2>1 DEF x
  <2>2. CASE i \in 1..Len(s)
    BY <1>2, <2>2 DEF Follows
  <2> QED
    BY <1>1, <2>1, <2>2
<1> QED
  BY <1>2, <1>3 DEF x

\* Taking the first element out of a queue.
LEMMA TailFollows ==
    ASSUME NEW s \in Seq(Nat), NEW n \in Nat, Follows(s, n), s # <<>>
    PROVE  /\ Head(s) = n + 1 /\ Head(s) \in Nat
           /\ Tail(s) \in Seq(Nat) /\ Len(Tail(s)) = Len(s) - 1 /\ Len(s) >= 1
           /\ Follows(Tail(s), n + 1)
<1>1. /\ Head(s) \in Nat /\ Tail(s) \in Seq(Nat) /\ Len(s) \in Nat
      /\ Len(Tail(s)) = Len(s) - 1
      /\ \A i \in 1..Len(Tail(s)) : Tail(s)[i] = s[i + 1]
  BY HeadTailProperties, LenProperties
<1>2. Len(s) >= 1
  BY <1>1, EmptySeq
<1>3. Head(s) = s[1] /\ s[1] = n + 1
  BY <1>1, <1>2 DEF Follows
<1>4. ASSUME NEW i \in 1..Len(Tail(s))
      PROVE  Tail(s)[i] = (n + 1) + i
  <2>1. i + 1 \in 1..Len(s)
    BY <1>1
  <2> QED
    BY <1>1, <2>1 DEF Follows
<1> QED
  BY <1>1, <1>2, <1>3, <1>4 DEF Follows

\* Splitting a queue after its first k elements.
LEMMA SplitFollows ==
    ASSUME NEW s \in Seq(Nat), NEW n \in Nat, Follows(s, n),
           NEW k \in Nat, k <= Len(s)
    PROVE  /\ SubSeq(s, 1, k) \in Seq(Nat) /\ Len(SubSeq(s, 1, k)) = k
           /\ Follows(SubSeq(s, 1, k), n)
           /\ SubSeq(s, k + 1, Len(s)) \in Seq(Nat)
           /\ Len(SubSeq(s, k + 1, Len(s))) = Len(s) - k
           /\ Follows(SubSeq(s, k + 1, Len(s)), n + k)
<1>1. Len(s) \in Nat
  BY LenProperties
<1>2. /\ SubSeq(s, 1, k) \in Seq(Nat) /\ Len(SubSeq(s, 1, k)) = k
      /\ \A i \in 1..k : SubSeq(s, 1, k)[i] = s[i]
  BY <1>1, SubSeqProperties
<1>3. /\ SubSeq(s, k + 1, Len(s)) \in Seq(Nat)
      /\ Len(SubSeq(s, k + 1, Len(s))) = Len(s) - k
      /\ \A i \in 1..(Len(s) - k) : SubSeq(s, k + 1, Len(s))[i] = s[k + i]
  BY <1>1, SubSeqProperties
<1>4. Follows(SubSeq(s, 1, k), n)
  BY <1>1, <1>2 DEF Follows
<1>5. ASSUME NEW i \in 1..(Len(s) - k)
      PROVE  SubSeq(s, k + 1, Len(s))[i] = (n + k) + i
  <2>1. k + i \in 1..Len(s)
    BY <1>1
  <2> QED
    BY <1>1, <1>3, <2>1 DEF Follows
<1> QED
  BY <1>2, <1>3, <1>4, <1>5 DEF Follows

\* Joining a queue and the one that comes after it.
LEMMA JoinFollows ==
    ASSUME NEW s \in Seq(Nat), NEW t \in Seq(Nat), NEW n \in Nat,
           Follows(s, n), Follows(t, n + Len(s))
    PROVE  /\ s \o t \in Seq(Nat) /\ Len(s \o t) = Len(s) + Len(t)
           /\ Follows(s \o t, n)
<1>1. /\ Len(s) \in Nat /\ Len(t) \in Nat
      /\ s \o t \in Seq(Nat) /\ Len(s \o t) = Len(s) + Len(t)
      /\ \A i \in 1..(Len(s) + Len(t)) :
            (s \o t)[i] = IF i <= Len(s) THEN s[i] ELSE t[i - Len(s)]
  BY ConcatProperties, LenProperties
<1>2. ASSUME NEW i \in 1..(Len(s) + Len(t))
      PROVE  (s \o t)[i] = n + i
  <2>1. CASE i <= Len(s)
    BY <1>1, <2>1 DEF Follows
  <2>2. CASE ~(i <= Len(s))
    <3>1. i - Len(s) \in 1..Len(t)
      BY <1>1, <2>2
    <3> QED
      BY <1>1, <2>2, <3>1 DEF Follows
  <2> QED
    BY <2>1, <2>2
<1> QED
  BY <1>1, <1>2 DEF Follows

-----------------------------------------------------------------------------
(* The receiving ends of a relay, whose directions are D.                   *)

\* What has been received (r) is, in each direction, a prefix of the stream of
\* which a number of elements has been sent (s).
ArePrefixes(D, r, s) ==
    /\ r \in [D -> Seq(Nat)] /\ s \in [D -> Nat]
    /\ \A d \in D : Len(r[d]) <= s[d] /\ Follows(r[d], 0)

\* Nothing is a prefix of nothing.
LEMMA EmptyPrefixes ==
    ASSUME NEW D
    PROVE  ArePrefixes(D, [d \in D |-> <<>>], [d \in D |-> 0])
<1>1. <<>> \in Seq(Nat) /\ Len(<<>>) = 0 /\ Follows(<<>>, 0)
  BY EmptySeq, EmptyFollows
<1> QED
  BY <1>1 DEF ArePrefixes

\* Sending one more element.
LEMMA SendKeepsPrefixes ==
    ASSUME NEW D, NEW r, NEW s, NEW d \in D, ArePrefixes(D, r, s)
    PROVE  ArePrefixes(D, r, [s EXCEPT ![d] = @ + 1])
<1> DEFINE after == [s EXCEPT ![d] = @ + 1]
<1>1. /\ r \in [D -> Seq(Nat)] /\ s \in [D -> Nat]
      /\ \A e \in D : Len(r[e]) <= s[e] /\ Follows(r[e], 0)
  BY DEF ArePrefixes
<1>2. after \in [D -> Nat] /\ after[d] = s[d] + 1 /\ \A e \in D \ {d} : after[e] = s[e]
  BY <1>1
<1>3. ASSUME NEW e \in D
      PROVE  Len(r[e]) <= after[e]
  <2>1. PICK n \in Nat : n = Len(r[e])
    BY <1>1, LenProperties
  <2> QED
    BY <1>1, <1>2, <2>1
<1> HIDE DEF after
<1>4. ArePrefixes(D, r, after)
  BY <1>1, <1>2, <1>3 DEF ArePrefixes
<1> QED
  BY <1>4 DEF after

\* Receiving the next element, if it has been sent.
LEMMA ReceiveKeepsPrefixes ==
    ASSUME NEW D, NEW r, NEW s, NEW d \in D, ArePrefixes(D, r, s), Len(r[d]) < s[d]
    PROVE  ArePrefixes(D, [r EXCEPT ![d] = Append(@, Len(@) + 1)], s)
<1> DEFINE after == [r EXCEPT ![d] = Append(@, Len(@) + 1)]
           n == Len(r[d])
<1>1. /\ r \in [D -> Seq(Nat)] /\ s \in [D -> Nat]
      /\ \A e \in D : Len(r[e]) <= s[e] /\ Follows(r[e], 0)
  BY DEF ArePrefixes
<1>2. r[d] \in Seq(Nat) /\ n \in Nat /\ n < s[d] /\ s[d] \in Nat
  BY <1>1, LenProperties
<1>3. /\ Append(r[d], 0 + n + 1) \in Seq(Nat)
      /\ Len(Append(r[d], 0 + n + 1)) = n + 1
      /\ Follows(Append(r[d], 0 + n + 1), 0)
  BY <1>1, <1>2, AppendFollows
<1>4. after[d] = Append(r[d], n + 1) /\ \A e \in D \ {d} : after[e] = r[e]
  BY <1>1
<1> HIDE DEF n
<1>5. 0 + n + 1 = n + 1 /\ n + 1 <= s[d]
  BY <1>2
<1>6. after[d] \in Seq(Nat) /\ Len(after[d]) <= s[d] /\ Follows(after[d], 0)
  BY <1>3, <1>4, <1>5
<1>7. after \in [D -> Seq(Nat)]
  BY <1>1, <1>4, <1>6
<1> HIDE DEF after
<1>8. ArePrefixes(D, after, s)
  BY <1>1, <1>4, <1>6, <1>7 DEF ArePrefixes
<1> QED
  BY <1>8 DEF after
=============================================================================
