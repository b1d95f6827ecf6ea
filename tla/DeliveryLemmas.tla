--------------------------- MODULE DeliveryLemmas ---------------------------
(***************************************************************************)
(* What the operators of DeliveredSet and FifoDelivery do, for every state *)
(* of the two structures and every number.  The loops of Insert and of     *)
(* DeliverInternal walk a std::set for as long as its elements follow each *)
(* other: what they consume is an interval, shown by counting.             *)
(***************************************************************************)
EXTENDS Integers, Sequences, FiniteSets, DeliveredSet, FifoDelivery,
        FiniteSetTheorems, SequenceTheorems, TLAPS

\* A finite set of numbers that holds all numbers from b on up to each of its
\* elements is an interval.
LEMMA ClosedIsInterval ==
  ASSUME NEW b \in Nat, NEW R \in SUBSET Nat, IsFiniteSet(R),
         \A s \in R : s >= b /\ b..s \subseteq R
  PROVE  R = b..(b + Cardinality(R) - 1)
<1> DEFINE k == Cardinality(R)
<1>1. k \in Nat
  BY FS_CardinalityType
<1>2. ASSUME NEW s \in R PROVE s \in b..(b + k - 1)
  <2>1. s \in Nat /\ s >= b /\ b..s \in SUBSET R
    OBVIOUS
  <2>2. Cardinality(b..s) = s - b + 1
    BY <2>1, FS_Interval
  <2>3. Cardinality(b..s) <= k
    BY <2>1, FS_Subset
  <2> QED
    BY <1>1, <2>1, <2>2, <2>3
<1>3. IsFiniteSet(b..(b + k - 1)) /\ Cardinality(b..(b + k - 1)) = k
  <2>1. b \in Int /\ b + k - 1 \in Int
    BY <1>1
  <2>2. IF b > b + k - 1 THEN k = 0 ELSE (b + k - 1) - b + 1 = k
    BY <1>1
  <2> QED
    BY <2>1, <2>2, FS_Interval
<1> QED
  BY <1>2, <1>3, FS_Subset

\* The place of s among numbers that are at least b: s - b at most, and exactly
\* that if all numbers from b on are there.
LEMMA PlaceOf ==
  ASSUME NEW b \in Nat, NEW S \in SUBSET Nat, IsFiniteSet(S),
         \A x \in S : x >= b,
         NEW s \in Nat, s >= b
  PROVE  LET place == Cardinality({y \in S : y < s})
         IN  /\ place \in Nat
             /\ place <= s - b
             /\ place = s - b <=> b..(s - 1) \subseteq S
<1> DEFINE T == {y \in S : y < s}
           I == b..(s - 1)
<1>1. IsFiniteSet(I) /\ Cardinality(I) = s - b
  <2>1. b \in Int /\ s - 1 \in Int /\ (IF b > s - 1 THEN s - b = 0 ELSE (s - 1) - b + 1 = s - b)
    OBVIOUS
  <2> QED
    BY <2>1, FS_Interval
<1>2. T \in SUBSET I
  <2>1. ASSUME NEW y \in T PROVE y \in I
    BY y \in Nat, y >= b, y < s
  <2> QED
    BY <2>1
<1>3. Cardinality(T) <= s - b /\ (Cardinality(I) = Cardinality(T) => I = T) /\ IsFiniteSet(T)
  BY <1>1, <1>2, FS_Subset
<1>4. Cardinality(T) \in Nat
  BY <1>3, FS_CardinalityType
<1>5. ASSUME I \subseteq S PROVE T = I
  <2>1. ASSUME NEW y \in I PROVE y \in T
    BY <1>5, y < s
  <2> QED
    BY <1>2, <2>1
<1> QED
  BY <1>1, <1>3, <1>4, <1>5
-----------------------------------------------------------------------------
(***************************************************************************)
(* DeliveredSet                                                            *)
(***************************************************************************)
\* A PeerState of DeliveredSet: the bottom is the first missing number.
PeerOK(peer) ==
  /\ peer \in [bottom : Nat \ {0}, delivered : SUBSET Nat]
  /\ IsFiniteSet(peer.delivered)
  /\ \A x \in peer.delivered : x > peer.bottom

\* The loop of Insert consumes the numbers from b on up to the first gap.
LEMMA RunIsInterval ==
  ASSUME NEW b \in Nat, NEW S \in SUBSET Nat, IsFiniteSet(S),
         \A x \in S : x >= b
  PROVE  /\ Cardinality(Run(b, S)) \in Nat
         /\ Run(b, S) = b..(b + Cardinality(Run(b, S)) - 1)
         /\ Run(b, S) \subseteq S
         /\ b + Cardinality(Run(b, S)) \notin S
<1> DEFINE R == Run(b, S)
           k == Cardinality(R)
<1>1. R \in SUBSET S /\ R \in SUBSET Nat
  BY DEF Run
<1>2. IsFiniteSet(R) /\ k \in Nat
  BY <1>1, FS_Subset, FS_CardinalityType
<1>3. ASSUME NEW s \in S PROVE s \in R <=> b..(s - 1) \subseteq S
  <2>1. ASSUME NEW x \in S PROVE x = b + Rank(x, S) <=> b..(x - 1) \subseteq S
    <3>1. x \in Nat /\ x >= b
      OBVIOUS
    <3>2. Rank(x, S) \in Nat /\ (Rank(x, S) = x - b <=> b..(x - 1) \subseteq S)
      BY <3>1, PlaceOf DEF Rank
    <3> QED
      BY <3>1, <3>2
  <2>2. ASSUME s \in R PROVE b..(s - 1) \subseteq S
    BY <2>1, <2>2 DEF Run
  <2>3. ASSUME b..(s - 1) \subseteq S PROVE s \in R
    <3>1. ASSUME NEW x \in S, x <= s PROVE x = b + Rank(x, S)
      <4>1. b..(x - 1) \subseteq b..(s - 1)
        BY <3>1
      <4> QED
        BY <2>1, <2>3, <4>1
    <3> QED
      BY <3>1 DEF Run
  <2> QED
    BY <2>2, <2>3
<1>4. ASSUME NEW s \in R PROVE s >= b /\ b..s \subseteq R
  <2>1. s \in S /\ s \in Nat /\ s >= b /\ b..(s - 1) \subseteq S
    BY <1>1, <1>3
  <2>2. ASSUME NEW x \in b..s PROVE x \in R
    <3>1. x \in S
      <4>1. x = s \/ x \in b..(s - 1)
        BY <2>1
      <4> QED
        BY <2>1, <4>1
    <3>2. b..(x - 1) \subseteq b..(s - 1)
      BY <2>1
    <3> QED
      BY <1>3, <2>1, <3>1, <3>2
  <2> QED
    BY <2>1, <2>2
<1>5. R = b..(b + k - 1)
  BY <1>1, <1>2, <1>4, ClosedIsInterval
<1>6. b + k \notin S
  <2>1. SUFFICES ASSUME b + k \in S PROVE FALSE
    OBVIOUS
  <2>2. b..((b + k) - 1) \subseteq S
    <3> HIDE DEF R, k
    <3>1. ASSUME NEW x \in b..((b + k) - 1) PROVE x \in R
      BY <1>2, <1>5
    <3> QED
      BY <1>1, <3>1
  <2>3. b + k \in R
    BY <1>3, <2>1, <2>2
  <2> QED
    BY <1>2, <1>5, <2>3
<1> QED
  BY <1>1, <1>2, <1>5, <1>6

\* PeerState::Insert of a number that is not in the set adds this number and
\* no other, however far the bottom moves, and leaves the bottom at a gap.
LEMMA InsertAdds ==
  ASSUME NEW peer, PeerOK(peer), NEW s \in Nat, ~Contains(peer, s)
  PROVE  /\ PeerOK(Insert(peer, s))
         /\ \A x \in Nat : Contains(Insert(peer, s), x) <=> Contains(peer, x) \/ x = s
<1> DEFINE D == peer.delivered
<1>1. /\ peer.bottom \in Nat /\ peer.bottom >= 1
      /\ D \in SUBSET Nat /\ IsFiniteSet(D) /\ \A x \in D : x > peer.bottom
      /\ s >= peer.bottom /\ s \notin D
  BY DEF PeerOK, Contains
<1>2. CASE s = peer.bottom
  <2> DEFINE R == Run(s + 1, D)
             k == Cardinality(R)
             b == s + 1 + k
  <2>1. k \in Nat /\ R = (s + 1)..(s + 1 + k - 1) /\ R \subseteq D /\ s + 1 + k \notin D
    <3>1. s + 1 \in Nat /\ \A x \in D : x >= s + 1
      BY <1>1, <1>2
    <3> QED
      BY <1>1, <3>1, RunIsInterval
  <2>2. Insert(peer, s) = [bottom |-> b, delivered |-> D \ R]
    BY <1>2 DEF Insert
  <2>3. IsFiniteSet(D \ R)
    BY <1>1, FS_Difference
  <2> HIDE DEF R, k
  <2>4. ASSUME NEW x \in D \ R PROVE x > b
    <3>1. x \in Nat /\ x > s /\ x # s + 1 + k
      BY <1>1, <1>2, <2>1
    <3> QED
      BY <2>1, <3>1
  <2>5. PeerOK(Insert(peer, s))
    BY <1>1, <2>1, <2>2, <2>3, <2>4 DEF PeerOK
  <2>6. ASSUME NEW x \in Nat
        PROVE  Contains(Insert(peer, s), x) <=> Contains(peer, x) \/ x = s
    <3>1. x < b <=> x < s \/ x = s \/ x \in R
      BY <2>1
    <3>2. Contains(Insert(peer, s), x) <=> x < b \/ x \in D \ R
      BY <2>2 DEF Contains
    <3>3. Contains(peer, x) <=> x < s \/ x \in D
      BY <1>2 DEF Contains
    <3> QED
      BY <2>1, <3>1, <3>2, <3>3
  <2> QED
    BY <2>5, <2>6
<1>3. CASE s # peer.bottom
  <2>1. Insert(peer, s) = [peer EXCEPT !.delivered = D \union {s}]
    BY <1>3 DEF Insert
  <2>2. /\ Insert(peer, s).bottom = peer.bottom
        /\ Insert(peer, s).delivered = D \union {s}
        /\ Insert(peer, s) \in [bottom : Nat \ {0}, delivered : SUBSET Nat]
    BY <2>1 DEF PeerOK
  <2>3. IsFiniteSet(D \union {s})
    BY <1>1, FS_AddElement
  <2>4. PeerOK(Insert(peer, s))
    BY <1>1, <1>3, <2>2, <2>3 DEF PeerOK
  <2> QED
    BY <2>2, <2>4 DEF Contains
<1> QED
  BY <1>2, <1>3
-----------------------------------------------------------------------------
(***************************************************************************)
(* FifoDelivery                                                            *)
(***************************************************************************)
\* A PeerState of the FIFO layer: next is the first number not logged yet, and
\* what is held back is above it.
FifoOK(peer) ==
  /\ peer \in [next : Nat \ {0}, pending : SUBSET Nat]
  /\ IsFiniteSet(peer.pending)
  /\ \A x \in peer.pending : x > peer.next

\* The numbers that a FIFO layer has been given.
Given(peer, x) == x < peer.next \/ x \in peer.pending

\* The loop of DeliverInternal logs the numbers from next on up to the first
\* gap, in order.
LEMMA ReleasedIsInterval ==
  ASSUME NEW b \in Nat, NEW S \in SUBSET Nat, IsFiniteSet(S),
         \A x \in S : x >= b
  PROVE  LET k == Cardinality(Released(b, S))
         IN  /\ k \in Nat
             /\ Released(b, S) = b..(b + k - 1)
             /\ Released(b, S) \subseteq S
             /\ b + k \notin S
             /\ Ascending(Released(b, S)) = [i \in 1..k |-> b + i - 1]
<1> DEFINE R == Released(b, S)
           k == Cardinality(R)
<1>1. R \in SUBSET S /\ R \in SUBSET Nat
  BY DEF Released
<1>2. IsFiniteSet(R) /\ k \in Nat
  BY <1>1, FS_Subset, FS_CardinalityType
<1>3. ASSUME NEW s \in S PROVE s \in R <=> b..(s - 1) \subseteq S
  <2>1. s \in Nat /\ s >= b
    OBVIOUS
  <2>2. Before(s, S) \in Nat /\ Before(s, S) <= s - b
        /\ (Before(s, S) = s - b <=> b..(s - 1) \subseteq S)
    BY <2>1, PlaceOf DEF Before
  <2>3. s <= b + Before(s, S) <=> Before(s, S) = s - b
    BY <2>1, <2>2
  <2> QED
    BY <2>2, <2>3 DEF Released
<1>4. ASSUME NEW s \in R PROVE s >= b /\ b..s \subseteq R
  <2>1. s \in S /\ s \in Nat /\ s >= b /\ b..(s - 1) \subseteq S
    BY <1>1, <1>3
  <2>2. ASSUME NEW x \in b..s PROVE x \in R
    <3>1. x \in S
      <4>1. x = s \/ x \in b..(s - 1)
        BY <2>1
      <4> QED
        BY <2>1, <4>1
    <3>2. b..(x - 1) \subseteq b..(s - 1)
      BY <2>1
    <3> QED
      BY <1>3, <2>1, <3>1, <3>2
  <2> QED
    BY <2>1, <2>2
<1>5. R = b..(b + k - 1)
  BY <1>1, <1>2, <1>4, ClosedIsInterval
<1>6. b + k \notin S
  <2>1. SUFFICES ASSUME b + k \in S PROVE FALSE
    OBVIOUS
  <2>2. b..((b + k) - 1) \subseteq S
    <3> HIDE DEF R, k
    <3>1. ASSUME NEW x \in b..((b + k) - 1) PROVE x \in R
      BY <1>2, <1>5
    <3> QED
      BY <1>1, <3>1
  <2>3. b + k \in R
    BY <1>3, <2>1, <2>2
  <2> QED
    BY <1>2, <1>5, <2>3
<1>7. ASSUME NEW i \in 1..k PROVE (CHOOSE x \in R : Before(x, R) = i - 1) = b + i - 1
  <2> HIDE DEF R
  <2>1. ASSUME NEW x \in R PROVE Before(x, R) = x - b
    <3>1. x \in Nat /\ x >= b /\ b..(x - 1) \subseteq R /\ \A y \in R : y >= b
      BY <1>2, <1>5
    <3> QED
      BY <1>1, <1>2, <3>1, PlaceOf DEF Before
  <2>2. b + i - 1 \in R /\ Before(b + i - 1, R) = i - 1
    <3>1. b + i - 1 \in R
      BY <1>2, <1>5
    <3>2. (b + i - 1) - b = i - 1
      BY <1>2
    <3> QED
      BY <2>1, <3>1, <3>2
  <2>3. ASSUME NEW x \in R, Before(x, R) = i - 1 PROVE x = b + i - 1
    <3>1. x \in Nat /\ x - b = i - 1
      BY <1>1, <2>1, <2>3
    <3> QED
      BY <3>1
  <2> QED
    BY <2>2, <2>3
<1>8. Ascending(R) = [i \in 1..k |-> b + i - 1]
  <2>1. Ascending(R) = [i \in 1..k |-> CHOOSE x \in R : Before(x, R) = i - 1]
    BY DEF Ascending
  <2> HIDE DEF R, k
  <2> QED
    BY <1>7, <2>1
<1> QED
  BY <1>1, <1>2, <1>5, <1>6, <1>8

\* DeliverInternal accepts a number that it may have been given before, and
\* logs the numbers from next on up to the first one that it was not given.
LEMMA DeliverInternalAdds ==
  ASSUME NEW peer, FifoOK(peer), NEW s \in Nat
  PROVE  LET after == DeliverInternal(peer, s)
         IN  /\ FifoOK(after)
             /\ after.next >= peer.next
             /\ \A x \in Nat : Given(after, x) <=> Given(peer, x) \/ x = s
             /\ Logged(peer, s) = [i \in 1..(after.next - peer.next) |-> peer.next + i - 1]
<1> DEFINE n == peer.next
           after == DeliverInternal(peer, s)
<1>1. /\ n \in Nat /\ n >= 1
      /\ peer.pending \in SUBSET Nat /\ IsFiniteSet(peer.pending)
      /\ \A x \in peer.pending : x > n
  BY DEF FifoOK
<1>2. CASE s < n
  <2>1. after = peer /\ Logged(peer, s) = << >>
    BY <1>2 DEF DeliverInternal, Logged, IsOld
  <2>2. << >> = [i \in 1..(n - n) |-> n + i - 1]
    <3>1. 1..(n - n) = {}
      BY <1>1
    <3> QED
      BY <3>1
  <2> QED
    BY <1>1, <1>2, <2>1, <2>2 DEF Given
<1>3. CASE ~(s < n)
  <2> DEFINE all == peer.pending \union {s}
             R == Released(n, all)
             k == Cardinality(R)
  <2>1. all \in SUBSET Nat /\ IsFiniteSet(all) /\ \A x \in all : x >= n
    BY <1>1, <1>3, FS_AddElement
  <2>2. after = [next |-> n + k, pending |-> all \ R] /\ Logged(peer, s) = Ascending(R)
    BY <1>3 DEF DeliverInternal, Logged, IsOld
  <2> HIDE DEF all
  <2>3. /\ k \in Nat /\ R = n..(n + k - 1) /\ R \subseteq all /\ n + k \notin all
        /\ Ascending(R) = [i \in 1..k |-> n + i - 1]
    BY <1>1, <2>1, ReleasedIsInterval
  <2>4. IsFiniteSet(all \ R)
    BY <2>1, FS_Difference
  <2> HIDE DEF R, k
  <2>5. ASSUME NEW x \in all \ R PROVE x > n + k
    <3>1. x \in Nat /\ x >= n /\ x # n + k /\ x \notin n..(n + k - 1)
      BY <2>1, <2>3
    <3>2. n \in Nat /\ k \in Nat
      BY <1>1, <2>3
    <3> HIDE DEF n
    <3> QED
      BY <3>1, <3>2
  <2>6. FifoOK(after)
    <3>1. n + k \in Nat \ {0}
      BY <1>1, <2>3
    <3>2. all \ R \in SUBSET Nat
      BY <2>1
    <3> QED
      BY <2>2, <2>4, <2>5, <3>1, <3>2 DEF FifoOK
  <2>7. ASSUME NEW x \in Nat PROVE Given(after, x) <=> Given(peer, x) \/ x = s
    <3>1. x < n + k <=> x < n \/ x \in R
      BY <1>1, <2>3
    <3>2. Given(after, x) <=> x < n + k \/ x \in all \ R
      BY <2>2 DEF Given
    <3> QED
      BY <2>3, <3>1, <3>2 DEF Given, all
  <2>8. after.next - n = k /\ after.next >= n
    BY <1>1, <2>2, <2>3
  <2> QED
    BY <2>2, <2>3, <2>6, <2>7, <2>8
<1> QED
  BY <1>2, <1>3

\* The log 1, 2, ..., n.
Count(n) == [i \in 1..n |-> i]

\* A log of all numbers below next stays one when DeliverInternal adds to it.
LEMMA LogGrows ==
  ASSUME NEW peer, FifoOK(peer), NEW s \in Nat,
         NEW written, written = Count(peer.next - 1)
  PROVE  written \o Logged(peer, s) = Count(DeliverInternal(peer, s).next - 1)
<1> DEFINE n == peer.next
           m == DeliverInternal(peer, s).next
           more == Logged(peer, s)
<1>1. n \in Nat /\ n >= 1
  BY DEF FifoOK
<1>2. FifoOK(DeliverInternal(peer, s)) /\ m >= n /\ more = [i \in 1..(m - n) |-> n + i - 1]
  BY DeliverInternalAdds
<1>3. m \in Nat
  BY <1>2 DEF FifoOK
<1> HIDE DEF n, m, more
<1>4. written \in Seq(Nat) /\ Len(written) = n - 1 /\ \A i \in 1..(n - 1) : written[i] = i
  BY <1>1 DEF Count, n
<1>5. more \in Seq(Nat) /\ Len(more) = m - n /\ \A i \in 1..(m - n) : more[i] = n + i - 1
  BY <1>1, <1>2, <1>3
<1>6. /\ written \o more \in Seq(Nat)
      /\ Len(written \o more) = m - 1
      /\ \A i \in 1..(m - 1) : (written \o more)[i] = i
  <2>1. Len(written) + Len(more) = m - 1
    <3>1. Len(written) = n - 1 /\ Len(more) = m - n
      BY <1>4, <1>5
    <3> QED
      BY <1>1, <1>3, <3>1
  <2>2. ASSUME NEW i \in 1..(m - 1) PROVE (written \o more)[i] = i
    <3>1. (written \o more)[i] = IF i <= n - 1 THEN written[i] ELSE more[i - (n - 1)]
      BY <1>4, <1>5, <2>1, ConcatProperties
    <3> QED
      BY <1>1, <1>3, <1>4, <1>5, <3>1
  <2> QED
    BY <1>4, <1>5, <2>1, <2>2, ConcatProperties
<1>7. Count(m - 1) \in Seq(Nat) /\ Len(Count(m - 1)) = m - 1
        /\ \A i \in 1..(m - 1) : Count(m - 1)[i] = i
  BY <1>1, <1>2, <1>3 DEF Count
<1>8. written \o more = Count(m - 1)
  BY <1>6, <1>7, SeqEqual
<1> QED
  BY <1>8 DEF more, m
=============================================================================
