-------------------------- MODULE PeerStatesProofs --------------------------
(***************************************************************************)
(* Proofs about PeerStates, for every number of messages: in whatever      *)
(* order messages arrive, and however often, DeliveredSet::PeerState and   *)
(* the FIFO layer agree with the set of numbers that arrived.              *)
(***************************************************************************)
EXTENDS PeerStates, DeliveryLemmas

\* Both structures are well-formed and stand for the set arrived.
StatesInv ==
  /\ nSent \in 1..(MaxSeq + 1)
  /\ arrived \in SUBSET (1..(nSent - 1))
  /\ PeerOK(peer)
  /\ \A x \in Nat \ {0} : Contains(peer, x) <=> x \in arrived
  /\ FifoOK(fifo)
  /\ \A x \in Nat \ {0} : Given(fifo, x) <=> x \in arrived
  /\ log = Count(fifo.next - 1)

\* Nothing has arrived at the start.
LEMMA StatesInit == Init => StatesInv
<1> SUFFICES ASSUME Init PROVE StatesInv
  OBVIOUS
<1> USE MaxSeqAssumption DEF Init
<1>1. nSent \in 1..(MaxSeq + 1) /\ arrived \in SUBSET (1..(nSent - 1))
  OBVIOUS
<1>2. PeerOK(peer) /\ \A x \in Nat \ {0} : Contains(peer, x) <=> x \in arrived
  BY FS_EmptySet DEF PeerOK, NothingDelivered, Contains
<1>3. FifoOK(fifo) /\ \A x \in Nat \ {0} : Given(fifo, x) <=> x \in arrived
  BY FS_EmptySet DEF FifoOK, NothingLogged, Given
<1>4. log = Count(fifo.next - 1)
  <2>1. 1..(fifo.next - 1) = {}
    BY DEF NothingLogged
  <2> QED
    BY <2>1 DEF Count
<1> QED
  BY <1>1, <1>2, <1>3, <1>4 DEF StatesInv

\* The FIFO layer is given a number, new or old: the half of an arrival that
\* Deliver and DeliverAgain share.
LEMMA FifoArrival ==
  ASSUME StatesInv, NEW s \in 1..MaxSeq,
         fifo' = DeliverInternal(fifo, s),
         log' = log \o Logged(fifo, s)
  PROVE  /\ FifoOK(fifo')
         /\ \A x \in Nat \ {0} : Given(fifo', x) <=> x \in arrived \union {s}
         /\ log' = Count(fifo'.next - 1)
<1>1. s \in Nat
  BY MaxSeqAssumption
<1>2. FifoOK(fifo') /\ \A x \in Nat : Given(fifo', x) <=> Given(fifo, x) \/ x = s
  BY <1>1, DeliverInternalAdds DEF StatesInv
<1>3. log' = Count(fifo'.next - 1)
  BY <1>1, LogGrows DEF StatesInv
<1> QED
  BY <1>2, <1>3 DEF StatesInv

\* Sending and every arrival keep StatesInv.
LEMMA StatesStep == StatesInv /\ [Next]_vars => StatesInv'
<1> SUFFICES ASSUME StatesInv, [Next]_vars PROVE StatesInv'
  OBVIOUS
<1>1. CASE Send
  <2>1. nSent' \in 1..(MaxSeq + 1) /\ arrived' \in SUBSET (1..(nSent' - 1))
    BY <1>1, MaxSeqAssumption DEF Send, StatesInv
  <2> QED
    BY <1>1, <2>1 DEF Send, StatesInv
<1>2. ASSUME NEW s \in 1..MaxSeq, Deliver(s) PROVE StatesInv'
  <2>1. s \in Nat /\ s < nSent /\ s >= 1
    BY <1>2, MaxSeqAssumption DEF Deliver
  <2>2. nSent' \in 1..(MaxSeq + 1) /\ arrived' \in SUBSET (1..(nSent' - 1))
    BY <1>2, <2>1, MaxSeqAssumption DEF Deliver, StatesInv
  <2>3. PeerOK(peer') /\ \A x \in Nat : Contains(peer', x) <=> Contains(peer, x) \/ x = s
    BY <1>2, <2>1, InsertAdds DEF Deliver, StatesInv
  <2>4. \A x \in Nat \ {0} : Contains(peer', x) <=> x \in arrived'
    BY <1>2, <2>3 DEF Deliver, StatesInv
  <2>5. /\ FifoOK(fifo')
        /\ \A x \in Nat \ {0} : Given(fifo', x) <=> x \in arrived'
        /\ log' = Count(fifo'.next - 1)
    BY <1>2, FifoArrival DEF Deliver
  <2> QED
    BY <2>2, <2>3, <2>4, <2>5 DEF StatesInv
<1>3. ASSUME NEW s \in 1..MaxSeq, DeliverAgain(s) PROVE StatesInv'
  <2>1. arrived \union {s} = arrived'
    BY <1>3 DEF DeliverAgain
  <2>2. /\ FifoOK(fifo')
        /\ \A x \in Nat \ {0} : Given(fifo', x) <=> x \in arrived'
        /\ log' = Count(fifo'.next - 1)
    BY <1>3, <2>1, FifoArrival DEF DeliverAgain
  <2> QED
    BY <1>3, <2>2 DEF DeliverAgain, StatesInv
<1>4. CASE UNCHANGED vars
  BY <1>4 DEF vars, StatesInv
<1> QED
  BY <1>1, <1>2, <1>3, <1>4 DEF Next

\* A number b below which everything arrived, and that did not arrive itself,
\* is one more than the length of the prefix.
LEMMA PrefixLength ==
  ASSUME MaxSeq \in Nat, arrived \in SUBSET (1..MaxSeq), NEW b \in Nat \ {0},
         b \notin arrived, \A x \in 1..(b - 1) : x \in arrived
  PROVE  Cardinality(Prefix) = b - 1
<1>1. ASSUME NEW s \in 1..MaxSeq PROVE 1..s \subseteq arrived <=> s < b
  <2>1. ASSUME s >= b PROVE b \in 1..s
    BY <2>1
  <2>2. ASSUME s < b PROVE 1..s \subseteq 1..(b - 1)
    BY <2>2
  <2> QED
    BY <2>1, <2>2
<1>2. b - 1 <= MaxSeq
  <2>1. CASE b = 1
    BY <2>1
  <2>2. CASE b # 1
    BY <2>2, b - 1 \in 1..(b - 1), b - 1 \in arrived
  <2> QED
    BY <2>1, <2>2
<1>3. Prefix = 1..(b - 1)
  BY <1>1, <1>2 DEF Prefix
<1> QED
  BY <1>3, FS_Interval

\* The structures of an author hold what arrived, and the log counts up to the
\* first number that is missing.
THEOREM StatesCorrect == Spec => []StatesInv
BY StatesInit, StatesStep, PTL DEF Spec

\* PeerState::Contains answers TRUE for exactly the numbers that were inserted,
\* in every order and with repetitions (ContainsExactly).
THEOREM ContainsExactlyHolds == Spec => []ContainsExactly
<1>1. StatesInv => ContainsExactly
  BY MaxSeqAssumption DEF StatesInv, ContainsExactly
<1> QED
  BY <1>1, StatesCorrect, PTL

\* PeerState::Insert keeps the bottom at the first missing number, and in the
\* explicit set only what is above it (Compacted).
THEOREM CompactedHolds == Spec => []Compacted
<1>1. StatesInv => Compacted
  <2> SUFFICES ASSUME StatesInv PROVE Compacted
    OBVIOUS
  <2>1. peer.bottom \in Nat \ {0} /\ peer.bottom \notin peer.delivered
        /\ \A x \in peer.delivered : x > peer.bottom
    BY DEF StatesInv, PeerOK
  <2>2. peer.bottom \notin arrived
    BY <2>1 DEF StatesInv, Contains
  <2>3. ASSUME NEW x \in 1..(peer.bottom - 1) PROVE x \in arrived
    BY <2>1 DEF StatesInv, Contains
  <2>4. arrived \in SUBSET (1..MaxSeq) /\ MaxSeq \in Nat
    BY MaxSeqAssumption DEF StatesInv
  <2>5. Cardinality(Prefix) = peer.bottom - 1
    BY <2>1, <2>2, <2>3, <2>4, PrefixLength
  <2> QED
    BY <2>1, <2>5 DEF Compacted
<1> QED
  BY <1>1, StatesCorrect, PTL

\* DeliverInternal of the FIFO classes logs the numbers up to the first missing
\* one, each once and in order (LogIsPrefix).
THEOREM LogIsPrefixHolds == Spec => []LogIsPrefix
<1>1. StatesInv => LogIsPrefix
  <2> SUFFICES ASSUME StatesInv PROVE LogIsPrefix
    OBVIOUS
  <2>1. fifo.next \in Nat \ {0} /\ fifo.next \notin fifo.pending
    BY DEF StatesInv, FifoOK
  <2>2. fifo.next \notin arrived
    BY <2>1 DEF StatesInv, Given
  <2>3. ASSUME NEW x \in 1..(fifo.next - 1) PROVE x \in arrived
    BY <2>1 DEF StatesInv, Given
  <2>4. arrived \in SUBSET (1..MaxSeq) /\ MaxSeq \in Nat
    BY MaxSeqAssumption DEF StatesInv
  <2>5. Cardinality(Prefix) = fifo.next - 1
    BY <2>1, <2>2, <2>3, <2>4, PrefixLength
  <2>6. Len(log) = fifo.next - 1 /\ \A i \in DOMAIN log : log[i] = i
    BY <2>1 DEF StatesInv, Count
  <2> QED
    BY <2>5, <2>6 DEF LogIsPrefix
<1> QED
  BY <1>1, StatesCorrect, PTL
=============================================================================
