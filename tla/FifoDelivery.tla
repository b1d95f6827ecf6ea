---------------------------- MODULE FifoDelivery ----------------------------
(***************************************************************************)
(* The FIFO layer: DeliverInternal of UniformFIFOBroadcast and of          *)
(* ReliableFIFOBroadcast (the same algorithm, fifo_broadcast.cpp), which   *)
(* holds a delivered message back until its predecessors were logged.      *)
(***************************************************************************)
EXTENDS Naturals, Sequences, FiniteSets

\* How many elements of S are smaller than x: the place of x in a std::set.
Before(x, S) == Cardinality({y \in S : y < x})

\* The elements of a set of numbers in ascending order, as a std::set iterates.
Ascending(S) == [i \in 1..Cardinality(S) |-> CHOOSE x \in S : Before(x, S) = i - 1]

\* PeerState as constructed.
NothingLogged == [next |-> 1, pending |-> {}]

\* Mutant of Released: the loop does not stop at a gap.
Released_NoBreak(next, S) == S

\* Mutant of Released: the loop also breaks at next itself.
Released_BreaksAtNext(next, S) == {s \in S : s < next + Before(s, S)}

\* What the loop of DeliverInternal logs: it walks pending in ascending order,
\* next grows with every element, and it breaks at the first one above next.
Released(next, S) == {s \in S : s <= next + Before(s, S)}

\* Is the message dropped by the early return of DeliverInternal?
IsOld(peer, seq) == seq < peer.next

\* The numbers that DeliverInternal(seq, log = true) logs, in order.
Logged(peer, seq) ==
  IF IsOld(peer, seq) THEN << >>
  ELSE Ascending(Released(peer.next, peer.pending \union {seq}))

\* Mutant of DeliverInternal: the logged numbers stay in pending.
DeliverInternal_KeepsPending(peer, seq) ==
  IF IsOld(peer, seq) THEN peer
  ELSE LET all == peer.pending \union {seq}
       IN  [next |-> peer.next + Cardinality(Released(peer.next, all)), pending |-> all]

\* PeerState after DeliverInternal(seq, log = true).
DeliverInternal(peer, seq) ==
  IF IsOld(peer, seq) THEN peer
  ELSE LET all == peer.pending \union {seq}
           out == Released(peer.next, all)
       IN  [next |-> peer.next + Cardinality(out), pending |-> all \ out]
=============================================================================
