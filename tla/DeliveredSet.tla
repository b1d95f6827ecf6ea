---------------------------- MODULE DeliveredSet ----------------------------
(***************************************************************************)
(* UniformReliableBroadcast::DeliveredSet: per author, the set of sequence *)
(* numbers delivered so far, kept as a bottom below which everything was   *)
(* delivered and the delivered numbers above it.                           *)
(***************************************************************************)
EXTENDS Naturals, FiniteSets

\* How many elements of S are smaller than x: the place of x in a std::set.
Rank(x, S) == Cardinality({y \in S : y < x})

\* DeliveredSet::PeerState as constructed.
NothingDelivered == [bottom |-> 1, delivered |-> {}]

\* PeerState::Contains.
Contains(peer, seq) == seq < peer.bottom \/ seq \in peer.delivered

\* The loop of PeerState::Insert: the elements consumed by walking the
\* std::set in order for as long as each one equals bottom_, starting at b.
Run(b, S) == {s \in S : \A x \in S : x <= s => x = b + Rank(x, S)}

\* Mutant of Insert: the loop runs on seq, not on the number after it.
Insert_StaleBottom(peer, seq) ==
  IF seq = peer.bottom
  THEN LET run == Run(seq, peer.delivered)
       IN  [bottom |-> seq + 1 + Cardinality(run), delivered |-> peer.delivered \ run]
  ELSE [peer EXCEPT !.delivered = @ \union {seq}]

\* Mutant of Insert: the bottom moves past a number that is still missing.
Insert_SkipsOne(peer, seq) ==
  IF seq = peer.bottom
  THEN LET run == Run(seq + 1, peer.delivered)
       IN  [bottom |-> seq + 2 + Cardinality(run), delivered |-> peer.delivered \ run]
  ELSE [peer EXCEPT !.delivered = @ \union {seq}]

\* PeerState::Insert.
Insert(peer, seq) ==
  IF seq = peer.bottom
  THEN LET run == Run(seq + 1, peer.delivered)
       IN  [bottom |-> seq + 1 + Cardinality(run), delivered |-> peer.delivered \ run]
  ELSE [peer EXCEPT !.delivered = @ \union {seq}]
=============================================================================
