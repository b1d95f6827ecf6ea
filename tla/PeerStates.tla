----------------------------- MODULE PeerStates -----------------------------
(***************************************************************************)
(* One author that broadcasts, and the two structures that a process keeps *)
(* for it, under every order in which the messages arrive there.           *)
(*   - Under UniformFIFOBroadcast, DeliveredSet::PeerState is asked before *)
(*     each insertion, as DeliverPending does, and the FIFO layer receives *)
(*     what was inserted.                                                  *)
(*   - Under ReliableFIFOBroadcast every notification of the best-effort   *)
(*     broadcast goes to the FIFO layer, which alone tells repetitions.    *)
(* The structures of different authors share nothing.                      *)
(***************************************************************************)
EXTENDS DeliveredSet, FifoDelivery

CONSTANT MaxSeq  \* bound: sequence numbers of the author

ASSUME MaxSeqAssumption == MaxSeq \in Nat \ {0}

VARIABLES
  nSent,     \* n_messages_sent_ of the author
  peer,      \* DeliveredSet::PeerState
  fifo,      \* UniformFIFOBroadcast::PeerState
  log,       \* what LogDeliver wrote for the author
  arrived    \* history: the numbers that arrived

vars == <<nSent, peer, fifo, log, arrived>>

Init ==
  /\ nSent = 1
  /\ peer = NothingDelivered
  /\ fifo = NothingLogged
  /\ log = << >>
  /\ arrived = {}

\* Broadcast::Send of the author, which hands the message to every link.
Send ==
  /\ nSent <= MaxSeq
  /\ nSent' = nSent + 1
  /\ UNCHANGED <<peer, fifo, log, arrived>>

\* DeliverPending for a number with a majority: the not_delivered test, the
\* insertion and DeliverInternal.
Deliver(s) ==
  /\ s < nSent
  /\ ~Contains(peer, s)
  /\ peer' = Insert(peer, s)
  /\ fifo' = DeliverInternal(fifo, s)
  /\ log' = log \o Logged(fifo, s)
  /\ arrived' = arrived \union {s}
  /\ UNCHANGED nSent

\* BestEffortBroadcast::NotifyInternal under ReliableFIFOBroadcast has no
\* DeliveredSet: a number the link delivers again reaches DeliverInternal again.
DeliverAgain(s) ==
  /\ s \in arrived
  /\ fifo' = DeliverInternal(fifo, s)
  /\ log' = log \o Logged(fifo, s)
  /\ UNCHANGED <<nSent, peer, arrived>>

Next == Send \/ \E s \in 1..MaxSeq : Deliver(s) \/ DeliverAgain(s)

Spec == Init /\ [][Next]_vars
-----------------------------------------------------------------------------
\* The numbers below the first one that has not arrived.
Prefix == {s \in 1..MaxSeq : 1..s \subseteq arrived}

\* PeerState::Contains answers for exactly the numbers that were inserted, in
\* whatever order, however the bottom was moved.
ContainsExactly ==
  \A s \in 1..MaxSeq : Contains(peer, s) <=> s \in arrived

\* PeerState::Insert compacts fully: the bottom is the first missing number and
\* the explicit set holds nothing that the bottom covers.
Compacted ==
  /\ peer.bottom = Cardinality(Prefix) + 1
  /\ \A s \in peer.delivered : s > peer.bottom

\* FIFO order without gaps or repetitions, and nothing deliverable is held
\* back: the log is 1, 2, ... up to the first missing number.
LogIsPrefix ==
  /\ Len(log) = Cardinality(Prefix)
  /\ \A i \in DOMAIN log : log[i] = i
=============================================================================
