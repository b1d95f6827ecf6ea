---------------------- MODULE BroadcastAgreementProofs ----------------------
(***************************************************************************)
(* Proofs about UniformReliableBroadcast: who keeps a message, who relays  *)
(* it, and uniform agreement.                                              *)
(***************************************************************************)
EXTENDS BroadcastProofs

\* r begins to keep message i: as its own, taken from main or from the queue, or
\* because another process relayed it.
BeginsToHold(r, i) ==
  \/ SendInternalDoes(r, i)
  \/ DeliverSendNextDoes(r, i)
  \/ NotifyAckDoes(r, i) /\ recvd[r].fresh

\* A process that keeps a message keeps it for ever, through the gap between the
\* erasure of the message from pending_for_delivery_ and its insertion in
\* delivered_.
LEMMA HoldsStep ==
  ASSUME BaseInv, DeliveryInv, AnyStep, NEW r \in Proc, NEW i \in Ids
  PROVE  /\ Holds(r, i) => Holds(r, i)'
         /\ Holds(r, i)' => Holds(r, i) \/ BeginsToHold(r, i)
<1> DEFINE Goal == /\ Holds(r, i) => Holds(r, i)'
                   /\ Holds(r, i)' => Holds(r, i) \/ BeginsToHold(r, i)
<1>1. CASE /\ delivered' = delivered /\ dlvId'[r] = dlvId[r]
           /\ pending'[r] = pending[r]
  BY <1>1 DEF Holds, DeliveredAt
<1>2. ASSUME NEW p \in Proc, NEW id \in Ids,
             \/ SendInternalDoes(p, id)
             \/ DeliverSendNextDoes(p, id)
             \/ NotifyAckDoes(p, id)
      PROVE  Goal
  <2>1. delivered' = delivered /\ dlvId' = dlvId
    BY <1>2 DEF SendInternalDoes, DeliverSendNextDoes, NotifyAckDoes
  <2>2. r # p => pending'[r] = pending[r]
    BY <1>2 DEF SendInternalDoes, DeliverSendNextDoes, NotifyAckDoes
  <2>3. \/ pending'[p] = pending[p]
        \/ pending'[p] = pending[p] \union {id} /\ BeginsToHold(p, id)
    BY <1>2 DEF SendInternalDoes, DeliverSendNextDoes, NotifyAckDoes, BeginsToHold
  <2> QED
    BY <2>1, <2>2, <2>3 DEF Holds, DeliveredAt
<1>3. ASSUME NEW p \in Proc, NEW id \in Ids, DeliverEraseDoes(p, id) PROVE Goal
  <2>1. CASE r # p
    BY <1>1, <1>3, <2>1 DEF DeliverEraseDoes
  <2>2. CASE r = p
    <3>1. delivered' = delivered /\ dlvId'[r] = id /\ pending'[r] = pending[r] \ {id}
          /\ id \in pending[r]
      BY <1>3, <2>2 DEF DeliverEraseDoes
    <3>2. dlvId[r] \notin Ids
      BY <1>3, <2>2 DEF DeliverEraseDoes, BaseInv, DlvOK
    <3> QED
      BY <3>1, <3>2 DEF Holds, DeliveredAt
  <2> QED
    BY <2>1, <2>2
<1>4. ASSUME NEW p \in Proc, NEW id \in Ids, DeliverInsertDoes(p, id) PROVE Goal
  <2>1. DeliveredAt(r, i)' <=> DeliveredAt(r, i) \/ (r = p /\ i = id)
    BY <1>4, InsertDelivers
  <2>2. /\ pending' = pending /\ dlvId[p] = id
        /\ dlvId'[r] = IF r = p THEN NoId ELSE dlvId[r]
    BY <1>4 DEF DeliverInsertDoes
  <2>3. i # NoId
    BY IdsAre
  <2> QED
    BY <2>1, <2>2, <2>3 DEF Holds
<1>5. ASSUME NEW p \in Proc, NEW q \in Proc, NEW t \in Thread, SendOnLinkDoes(p, t, q) PROVE Goal
  BY <1>1, <1>5 DEF SendOnLinkDoes
<1>6. ASSUME NEW p \in Proc, SendDoes(p) \/ SendQueueDoes(p) PROVE Goal
  BY <1>1, <1>6 DEF SendDoes, SendQueueDoes
<1>7. ASSUME NEW p \in Proc, DeliverUncountDoes(p) \/ DeliverPopDoes(p) PROVE Goal
  BY <1>1, <1>7 DEF DeliverUncountDoes, DeliverPopDoes
<1>8. ASSUME NEW p \in Proc, CrashDoes(p) PROVE Goal
  BY <1>1, <1>8 DEF CrashDoes
<1>9. ASSUME NEW p \in Proc, NEW q \in Proc, NEW id \in Ids, ReceiveDoes(p, q, id) PROVE Goal
  BY <1>1, <1>9 DEF ReceiveDoes
<1>10. CASE UNCHANGED vars
  BY <1>1, <1>10 DEF vars
<1> QED
  BY <1>2, <1>3, <1>4, <1>5, <1>6, <1>7, <1>8, <1>9, <1>10 DEF AnyStep
-----------------------------------------------------------------------------
(***************************************************************************)
(* Whoever sent a message keeps it.                                        *)
(***************************************************************************)
\* A trace of message id that only a process that keeps id leaves: it relays or
\* relayed id, or it acknowledged id, or it found id pending.
Trace(q, id) ==
  \/ \E p \in Proc : \/ id \in link[q][p]
                     \/ recvd[p].id = id /\ recvd[p].sender = q
                     \/ q \in acks[p][id]
  \/ \E t \in Thread : out[q][t].id = id
  \/ acks[q][id] # {}
  \/ recvd[q].id = id /\ ~recvd[q].fresh

KeepInv == \A q \in Proc, id \in Ids : Trace(q, id) => Holds(q, id)

\* There are no traces at the start.
LEMMA KeepInit == Init => KeepInv
<1> SUFFICES ASSUME Init, NEW q \in Proc, NEW id \in Ids PROVE ~Trace(q, id)
  BY DEF KeepInv
<1>1. id # NoId
  BY IdsAre
<1>2. \A p \in Proc : link[q][p] = {} /\ acks[p][id] = {} /\ recvd[p].id = NoId
  BY DEF Init, NotReceiving
<1>3. \A t \in Thread : out[q][t].id = NoId
  BY DEF Init, NotSending
<1> QED
  BY <1>1, <1>2, <1>3 DEF Trace

\* A step leaves no trace of a message that the process does not keep.
LEMMA KeepStep == BaseInv /\ DeliveryInv /\ KeepInv /\ [Next]_vars => KeepInv'
<1> SUFFICES ASSUME BaseInv, DeliveryInv, KeepInv, [Next]_vars,
                    NEW x \in Proc, NEW i \in Ids, Trace(x, i)'
             PROVE  Holds(x, i)'
  BY DEF KeepInv
<1>0. AnyStep
  BY Steps
<1>1. Trace(x, i) \/ Holds(x, i) => Holds(x, i)'
  BY <1>0, HoldsStep DEF KeepInv
<1>2. i # NoId
  BY IdsAre
<1>3. ASSUME NEW p \in Proc, NEW t \in Thread, NEW q \in Proc, SendOnLinkDoes(p, t, q)
      PROVE  Holds(x, i)'
  <2>1. \A s \in Proc : link'[x][s] \subseteq IF x = p THEN link[x][s] \union {out[x][t].id}
          ELSE link[x][s]
    BY <1>3 DEF SendOnLinkDoes
  <2>2. \A u \in Thread : out'[x][u].id \in {out[x][u].id, NoId}
    BY <1>3 DEF SendOnLinkDoes
  <2>3. UNCHANGED <<recvd, acks>>
    BY <1>3 DEF SendOnLinkDoes
  <2> QED
    BY <1>1, <1>2, <2>1, <2>2, <2>3 DEF Trace
<1>4. ASSUME NEW p \in Proc,
             SendDoes(p) \/ SendQueueDoes(p) \/ DeliverUncountDoes(p) \/ DeliverPopDoes(p)
      PROVE  Holds(x, i)'
  <2>1. UNCHANGED <<link, out, recvd, acks>>
    BY <1>4 DEF SendDoes, SendQueueDoes, DeliverUncountDoes, DeliverPopDoes
  <2> QED
    BY <1>1, <2>1 DEF Trace
<1>5. ASSUME NEW p \in Proc, NEW id \in Ids, SendInternalDoes(p, id) \/ DeliverSendNextDoes(p, id)
      PROVE  Holds(x, i)'
  <2>1. UNCHANGED <<link, recvd, acks>>
    BY <1>5 DEF SendInternalDoes, DeliverSendNextDoes
  <2>2. \A u \in Thread : out'[x][u].id = out[x][u].id \/ (x = p /\ out'[x][u].id = id)
    BY <1>5 DEF SendInternalDoes, DeliverSendNextDoes
  <2>3. id \in pending'[p]
    BY <1>5 DEF SendInternalDoes, DeliverSendNextDoes
  <2> QED
    BY <1>1, <2>1, <2>2, <2>3 DEF Trace, Holds
<1>6. ASSUME NEW p \in Proc, NEW q \in Proc, NEW id \in Ids, ReceiveDoes(p, q, id)
      PROVE  Holds(x, i)'
  <2>1. UNCHANGED <<out, acks>> /\ id \in link[q][p]
    BY <1>6 DEF ReceiveDoes
  <2>2. \A s \in Proc : link'[x][s] \subseteq link[x][s]
    BY <1>6 DEF ReceiveDoes
  <2>3. \A s \in Proc : \/ recvd'[s] = recvd[s]
                        \/ s = p
                              /\ recvd'[s] = [id |-> id, sender |-> q, fresh |-> id \notin pending[p]]
    BY <1>6 DEF ReceiveDoes
  <2>4. CASE \E s \in Proc : recvd'[s].id = i /\ recvd'[s].sender = x
    <3>1. PICK s \in Proc : recvd'[s].id = i /\ recvd'[s].sender = x
      BY <2>4
    <3>2. \/ recvd[s].id = i /\ recvd[s].sender = x
          \/ i = id /\ x = q
      BY <2>3, <3>1
    <3> QED
      BY <1>1, <2>1, <3>2 DEF Trace
  <2>5. CASE recvd'[x].id = i /\ ~recvd'[x].fresh
    <3>1. \/ recvd[x].id = i /\ ~recvd[x].fresh
          \/ i = id /\ x = p /\ id \in pending[p]
      <4>1. CASE recvd'[x] = recvd[x]
        BY <2>5, <4>1
      <4>2. CASE x = p /\ recvd'[x] = [id |-> id, sender |-> q, fresh |-> id \notin pending[p]]
        <5>1. recvd'[x].id = id /\ recvd'[x].fresh = (id \notin pending[p])
          BY <4>2
        <5> QED
          BY <2>5, <4>2, <5>1
      <4> QED
        BY <2>3, <4>1, <4>2
    <3> QED
      BY <1>1, <3>1 DEF Trace, Holds
  <2>6. CASE \E s \in Proc : i \in link'[x][s]
    BY <1>1, <2>2, <2>6 DEF Trace
  <2>7. CASE \/ \E s \in Proc : x \in acks'[s][i]
             \/ \E u \in Thread : out'[x][u].id = i
             \/ acks'[x][i] # {}
    BY <1>1, <2>1, <2>7 DEF Trace
  <2> QED
    BY <2>4, <2>5, <2>6, <2>7 DEF Trace
<1>7. ASSUME NEW p \in Proc, NEW id \in Ids, NotifyAckDoes(p, id) PROVE Holds(x, i)'
  <2>1. UNCHANGED link /\ recvd[p].id = id
    BY <1>7 DEF NotifyAckDoes
  <2>2. ASSUME NEW u \in Thread
        PROVE  \/ out'[x][u].id = out[x][u].id
               \/ x = p /\ out'[x][u].id = id /\ id \in pending'[p]
    <3>1. /\ out'[x][u] = IF x = p /\ u = "recv" /\ recvd[p].fresh
                          THEN [id |-> id, to |-> Peers(p)] ELSE out[x][u]
          /\ pending'[p] = IF recvd[p].fresh THEN pending[p] \union {id} ELSE pending[p]
      BY <1>7 DEF NotifyAckDoes
    <3> QED
      BY <3>1
  <2>3. recvd[p].fresh => id \in pending'[p]
    BY <1>7 DEF NotifyAckDoes
  <2>4. \A s \in Proc, k \in Ids :
          acks'[s][k] = IF s = p /\ k = id THEN acks[s][k] \union {recvd[p].sender} ELSE acks[s][k]
    BY <1>7 DEF NotifyAckDoes
  <2>5. \A s \in Proc : recvd'[s] = recvd[s] \/ recvd'[s].id = NoId
    <3>1. NotReceiving(p).id = NoId
      BY DEF NotReceiving
    <3> QED
      BY <1>7, <3>1 DEF NotifyAckDoes
  <2>6. CASE \E s \in Proc : x \in acks'[s][i]
    <3>1. PICK s \in Proc : x \in acks'[s][i]
      BY <2>6
    <3>2. x \in acks[s][i] \/ (s = p /\ i = id /\ x = recvd[p].sender)
      BY <2>4, <3>1
    <3> QED
      BY <1>1, <2>1, <3>2 DEF Trace
  <2>7. CASE acks'[x][i] # {}
    <3>1. CASE x = p /\ i = id
      BY <1>1, <2>1, <2>3, <3>1 DEF Trace, Holds
    <3>2. CASE ~(x = p /\ i = id)
      BY <1>1, <2>4, <2>7, <3>2 DEF Trace
    <3> QED
      BY <3>1, <3>2
  <2>8. CASE \E u \in Thread : out'[x][u].id = i
    BY <1>1, <2>2, <2>8 DEF Trace, Holds
  <2> QED
    BY <1>1, <1>2, <2>1, <2>5, <2>6, <2>7, <2>8 DEF Trace
<1>8. ASSUME NEW p \in Proc, NEW id \in Ids, DeliverEraseDoes(p, id) PROVE Holds(x, i)'
  <2>1. UNCHANGED <<link, out, recvd, acks>>
    BY <1>8 DEF DeliverEraseDoes
  <2> QED
    BY <1>1, <2>1 DEF Trace
<1>9. ASSUME NEW p \in Proc, NEW id \in Ids, DeliverInsertDoes(p, id) PROVE Holds(x, i)'
  <2>1. UNCHANGED <<link, out, recvd>>
    BY <1>9 DEF DeliverInsertDoes
  <2>2. \A s \in Proc, k \in Ids : acks'[s][k] \subseteq acks[s][k]
    BY <1>9 DEF DeliverInsertDoes
  <2> QED
    BY <1>1, <2>1, <2>2 DEF Trace
<1>10. ASSUME NEW p \in Proc, CrashDoes(p) PROVE Holds(x, i)'
  <2>1. \A s \in Proc, k \in Ids : acks'[s][k] \subseteq acks[s][k]
    BY <1>10 DEF CrashDoes
  <2>2. \A s \in Proc : link'[x][s] \subseteq link[x][s]
    BY <1>10 DEF CrashDoes
  <2>3. \A u \in Thread : out'[x][u].id \in {out[x][u].id, NoId}
    BY <1>10 DEF CrashDoes, NotSending
  <2>4. \A s \in Proc : recvd'[s] = recvd[s] \/ recvd'[s].id = NoId
    BY <1>10 DEF CrashDoes, NotReceiving
  <2> QED
    BY <1>1, <1>2, <2>1, <2>2, <2>3, <2>4 DEF Trace
<1>11. CASE UNCHANGED vars
  BY <1>1, <1>11 DEF vars, Trace
<1> QED
  BY <1>0, <1>3, <1>4, <1>5, <1>6, <1>7, <1>8, <1>9, <1>10, <1>11 DEF AnyStep
-----------------------------------------------------------------------------
(***************************************************************************)
(* Quorums.                                                                *)
(***************************************************************************)
Keepers(id) == {q \in Proc : Holds(q, id)}

\* A message that DeliverPending has decided to deliver is kept by a majority.
QuorumInv ==
  \A p \in Proc, id \in Ids :
    dlvId[p] = id \/ DeliveredAt(p, id) => 2 * Cardinality(Keepers(id)) > N

\* Nothing is delivered at the start.
LEMMA QuorumInit == Init => QuorumInv
<1> SUFFICES ASSUME Init, NEW p \in Proc, NEW id \in Ids
             PROVE  dlvId[p] # id /\ ~DeliveredAt(p, id)
  BY DEF QuorumInv
<1>1. dlvId[p] = NoId /\ id # NoId /\ Author(id) \in Proc /\ SeqOf(id) \in Nat \ {0}
  BY IdsAre DEF Init
<1>2. delivered[p][Author(id)] = NothingDelivered
  BY <1>1 DEF Init
<1> QED
  BY <1>1, <1>2 DEF DeliveredAt, Contains, NothingDelivered

\* The majority test of DeliverPending counts processes that keep the message.
LEMMA MajorityKeeps ==
  ASSUME BaseInv, KeepInv, NEW p \in Proc, NEW id \in Ids, Holds(p, id), MajoritySeen(p, id)
  PROVE  2 * Cardinality(Keepers(id)) > N
<1> DEFINE A == acks[p][id]
<1>1. /\ A \subseteq Proc /\ p \notin A
      /\ IsFiniteSet(Proc) /\ N \in Nat
  BY SystemAssumption, FS_CardinalityType DEF BaseInv, Types, NotToSelf, N
<1>2. A \union {p} \subseteq Keepers(id)
  BY <1>1 DEF KeepInv, Trace, Keepers
<1>3. IsFiniteSet(Keepers(id)) /\ IsFiniteSet(A) /\ Cardinality(A) \in Nat
        /\ Cardinality(Keepers(id)) \in Nat
  BY <1>1, FS_Subset, FS_CardinalityType DEF Keepers
<1>4. Cardinality(A \union {p}) = Cardinality(A) + 1
  BY <1>1, <1>3, FS_AddElement
<1>5. Cardinality(A \union {p}) <= Cardinality(Keepers(id))
  BY <1>2, <1>3, FS_Subset
<1>6. Cardinality(A) + 1 > N \div 2
  BY DEF MajoritySeen
<1> HIDE DEF A
<1> QED
  BY <1>1, <1>3, <1>4, <1>5, <1>6

\* More processes keep a message after a step than before.
LEMMA KeepersGrow ==
  ASSUME BaseInv, DeliveryInv, AnyStep, NEW id \in Ids
  PROVE  /\ Keepers(id) \subseteq Keepers(id)'
         /\ Cardinality(Keepers(id)) \in Nat /\ Cardinality(Keepers(id)') \in Nat
         /\ Cardinality(Keepers(id)) <= Cardinality(Keepers(id)')
<1>1. Keepers(id) \subseteq Keepers(id)'
  BY HoldsStep DEF Keepers
<1>2. IsFiniteSet(Proc) /\ Keepers(id) \in SUBSET Proc /\ Keepers(id)' \in SUBSET Proc
  BY SystemAssumption DEF Keepers
<1>3. IsFiniteSet(Keepers(id)) /\ IsFiniteSet(Keepers(id)')
  BY <1>2, FS_Subset
<1> QED
  BY <1>1, <1>3, FS_Subset, FS_CardinalityType

\* A step delivers only what a majority keeps.
LEMMA QuorumStep == BaseInv /\ DeliveryInv /\ KeepInv /\ QuorumInv /\ [Next]_vars => QuorumInv'
<1> SUFFICES ASSUME BaseInv, DeliveryInv, KeepInv, QuorumInv, [Next]_vars,
                    NEW r \in Proc, NEW i \in Ids, (dlvId[r] = i)' \/ DeliveredAt(r, i)'
             PROVE  2 * Cardinality(Keepers(i)') > N
  BY DEF QuorumInv
<1>0. AnyStep /\ N \in Nat
  BY Steps, SystemAssumption, FS_CardinalityType DEF N
<1>1. ASSUME 2 * Cardinality(Keepers(i)) > N PROVE 2 * Cardinality(Keepers(i)') > N
  BY <1>0, <1>1, KeepersGrow
<1>2. CASE dlvId[r] = i \/ DeliveredAt(r, i)
  BY <1>1, <1>2 DEF QuorumInv
<1>3. ASSUME NEW p \in Proc, NEW id \in Ids, DeliverEraseDoes(p, id)
      PROVE  2 * Cardinality(Keepers(i)') > N
  <2>1. /\ delivered' = delivered /\ id \in pending[p] /\ MajoritySeen(p, id)
        /\ dlvId'[r] = IF r = p THEN id ELSE dlvId[r]
    BY <1>3 DEF DeliverEraseDoes, CanDeliver
  <2>2. 2 * Cardinality(Keepers(id)) > N
    BY <2>1, MajorityKeeps DEF Holds
  <2> QED
    BY <1>1, <1>2, <2>1, <2>2 DEF DeliveredAt
<1>4. ASSUME NEW p \in Proc, NEW id \in Ids, DeliverInsertDoes(p, id)
      PROVE  2 * Cardinality(Keepers(i)') > N
  <2>1. DeliveredAt(r, i)' <=> DeliveredAt(r, i) \/ (r = p /\ i = id)
    BY <1>4, InsertDelivers
  <2>2. dlvId[p] = id /\ dlvId'[r] = IF r = p THEN NoId ELSE dlvId[r]
    BY <1>4 DEF DeliverInsertDoes
  <2> QED
    BY <1>2, <2>1, <2>2, IdsAre
<1>5. CASE UNCHANGED <<delivered, dlvId>>
  BY <1>2, <1>5 DEF DeliveredAt
<1> QED
  BY ZenonT(60), <1>0, <1>3, <1>4, <1>5
     DEF AnyStep, SendOnLinkDoes, SendDoes, SendQueueDoes, DeliverUncountDoes, DeliverPopDoes,
         CrashDoes, SendInternalDoes, NotifyAckDoes, DeliverSendNextDoes, ReceiveDoes, vars

\* What a process keeps, sends and delivers, in every state.
LEMMA AgreementInvariants == Spec => [](BaseInv /\ DeliveryInv /\ KeepInv /\ QuorumInv)
BY KeptInvariants, KeepInit, KeepStep, QuorumInit, QuorumStep, PTL DEF Spec

\* A message that any process, later crashed or not, has delivered is kept by a
\* majority of all processes, for any number of them.
THEOREM UniformQuorumHolds == Spec => []UniformQuorum
<1>1. QuorumInv => UniformQuorum
  BY DEF QuorumInv, UniformQuorum, Keepers
<1> QED
  BY <1>1, AgreementInvariants, PTL
-----------------------------------------------------------------------------
(***************************************************************************)
(* Relays.                                                                 *)
(***************************************************************************)
\* Where the relay of id by p to q is: on its way, acknowledged, or not needed
\* any more.
Relayed(p, q, id) ==
  \/ DeliveredAt(q, id)
  \/ dlvId[q] = id
  \/ p \in acks[q][id]
  \/ id \in link[p][q]
  \/ recvd[q].id = id /\ recvd[q].sender = p
  \/ StillToSend(p, q, id)

RelayInv ==
  \A p \in Proc \ crashed : \A q \in Peers(p) \ crashed : \A id \in Ids :
    Holds(p, id) => Relayed(p, q, id)

\* Nothing is kept at the start.
LEMMA RelayInit == Init => RelayInv
<1> SUFFICES ASSUME Init, NEW p \in Proc, NEW id \in Ids PROVE ~Holds(p, id)
  BY DEF RelayInv
<1>1. dlvId[p] = NoId /\ id # NoId /\ Author(id) \in Proc /\ SeqOf(id) \in Nat \ {0}
        /\ pending[p] = {}
  BY IdsAre DEF Init
<1>2. delivered[p][Author(id)] = NothingDelivered
  BY <1>1 DEF Init
<1> QED
  BY <1>1, <1>2 DEF Holds, DeliveredAt, Contains, NothingDelivered

\* A thread that enters the loop over the links was not in it.
LEMMA LoopIsFree ==
  ASSUME BaseInv, NEW p \in Proc, NEW t \in Thread, pc[p][t] # "sending", NEW id \in Ids
  PROVE  out[p][t].id # id
BY DEF BaseInv, Sending

\* A process that begins to keep a message relays it to everybody.
LEMMA BeginsToRelay ==
  ASSUME NEW x \in Proc, NEW y \in Peers(x), NEW i \in Ids, BeginsToHold(x, i)
  PROVE  StillToSend(x, y, i)'
<1>1. \E t \in Thread : out'[x][t] = [id |-> i, to |-> Peers(x)]
  BY DEF BeginsToHold, SendInternalDoes, DeliverSendNextDoes, NotifyAckDoes, Thread
<1> QED
  BY <1>1 DEF StillToSend

\* A step does not lose a relay between processes that do not crash.
LEMMA RelayKept ==
  ASSUME BaseInv, DeliveryInv, AnyStep, NEW x \in Proc, NEW y \in Peers(x), NEW i \in Ids,
         x \notin crashed', y \notin crashed', Relayed(x, y, i)
  PROVE  Relayed(x, y, i)'
<1>0. x # y /\ y \in Proc /\ i # NoId
  BY IdsAre DEF Peers
<1>1. ASSUME NEW p \in Proc, NEW t \in Thread, NEW q \in Proc, SendOnLinkDoes(p, t, q)
      PROVE  Relayed(x, y, i)'
  <2>1. UNCHANGED <<delivered, dlvId, acks, recvd>>
    BY <1>1 DEF SendOnLinkDoes
  <2>2. /\ link[x][y] \subseteq link'[x][y]
        /\ x = p /\ y = q => out[p][t].id \in link'[x][y]
    BY <1>0, <1>1 DEF SendOnLinkDoes
  <2>3. CASE StillToSend(x, y, i)
    <3>1. PICK u \in Thread : out[x][u].id = i /\ y \in out[x][u].to
      BY <2>3 DEF StillToSend
    <3>2. CASE x = p /\ y = q /\ u = t
      BY <2>2, <3>1, <3>2 DEF Relayed
    <3>3. CASE ~(x = p /\ y = q /\ u = t)
      <4>1. out'[x][u].id = i /\ y \in out'[x][u].to
        <5>1. /\ out'[x][u].id = IF x = p /\ u = t /\ out[p][t].to = {q}
                                 THEN NoId ELSE out[x][u].id
              /\ out'[x][u].to = IF x = p /\ u = t THEN out[x][u].to \ {q} ELSE out[x][u].to
          BY <1>1 DEF SendOnLinkDoes
        <5>2. x = p /\ u = t => y # q /\ out[p][t].to # {q}
          BY <3>1, <3>3
        <5> QED
          BY <3>1, <5>1, <5>2
      <4> QED
        BY <4>1 DEF Relayed, StillToSend
    <3> QED
      BY <3>2, <3>3
  <2>4. CASE ~StillToSend(x, y, i)
    BY <2>1, <2>2, <2>4 DEF Relayed, DeliveredAt
  <2> QED
    BY <2>3, <2>4
<1>2. ASSUME NEW p \in Proc,
             SendDoes(p) \/ SendQueueDoes(p) \/ DeliverUncountDoes(p) \/ DeliverPopDoes(p)
      PROVE  Relayed(x, y, i)'
  <2>1. UNCHANGED <<delivered, dlvId, acks, recvd, link, out>>
    BY <1>2 DEF SendDoes, SendQueueDoes, DeliverUncountDoes, DeliverPopDoes
  <2> QED
    BY <2>1 DEF Relayed, DeliveredAt, StillToSend
<1>3. ASSUME NEW p \in Proc, NEW id \in Ids, SendInternalDoes(p, id) \/ DeliverSendNextDoes(p, id)
      PROVE  Relayed(x, y, i)'
  <2>1. UNCHANGED <<delivered, dlvId, acks, recvd, link>>
    BY <1>3 DEF SendInternalDoes, DeliverSendNextDoes
  <2>2. \A u \in Thread : out[x][u].id = i => out'[x][u] = out[x][u]
    BY <1>3, LoopIsFree DEF SendInternalDoes, DeliverSendNextDoes
  <2> QED
    BY <2>1, <2>2 DEF Relayed, DeliveredAt, StillToSend
<1>4. ASSUME NEW p \in Proc, NEW q \in Proc, NEW id \in Ids, ReceiveDoes(p, q, id)
      PROVE  Relayed(x, y, i)'
  <2>1. UNCHANGED <<delivered, dlvId, acks, out>>
    BY <1>4 DEF ReceiveDoes
  <2>2. recvd[y].id = i => recvd'[y] = recvd[y]
    <3>1. recvd[p].id \notin Ids
      BY <1>4 DEF ReceiveDoes, BaseInv, RecvOK
    <3> QED
      BY <1>0, <1>4, <3>1 DEF ReceiveDoes
  <2>3. i \in link[x][y] => \/ i \in link'[x][y]
                            \/ DeliveredAt(y, i)
                            \/ recvd'[y].id = i /\ recvd'[y].sender = x
    BY <1>0, <1>4 DEF ReceiveDoes
  <2> QED
    BY <2>1, <2>2, <2>3 DEF Relayed, DeliveredAt, StillToSend
<1>5. ASSUME NEW p \in Proc, NEW id \in Ids, NotifyAckDoes(p, id) PROVE Relayed(x, y, i)'
  <2>1. UNCHANGED <<delivered, dlvId, link>>
    BY <1>5 DEF NotifyAckDoes
  <2>2. \A u \in Thread : out[x][u].id = i => out'[x][u] = out[x][u]
    <3>1. "recv" \in Thread /\ pc[p]["recv"] # "sending"
      BY <1>5 DEF NotifyAckDoes, Thread
    <3>2. out[p]["recv"].id # i
      BY <3>1, LoopIsFree
    <3> QED
      BY <1>5, <3>2 DEF NotifyAckDoes
  <2>3. acks[y][i] \subseteq acks'[y][i]
    BY <1>0, <1>5 DEF NotifyAckDoes
  <2>4. recvd[y].id = i /\ recvd[y].sender = x => x \in acks'[y][i] \/ recvd'[y] = recvd[y]
    <3>1. /\ y # p => recvd'[y] = recvd[y]
          /\ recvd[p].id = id /\ acks'[p][id] = acks[p][id] \union {recvd[p].sender}
      BY <1>0, <1>5 DEF NotifyAckDoes
    <3> QED
      BY <3>1
  <2> QED
    BY <2>1, <2>2, <2>3, <2>4 DEF Relayed, DeliveredAt, StillToSend
<1>6. ASSUME NEW p \in Proc, NEW id \in Ids, DeliverEraseDoes(p, id) PROVE Relayed(x, y, i)'
  <2>1. UNCHANGED <<delivered, acks, recvd, link, out>>
    BY <1>6 DEF DeliverEraseDoes
  <2>2. dlvId[y] = i => dlvId'[y] = i
    BY <1>0, <1>6 DEF DeliverEraseDoes, BaseInv, DlvOK
  <2> QED
    BY <2>1, <2>2 DEF Relayed, DeliveredAt, StillToSend
<1>7. ASSUME NEW p \in Proc, NEW id \in Ids, DeliverInsertDoes(p, id) PROVE Relayed(x, y, i)'
  <2>1. UNCHANGED <<recvd, link, out>>
    BY <1>7 DEF DeliverInsertDoes
  <2>2. DeliveredAt(y, i)' <=> DeliveredAt(y, i) \/ (y = p /\ i = id)
    BY <1>0, <1>7, InsertDelivers
  <2>3. /\ dlvId[y] = i => dlvId'[y] = i \/ (y = p /\ i = id)
        /\ acks'[y][i] = acks[y][i] \/ (y = p /\ i = id)
    BY <1>0, <1>7 DEF DeliverInsertDoes
  <2> QED
    BY <2>1, <2>2, <2>3 DEF Relayed, StillToSend
<1>8. ASSUME NEW p \in Proc, CrashDoes(p) PROVE Relayed(x, y, i)'
  <2>1. x # p /\ y # p /\ UNCHANGED <<delivered, dlvId>>
    BY <1>8 DEF CrashDoes
  <2>2. /\ link'[x][y] = link[x][y] /\ recvd'[y] = recvd[y] /\ acks'[y][i] = acks[y][i]
        /\ \A u \in Thread : out'[x][u] = out[x][u]
    BY <1>0, <1>8, <2>1 DEF CrashDoes
  <2> QED
    BY <2>1, <2>2 DEF Relayed, DeliveredAt, StillToSend
<1>9. CASE UNCHANGED vars
  BY <1>9 DEF vars, Relayed, DeliveredAt, StillToSend
<1> QED
  BY <1>1, <1>2, <1>3, <1>4, <1>5, <1>6, <1>7, <1>8, <1>9 DEF AnyStep

\* Everything that a process keeps is relayed to everybody.
LEMMA RelayStep == BaseInv /\ DeliveryInv /\ RelayInv /\ [Next]_vars => RelayInv'
<1> SUFFICES ASSUME BaseInv, DeliveryInv, RelayInv, [Next]_vars,
                    NEW x \in Proc, x \notin crashed', NEW y \in Peers(x), y \notin crashed',
                    NEW i \in Ids, Holds(x, i)'
             PROVE  Relayed(x, y, i)'
  BY DEF RelayInv, Peers
<1>1. AnyStep
  BY Steps
<1>2. x \notin crashed /\ y \notin crashed
  <2>1. crashed \subseteq crashed'
    BY <1>1, WhoChanges DEF CrashDoes
  <2> QED
    BY <2>1
<1>3. CASE Holds(x, i)
  <2>1. Relayed(x, y, i)
    BY <1>2, <1>3 DEF RelayInv
  <2> QED
    BY <1>1, <2>1, RelayKept
<1>4. CASE BeginsToHold(x, i)
  BY <1>4, BeginsToRelay DEF Relayed
<1> QED
  BY <1>1, <1>3, <1>4, HoldsStep

\* All that the agreement rests on, in every state.
LEMMA RelayInvariants == Spec => [](BaseInv /\ DeliveryInv /\ KeepInv /\ QuorumInv /\ RelayInv)
BY AgreementInvariants, RelayInit, RelayStep, PTL DEF Spec

\* A message that a process keeps reaches every peer, whatever the races between
\* the receive thread and DeliverPending, for any number of processes.
THEOREM RelayCompleteHolds == Spec => []RelayComplete
<1>1. BaseInv /\ KeepInv /\ RelayInv => RelayComplete
  <2> SUFFICES ASSUME KeepInv, RelayInv, NEW p \in Proc \ crashed, NEW q \in Peers(p) \ crashed,
                      NEW id \in Ids, Holds(p, id)
               PROVE  \/ Holds(q, id) \/ id \in link[p][q] \/ recvd[q].id = id
                      \/ StillToSend(p, q, id)
    BY DEF RelayComplete
  <2>1. Relayed(p, q, id)
    BY DEF RelayInv
  <2>2. q \in Proc /\ (acks[q][id] # {} => Holds(q, id))
    BY DEF KeepInv, Trace, Peers
  <2> QED
    BY <2>1, <2>2 DEF Relayed, Holds
<1> QED
  BY <1>1, RelayInvariants, PTL
-----------------------------------------------------------------------------
(***************************************************************************)
(* Agreement.                                                              *)
(***************************************************************************)
\* A majority holds a process that does not crash.
LEMMA CorrectInMajority ==
  ASSUME BaseInv, NEW S \in SUBSET Proc, 2 * Cardinality(S) > N
  PROVE  \E q \in S : q \notin crashed
<1> SUFFICES ASSUME S \subseteq crashed PROVE FALSE
  OBVIOUS
<1>1. /\ IsFiniteSet(Proc) /\ crashed \in SUBSET Proc /\ Cardinality(crashed) <= MaxCrashes
      /\ MaxCrashes \in Nat /\ 2 * MaxCrashes < N /\ N \in Nat
  BY SystemAssumption, FS_CardinalityType DEF BaseInv, Types, N
<1>2. IsFiniteSet(crashed) /\ Cardinality(crashed) \in Nat
  BY <1>1, FS_Subset, FS_CardinalityType
<1>3. Cardinality(S) <= Cardinality(crashed) /\ Cardinality(S) \in Nat
  BY <1>2, FS_Subset, FS_CardinalityType
<1> QED
  BY <1>1, <1>2, <1>3

\* The processes that did not crash are a majority.
LEMMA CorrectMajority ==
  ASSUME BaseInv, NEW q \in Proc \ crashed, NEW A \in SUBSET Proc, q \notin A,
         \A r \in Proc \ crashed : r # q => r \in A
  PROVE  Cardinality(A) + 1 > N \div 2
<1> DEFINE C == Proc \ crashed
<1>1. /\ IsFiniteSet(Proc) /\ crashed \in SUBSET Proc /\ Cardinality(crashed) <= MaxCrashes
      /\ MaxCrashes \in Nat /\ 2 * MaxCrashes < N /\ N \in Nat /\ N = Cardinality(Proc)
  BY SystemAssumption, FS_CardinalityType DEF BaseInv, Types, N
<1>2. /\ IsFiniteSet(crashed) /\ Cardinality(crashed) \in Nat
      /\ IsFiniteSet(A) /\ Cardinality(A) \in Nat
  BY <1>1, FS_Subset, FS_CardinalityType
<1>3. Cardinality(C) = N - Cardinality(crashed)
  <2>1. Cardinality(C) = Cardinality(Proc) - Cardinality(Proc \cap crashed)
    BY <1>1, FS_Difference
  <2>2. Proc \cap crashed = crashed
    BY <1>1
  <2> QED
    BY <1>1, <2>1, <2>2
<1>4. C \subseteq A \union {q}
  OBVIOUS
<1>5. IsFiniteSet(A \union {q}) /\ Cardinality(A \union {q}) = Cardinality(A) + 1
  BY <1>2, FS_AddElement
<1>6. Cardinality(C) <= Cardinality(A \union {q})
  BY <1>4, <1>5, FS_Subset
<1> HIDE DEF C
<1> QED
  BY <1>1, <1>2, <1>3, <1>5, <1>6

\* When nothing can happen any more, a message that a majority keeps is delivered
\* by every process that is left: each of them was sent it by one that is left,
\* keeps it, sent it to the others, and so all of them have acknowledged it.
LEMMA QuietDelivers ==
  ASSUME BaseInv, KeepInv, RelayInv, Quiet, NEW id \in Ids,
         2 * Cardinality(Keepers(id)) > N, NEW q \in Proc \ crashed
  PROVE  DeliveredAt(q, id)
<1>1. ASSUME NEW p \in Proc \ crashed
      PROVE  /\ dlvId[p] # id /\ recvd[p].id # id
             /\ \A t \in Thread : out[p][t].id # id
  <2>1. \A t \in Thread : pc[p][t] = "idle"
    BY DEF Quiet
  <2>2. pc[p]["dlv"] = "idle" /\ pc[p]["recv"] = "idle"
    BY <2>1 DEF Thread
  <2>3. dlvId[p] \notin Ids /\ recvd[p].id \notin Ids
    BY <2>2 DEF BaseInv, DlvOK, RecvOK
  <2> QED
    BY <2>1, <2>3, LoopIsFree
<1>2. ASSUME NEW p \in Proc \ crashed, NEW r \in Proc \ crashed, p # r, Holds(p, id)
      PROVE  DeliveredAt(r, id) \/ p \in acks[r][id]
  <2>1. Relayed(p, r, id)
    BY <1>2 DEF RelayInv, Peers
  <2>2. link[p][r] = {}
    BY <1>2 DEF Quiet
  <2> QED
    BY <1>1, <2>1, <2>2 DEF Relayed, StillToSend
<1>3. PICK h \in Proc \ crashed : Holds(h, id)
  BY CorrectInMajority DEF Keepers
<1>4. ASSUME NEW r \in Proc \ crashed PROVE Holds(r, id)
  <2>1. acks[r][id] # {} => Holds(r, id)
    BY DEF KeepInv, Trace
  <2> QED
    BY <1>2, <1>3, <2>1 DEF Holds
<1> SUFFICES ASSUME ~DeliveredAt(q, id) PROVE FALSE
  OBVIOUS
<1>5. id \in pending[q]
  BY <1>1, <1>4 DEF Holds
<1>6. \A r \in Proc \ crashed : r # q => r \in acks[q][id]
  BY <1>2, <1>4
<1>7. acks[q][id] \in SUBSET Proc /\ q \notin acks[q][id]
  BY DEF BaseInv, Types, NotToSelf
<1>8. MajoritySeen(q, id)
  BY <1>6, <1>7, CorrectMajority DEF MajoritySeen
<1> QED
  BY <1>5, <1>8 DEF Quiet, CanDeliver

\* Uniform agreement, for any number of processes and messages and any minority
\* of crashes: when nothing can happen any more, the processes that are left
\* have logged what any process logged.
THEOREM AgreementHolds == Spec => []AgreementWhenQuiet
<1>1. BaseInv /\ DeliveryInv /\ KeepInv /\ QuorumInv /\ RelayInv => AgreementWhenQuiet
  <2> SUFFICES ASSUME BaseInv, DeliveryInv, KeepInv, QuorumInv, RelayInv, Quiet,
                      NEW id \in Ids, NEW p \in Proc, NEW q \in Proc \ crashed, HasLogged(p, id)
               PROVE  HasLogged(q, id)
    BY DEF AgreementWhenQuiet
  <2> DEFINE a == Author(id)
             n == fifo[q][a].next
  <2>1. a \in Proc /\ SeqOf(id) \in 1..MsgCount[a] /\ MsgCount[a] \in Nat
    BY IdsAre, SystemAssumption
  <2>2. /\ fifo[p][a].next \in Nat /\ n \in Nat \ {0}
        /\ SeqOf(id) < fifo[p][a].next
        /\ \A x \in fifo[q][a].pending : x > n
        /\ \A x \in Nat \ {0} : Contains(delivered[p][a], x) <=> Given(fifo[p][a], x)
        /\ \A x \in Nat \ {0} : Contains(delivered[q][a], x) <=> Given(fifo[q][a], x)
    BY <2>1, LoggedIsDelivered DEF DeliveryInv, FifoOK
  <2>3. ASSUME NEW s \in 1..SeqOf(id) PROVE Given(fifo[q][a], s)
    <3>1. s \in 1..MsgCount[a] /\ s \in Nat \ {0} /\ s < fifo[p][a].next
      BY <2>1, <2>2
    <3>2. <<a, s>> \in Ids /\ Author(<<a, s>>) = a /\ SeqOf(<<a, s>>) = s
      BY <2>1, <3>1, IdsAre DEF Author, SeqOf
    <3>3. DeliveredAt(p, <<a, s>>)
      BY <2>2, <3>1, <3>2 DEF DeliveredAt, Given
    <3>4. 2 * Cardinality(Keepers(<<a, s>>)) > N
      BY <3>2, <3>3 DEF QuorumInv
    <3>5. DeliveredAt(q, <<a, s>>)
      BY <3>2, <3>4, QuietDelivers
    <3> QED
      BY <2>2, <3>1, <3>2, <3>5 DEF DeliveredAt
  <2>4. ~Given(fifo[q][a], n)
    BY <2>2 DEF Given
  <2>5. SeqOf(id) < n
    <3> HIDE DEF n
    <3> QED
      BY <2>1, <2>2, <2>3, <2>4
  <2> QED
    BY <2>5, LoggedIsDelivered
<1> QED
  BY <1>1, RelayInvariants, PTL
=============================================================================
