------------------------- MODULE PerfectLinkProofs -------------------------
(***************************************************************************)
(* Proofs about PerfectLink, for every number of messages and every pair   *)
(* of timeouts: types, no duplication of the strong build, no loss of an   *)
(* acknowledged message when the server starts last, the silence that      *)
(* precedes every redelivery, and that the link implements ReliableLink.   *)
(***************************************************************************)
EXTENDS PerfectLink, TLAPS

\* TypeOK is inductive: the type half of a step of the link.
LEMMA TypeStep == TypeOK /\ [Next]_vars => TypeOK'
<1> SUFFICES ASSUME TypeOK, [Next]_vars PROVE TypeOK'
  OBVIOUS
<1> USE LinkAssumption DEF Seqs
<1>1. CASE SendReserve
  BY <1>1 DEF TypeOK, SendReserve, ackVars, recvVars, dlvVars
<1>2. ASSUME NEW s \in Seqs, SendInsert(s) PROVE TypeOK'
  BY <1>2 DEF TypeOK, SendInsert, ackVars, recvVars, dlvVars
<1>3. CASE SendMessages
  BY <1>3 DEF TypeOK, SendMessages, Msg, sendVars, ackVars, recvVars, dlvVars
<1>4. ASSUME NEW p \in Packet, Lose(p) PROVE TypeOK'
  BY <1>4 DEF TypeOK, Lose, sendVars, ackVars, recvVars, dlvVars
<1>5. CASE Boot
  BY <1>5 DEF TypeOK, Boot, sendVars, ackVars, recvVars, dlvVars
<1>6. ASSUME NEW s \in Seqs, ReceiveMsg(s) PROVE TypeOK'
  <2>1. s \in 1..(nSent - 1)
    BY <1>6 DEF TypeOK, ReceiveMsg, Msg
  <2> QED
    BY ZenonT(60), <1>6, <2>1 DEF TypeOK, ReceiveMsg, Consume, NotifyInsertAck,
                      sendVars, ackVars, recvVars, dlvVars
<1>7. CASE NotifyLookup
  BY <1>7 DEF TypeOK, NotifyLookup, sendVars, ackVars, dlvVars
<1>8. CASE NotifyManagers
  BY <1>8 DEF TypeOK, NotifyManagers, sendVars, ackVars, dlvVars
<1>9. CASE NotifyStamp
  BY <1>9 DEF TypeOK, NotifyStamp, sendVars, ackVars
<1>10. ASSUME NEW s \in Seqs, ReceiveAck(s) PROVE TypeOK'
  BY <1>10 DEF TypeOK, ReceiveAck, Consume, ackVars, recvVars, dlvVars
<1>11. CASE SendAcks
  BY <1>11 DEF TypeOK, SendAcks, Ack, sendVars, recvVars, dlvVars
<1>12. CASE CleanAcksCollect
  BY <1>12 DEF TypeOK, CleanAcksCollect, Expired, Forgotten, sendVars, recvVars
<1>13. CASE CleanAcksErase
  BY <1>13 DEF TypeOK, CleanAcksErase, sendVars, recvVars, dlvVars
<1>14. CASE Tick
  BY <1>14 DEF TypeOK, Tick, Older, sendVars, ackVars, recvVars
<1>15. CASE UNCHANGED vars
  BY <1>15 DEF TypeOK, vars, sendVars, ackVars, recvVars, dlvVars
<1> QED
  BY <1>1, <1>2, <1>3, <1>4, <1>5, <1>6, <1>7, <1>8, <1>9, <1>10, <1>11, <1>12,
     <1>13, <1>14, <1>15 DEF Next

\* The containers of the link hold only sequence numbers that n_messages_sent_
\* has handed out, and every thread is at a place of its code.
THEOREM TypeCorrect == Spec => []TypeOK
<1>1. Init => TypeOK
  BY LinkAssumption DEF Init, TypeOK, Seqs
<1> QED
  BY <1>1, TypeStep, PTL DEF Spec
-----------------------------------------------------------------------------
(***************************************************************************)
(* The strong build: no duplication.                                       *)
(***************************************************************************)
\* NoDuplication is not inductive: what it rests on is that a notified message
\* is in messages_delivered_ except between NotifyManagers and NotifyStamp.
StrongInv ==
  /\ NoDuplication
  /\ \A s \in Seqs : notified[s] >= 1 => present[s] \/ (rseq = s /\ rpc = "stamp")
  /\ rpc = "notify" => notified[rseq] = 0

\* In the strong build each step of the link keeps StrongInv.
LEMMA StrongStep ==
  ASSUME Strong, TypeOK, StrongInv, [Next]_vars
  PROVE  StrongInv'
<1> USE DEF TypeOK, StrongInv, NoDuplication
<1>1. ASSUME NEW s \in Seqs, ReceiveMsg(s) PROVE StrongInv'
  BY <1>1 DEF ReceiveMsg, NotifyInsertAck, recvVars, dlvVars
<1>2. CASE NotifyLookup
  BY <1>2 DEF NotifyLookup, dlvVars
<1>3. CASE NotifyManagers
  BY <1>3 DEF NotifyManagers, dlvVars
<1>4. CASE NotifyStamp
  BY <1>4 DEF NotifyStamp
<1>5. CASE CleanAcksCollect
  BY <1>5 DEF CleanAcksCollect, Forgotten, recvVars
<1>6. CASE UNCHANGED <<rpc, rseq, present, notified>>
  BY <1>6
<1> QED
  BY <1>1, <1>2, <1>3, <1>4, <1>5, <1>6
  DEF Next, vars, sendVars, ackVars, recvVars, dlvVars, SendReserve, SendInsert,
      SendMessages, Lose, Boot, ReceiveAck, SendAcks, CleanAcksErase, Tick

\* PL2 for the build with PERFECT_LINKS_STRONG: whatever copies the network
\* delivers, and however CleanAcks and Notify interleave, PerfectLink::Notify
\* passes a message to the manager at most once.
THEOREM StrongNoDuplication == Strong /\ Spec => []NoDuplication
<1>1. Init => StrongInv
  BY DEF Init, StrongInv, NoDuplication, Seqs
<1>2. Strong /\ TypeOK /\ StrongInv /\ [Next]_vars => StrongInv'
  BY StrongStep
<1>3. StrongInv => NoDuplication
  BY DEF StrongInv
<1>4. CASE Strong
  <2>1. TypeOK /\ StrongInv /\ [Next]_vars => StrongInv'
    BY <1>2, <1>4
  <2> QED
    BY <1>1, <2>1, <1>3, TypeCorrect, PTL DEF Spec
<1> QED
  BY <1>4
-----------------------------------------------------------------------------
(***************************************************************************)
(* The server starts last: an acknowledged message is not lost.            *)
(***************************************************************************)
\* Notify owes s to the manager, or the manager has it.
Handed(s) == notified[s] >= 1 \/ BeingNotified(s)

\* Every trace that a message leaves on its way to being acknowledged (an ack
\* due or in flight, an entry of messages_delivered_, the retry given up) is
\* backed by the manager; and no packet is handled before the subscription.
AckInv ==
  /\ rpc # "recv" => Booted("subscribe")
  /\ rpc = "stamp" => notified[rseq] >= 1
  /\ \A s \in Seqs :
       /\ present[s] => notified[s] >= 1
       /\ s \in acksToSend => Handed(s)
       /\ Ack(s) \in net => Handed(s)
       /\ Inserted(s) /\ s \notin toSend => Handed(s)

\* In drivers::FIFOBroadcast a running server means a subscribed manager.
LEMMA SubscribedFirst ==
  ASSUME ~ServerFirst, boot \in 0..4, Booted("server")
  PROVE  Booted("subscribe")
BY DEF Booted, BootOrder

\* With the server started last each step of the link keeps AckInv.
LEMMA AckStep ==
  ASSUME ~ServerFirst, TypeOK, AckInv, [Next]_vars
  PROVE  AckInv'
<1> USE DEF TypeOK, AckInv, Handed, BeingNotified, Inserted, Msg, Ack, kMSG, kACK, Booted
<1>1. CASE SendReserve
  BY <1>1, LinkAssumption DEF SendReserve, ackVars, recvVars, dlvVars, Seqs
<1>2. ASSUME NEW s \in Seqs, SendInsert(s) PROVE AckInv'
  BY <1>2 DEF SendInsert, ackVars, recvVars, dlvVars
<1>3. CASE SendMessages
  BY <1>3 DEF SendMessages, sendVars, ackVars, recvVars, dlvVars
<1>4. ASSUME NEW p \in Packet, Lose(p) PROVE AckInv'
  BY <1>4 DEF Lose, sendVars, ackVars, recvVars, dlvVars
<1>5. CASE Boot
  BY <1>5 DEF Boot, sendVars, ackVars, recvVars, dlvVars
<1>6. ASSUME NEW s \in Seqs, ReceiveMsg(s) PROVE AckInv'
  BY <1>6, SubscribedFirst DEF ReceiveMsg, Consume, NotifyInsertAck,
                               sendVars, ackVars, recvVars, dlvVars
<1>7. CASE NotifyLookup
  BY <1>7 DEF NotifyLookup, sendVars, ackVars, dlvVars
<1>8. CASE NotifyManagers
  BY <1>8 DEF NotifyManagers, sendVars, ackVars, dlvVars
<1>9. CASE NotifyStamp
  BY <1>9 DEF NotifyStamp, sendVars, ackVars
<1>10. ASSUME NEW s \in Seqs, ReceiveAck(s) PROVE AckInv'
  BY <1>10 DEF ReceiveAck, Consume, ackVars, recvVars, dlvVars
<1>11. CASE SendAcks
  BY <1>11 DEF SendAcks, sendVars, recvVars, dlvVars
<1>12. CASE CleanAcksCollect
  BY <1>12 DEF CleanAcksCollect, sendVars, recvVars
<1>13. CASE CleanAcksErase
  BY <1>13 DEF CleanAcksErase, sendVars, recvVars, dlvVars
<1>14. CASE Tick
  BY <1>14 DEF Tick, sendVars, ackVars, recvVars
<1>15. CASE UNCHANGED vars
  BY <1>15 DEF vars, sendVars, ackVars, recvVars, dlvVars
<1> QED
  BY <1>1, <1>2, <1>3, <1>4, <1>5, <1>6, <1>7, <1>8, <1>9, <1>10, <1>11, <1>12,
     <1>13, <1>14, <1>15 DEF Next

\* As drivers::FIFOBroadcast starts a process, no message is acknowledged and
\* then lost, although Notify makes the ack due before it looks at anything
\* else and another thread may send it at once.
THEOREM AckedNotLost == ~ServerFirst /\ Spec => []AckedIsDelivered
<1>1. Init => AckInv
  BY DEF Init, AckInv, Handed, Inserted, Seqs
<1>2. AckInv => AckedIsDelivered
  BY DEF AckInv, AckedIsDelivered, Handed
<1>3. CASE ~ServerFirst
  <2>1. TypeOK /\ AckInv /\ [Next]_vars => AckInv'
    BY <1>3, AckStep
  <2> QED
    BY <1>1, <2>1, <1>2, TypeCorrect, PTL DEF Spec
<1> QED
  BY <1>3
-----------------------------------------------------------------------------
(***************************************************************************)
(* Either build: a redelivery is preceded by silence.                      *)
(***************************************************************************)
\* A message that was notified and is not in messages_delivered_ any more has
\* not been received for ForgetAfter ticks.
SilenceInv ==
  /\ rpc = "notify" => ~present[rseq]
  /\ \A s \in Seqs :
       notified[s] >= 1 => \/ present[s]
                           \/ rseq = s /\ rpc = "stamp"
                           \/ age[s] = ForgetAfter

\* Each step of the link keeps SilenceInv, in both builds.
LEMMA SilenceStep == TypeOK /\ SilenceInv /\ [Next]_vars => SilenceInv'
<1> SUFFICES ASSUME TypeOK, SilenceInv, [Next]_vars PROVE SilenceInv'
  OBVIOUS
<1> USE DEF TypeOK, SilenceInv
<1>1. ASSUME NEW s \in Seqs, ReceiveMsg(s) PROVE SilenceInv'
  BY <1>1 DEF ReceiveMsg, NotifyInsertAck, recvVars, dlvVars
<1>2. CASE NotifyLookup
  BY <1>2 DEF NotifyLookup, dlvVars
<1>3. CASE NotifyManagers
  BY <1>3 DEF NotifyManagers, dlvVars
<1>4. CASE NotifyStamp
  BY <1>4 DEF NotifyStamp
<1>5. CASE CleanAcksCollect
  BY <1>5, LinkAssumption DEF CleanAcksCollect, Forgotten, Expired, recvVars
<1>6. CASE Tick
  BY <1>6, LinkAssumption DEF Tick, Older, recvVars
<1>7. CASE UNCHANGED <<rpc, rseq, present, age, notified>>
  BY <1>7
<1> QED
  BY <1>1, <1>2, <1>3, <1>4, <1>5, <1>6, <1>7
  DEF Next, vars, sendVars, ackVars, recvVars, dlvVars, SendReserve, SendInsert,
      SendMessages, Lose, Boot, ReceiveAck, SendAcks, CleanAcksErase

\* What the shipped build guarantees of duplicates: CleanAcks forgets only
\* deliveries so old that a redelivery follows ForgetAfter ticks in which no
\* copy of the message was received.
THEOREM RedeliveryAfterSilence == Spec => RedeliveryNeedsSilence
<1> DEFINE Silent(s) == notified[s] = 1 /\ notified'[s] = 2 => age[s] >= ForgetAfter
<1>1. Init => SilenceInv
  BY DEF Init, SilenceInv, Seqs
<1>2. TypeOK /\ SilenceInv /\ [Next]_vars => [\A s \in Seqs : Silent(s)]_vars
  <2> SUFFICES ASSUME TypeOK, SilenceInv, Next, NEW s \in Seqs PROVE Silent(s)
    OBVIOUS
  <2>1. CASE NotifyManagers
    BY <2>1, LinkAssumption DEF NotifyManagers, TypeOK, SilenceInv
  <2>2. CASE UNCHANGED notified
    BY <2>2
  <2> QED
    BY <2>1, <2>2
    DEF Next, SendReserve, SendInsert, SendMessages, Lose, Boot, ReceiveMsg,
        NotifyLookup, NotifyStamp, ReceiveAck, SendAcks, CleanAcksCollect,
        CleanAcksErase, Tick
<1> QED
  BY <1>1, <1>2, SilenceStep, TypeCorrect, PTL DEF Spec, RedeliveryNeedsSilence
-----------------------------------------------------------------------------
(***************************************************************************)
(* Either build: the link refines ReliableLink.                            *)
(***************************************************************************)
\* What Notify handles was handed to Send; in the strong build nothing that
\* Notify is about to pass on was passed on before.
HandedInv ==
  /\ rpc # "recv" => rseq < nSent
  /\ Strong => StrongInv

\* Each step of the link keeps HandedInv, in both builds.
LEMMA HandedStep == TypeOK /\ HandedInv /\ [Next]_vars => HandedInv'
<1> SUFFICES ASSUME TypeOK, HandedInv, [Next]_vars PROVE HandedInv'
  OBVIOUS
<1>1. (Strong => StrongInv)'
  BY StrongStep DEF HandedInv
<1>2. (rpc # "recv" => rseq < nSent)'
  <2> USE DEF TypeOK, HandedInv
  <2>1. CASE SendReserve
    BY <2>1, LinkAssumption DEF SendReserve, recvVars, Seqs
  <2>2. ASSUME NEW s \in Seqs, ReceiveMsg(s) PROVE rpc' # "recv" => rseq' < nSent'
    <3>1. s \in 1..(nSent - 1)
      BY <2>2 DEF ReceiveMsg, Msg
    <3> QED
      BY <2>2, <3>1 DEF ReceiveMsg, NotifyInsertAck, recvVars, sendVars
  <2>3. CASE NotifyLookup \/ NotifyManagers \/ NotifyStamp
    BY <2>3 DEF NotifyLookup, NotifyManagers, NotifyStamp, sendVars
  <2>4. CASE UNCHANGED <<rpc, rseq, nSent>>
    BY <2>4
  <2> QED
    BY <2>1, <2>2, <2>3, <2>4
    DEF Next, vars, sendVars, recvVars, SendInsert, SendMessages, Lose, Boot,
        ReceiveAck, SendAcks, CleanAcksCollect, CleanAcksErase, Tick
<1> QED
  BY <1>1, <1>2 DEF HandedInv

\* Every step of a thread, of the network or of the clock is a step of the
\* abstract link or leaves it unchanged.
LEMMA LinkStep == TypeOK /\ HandedInv /\ [Next]_vars => [Link!Next]_(Link!vars)
<1> SUFFICES ASSUME TypeOK, HandedInv, [Next]_vars PROVE [Link!Next]_(Link!vars)
  OBVIOUS
<1>1. CASE SendReserve
  <2>1. Link!Accept
    BY <1>1, LinkAssumption DEF SendReserve, TypeOK, Link!Accept
  <2> QED
    BY <2>1 DEF Link!Next
<1>2. CASE NotifyManagers
  <2>1. rseq \in Link!Seqs /\ rseq <= nSent - 1
    BY <1>2 DEF NotifyManagers, TypeOK, HandedInv, Seqs, Link!Seqs
  <2>2. UNCHANGED (nSent - 1)
    BY <1>2 DEF NotifyManagers, sendVars
  <2>3. CASE ~(Booted("subscribe") /\ notified[rseq] < 2)
    <3>1. notified' = notified
      BY <1>2, <2>3 DEF NotifyManagers, TypeOK
    <3> QED
      BY <2>2, <3>1 DEF Link!vars
  <2>4. CASE Booted("subscribe") /\ notified[rseq] < 2
    <3>1. notified' = [notified EXCEPT ![rseq] = notified[rseq] + 1]
      BY <1>2, <2>4 DEF NotifyManagers
    <3>2. CASE notified[rseq] = 0
      <4>1. Link!HandOver(rseq)
        BY <2>1, <2>2, <3>1, <3>2 DEF Link!HandOver
      <4> QED
        BY <2>1, <4>1 DEF Link!Next
    <3>3. CASE notified[rseq] # 0
      <4>1. notified[rseq] = 1
        BY <2>4, <3>3 DEF TypeOK
      <4>2. ~Strong
        BY <1>2, <3>3 DEF NotifyManagers, HandedInv, StrongInv
      <4>3. Link!HandOverAgain(rseq)
        BY <2>2, <3>1, <4>1, <4>2 DEF Link!HandOverAgain
      <4> QED
        BY <2>1, <4>3 DEF Link!Next
    <3> QED
      BY <3>2, <3>3
  <2> QED
    BY <2>3, <2>4
<1>3. CASE UNCHANGED <<nSent, notified>>
  BY <1>3 DEF Link!vars
<1> QED
  BY <1>1, <1>2, <1>3
  DEF Next, vars, sendVars, SendInsert, SendMessages, Lose, Boot, ReceiveMsg,
      NotifyLookup, NotifyStamp, ReceiveAck, SendAcks, CleanAcksCollect,
      CleanAcksErase, Tick

\* The two objects, their threads and the network implement the safety part of
\* the link that the broadcast layers assume: PerfectLink::Notify passes on only
\* what was handed to Send, and in the strong build only once.
THEOREM LinkRefinement == Spec => RefinesLink
<1>1. Init => HandedInv
  BY DEF Init, HandedInv, StrongInv, NoDuplication, Seqs
<1>2. Init => Link!Init
  BY DEF Init, Link!Init, Seqs, Link!Seqs
<1> QED
  BY <1>1, <1>2, HandedStep, LinkStep, TypeCorrect, PTL DEF Spec, RefinesLink, Link!Spec
=============================================================================
