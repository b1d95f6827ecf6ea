---------------------------- MODULE PerfectLink ----------------------------
(***************************************************************************)
(* One direction of one PerfectLink (perfect_link.cpp): the messages that  *)
(* a sending process hands to its PerfectLink object, the UDP packets      *)
(* between the two processes, and the peer's PerfectLink object that acks  *)
(* them and notifies its manager.  The opposite direction uses disjoint    *)
(* fields of the same two objects.                                         *)
(*                                                                         *)
(* Threads.  Sender: any thread calling PerfectLink::Send, the send thread *)
(* (Manager::SendMessages) and the receive thread (acks).  Receiver: the   *)
(* receive thread (UDPServer::Receive -> PerfectLink::Notify), the ack     *)
(* thread (Manager::SendAcks) and the main thread that builds the link.    *)
(* One action is one critical section of one thread, with the thread-local *)
(* code around it.                                                         *)
(***************************************************************************)
EXTENDS Naturals, FiniteSets

CONSTANTS
  MaxSeq,         \* bound: how many messages are ever sent on the link
  StopAcksAfter,  \* kStopSendingAcksTimeoutSec, in ticks of std::time
  ForgetAfter,    \* kRemoveFromDelivered, in ticks of std::time
  Strong,         \* is PERFECT_LINKS_STRONG defined?
  ServerFirst     \* drivers::PerfectLinks starts the server before the links
                  \* exist (TRUE); drivers::FIFOBroadcast after (FALSE)

ASSUME LinkAssumption ==
  /\ MaxSeq \in Nat \ {0}
  /\ StopAcksAfter \in Nat \ {0}
  /\ ForgetAfter \in Nat \ {0}
  /\ StopAcksAfter <= ForgetAfter
  /\ Strong \in BOOLEAN
  /\ ServerFirst \in BOOLEAN

VARIABLES
  nSent,      \* n_messages_sent_: the next sequence number
  reserved,   \* numbers taken by a Send that has not inserted its message yet
  toSend,     \* messages_to_send_ (the set of sequence numbers in it)
  net,        \* UDP packets in flight, both ways
  boot,       \* how many steps of BootOrder the receiver's main thread did
  rpc, rseq,  \* receiver's receive thread: where it is in Notify, and for what
  apc,        \* receiver's ack thread: where it is in PerfectLink::SendAcks
  toRemove,   \* acks_to_remove, local to CleanAcks
  acksToSend, \* acks_to_send_
  present,    \* present[s]: messages_delivered_ has the key s
  age,        \* age[s]: ticks since messages_delivered_[s] was last written,
              \* at most ForgetAfter (also when it was never written)
  notified    \* history: how often the manager was notified of s (2 = more)

sendVars == <<nSent, reserved, toSend>>
ackVars  == <<apc, toRemove>>
recvVars == <<rpc, rseq>>
dlvVars  == <<present, age>>
vars == <<sendVars, net, boot, recvVars, ackVars, acksToSend, dlvVars, notified>>

Seqs == 1..MaxSeq

\* The two packet types, told apart by the first byte (Serialize and Parse).
kMSG == "MSG"
kACK == "ACK"
Packet == [type : {kMSG, kACK}, seq : Seqs]
Msg(s) == [type |-> kMSG, seq |-> s]
Ack(s) == [type |-> kACK, seq |-> s]

\* Seconds are only ever compared with the two timeouts, and StopAcksAfter <=
\* ForgetAfter: an age beyond ForgetAfter need not be told apart from it.
Older(a) == IF a < ForgetAfter THEN a + 1 ELSE a

\* Mutant of BootOrder: the link attaches to a server that already runs.
BootOrder_ServerRuns == <<"server", "attach", "subscribe", "threads">>

\* What the receiver's main thread does, in the order of its driver.
BootOrder == IF ServerFirst
             THEN <<"server", "attach", "subscribe", "threads">>
             ELSE <<"attach", "subscribe", "server", "threads">>
Booted(step) == \E i \in 1..4 : i <= boot /\ BootOrder[i] = step
-----------------------------------------------------------------------------
Init ==
  /\ nSent = 1
  /\ reserved = {}
  /\ toSend = {}
  /\ net = {}
  /\ boot = 0
  /\ rpc = "recv"
  /\ rseq = 1
  /\ apc = "pass"
  /\ toRemove = {}
  /\ acksToSend = {}
  /\ present = [s \in Seqs |-> FALSE]
  /\ age = [s \in Seqs |-> ForgetAfter]
  /\ notified = [s \in Seqs |-> 0]

\* Mutant of SendReserve: the value after the increment is used (++n).
SendReserve_PreIncrement ==
  /\ nSent < MaxSeq
  /\ nSent' = nSent + 1
  /\ reserved' = reserved \union {nSent'}
  /\ UNCHANGED <<toSend, net, boot, recvVars, ackVars, acksToSend, dlvVars, notified>>

\* PerfectLink::Send, n_messages_sent_.fetch_add(1).
SendReserve ==
  /\ nSent <= MaxSeq
  /\ nSent' = nSent + 1
  /\ reserved' = reserved \union {nSent}
  /\ UNCHANGED <<toSend, net, boot, recvVars, ackVars, acksToSend, dlvVars, notified>>

\* PerfectLink::Send, the insertion into messages_to_send_ under its mutex.
SendInsert(s) ==
  /\ s \in reserved
  /\ reserved' = reserved \ {s}
  /\ toSend' = toSend \union {s}
  /\ UNCHANGED <<nSent, net, boot, recvVars, ackVars, acksToSend, dlvVars, notified>>

\* Mutant of SendMessages: a message is sent once and not kept for retries.
SendMessages_NoRetry ==
  /\ toSend # {}
  /\ net' = net \union {Msg(s) : s \in toSend}
  /\ toSend' = {}
  /\ UNCHANGED <<nSent, reserved, boot, recvVars, ackVars, acksToSend, dlvVars, notified>>

\* PerfectLink::SendMessages: one pass of the send thread, every message that
\* is not acknowledged yet is sent (again), under the shared lock.
SendMessages ==
  /\ toSend # {}
  /\ net' = net \union {Msg(s) : s \in toSend}
  /\ UNCHANGED <<sendVars, boot, recvVars, ackVars, acksToSend, dlvVars, notified>>

\* The network drops a packet, or sendto fails and the exception is swallowed.
Lose(p) ==
  /\ p \in net
  /\ net' = net \ {p}
  /\ UNCHANGED <<sendVars, boot, recvVars, ackVars, acksToSend, dlvVars, notified>>

\* A received packet was the last copy in flight, or one of several.
Consume(p) == net' \in {net, net \ {p}}
-----------------------------------------------------------------------------
\* One step of the receiver's driver: start the server, construct the link
\* (which attaches it to the server), Manager::Add (which subscribes the
\* manager to the link), Manager::Start.
Boot ==
  /\ boot < 4
  /\ boot' = boot + 1
  /\ UNCHANGED <<sendVars, net, recvVars, ackVars, acksToSend, dlvVars, notified>>

\* Mutant of NotifyInsertAck: only the first copy of a message is acked.
NotifyInsertAck_FirstCopyOnly(s) ==
  /\ acksToSend' = IF present[s] THEN acksToSend ELSE acksToSend \union {s}
  /\ rpc' = "lookup"
  /\ rseq' = s

\* PerfectLink::Notify on a message: the first critical section, the ack is due.
NotifyInsertAck(s) ==
  /\ acksToSend' = acksToSend \union {s}
  /\ rpc' = "lookup"
  /\ rseq' = s

\* UDPServer::Receive and NotifyAll: a packet with no observer is discarded.
ReceiveMsg(s) ==
  /\ rpc = "recv"
  /\ Booted("server")
  /\ Msg(s) \in net
  /\ Consume(Msg(s))
  /\ IF Booted("attach") THEN NotifyInsertAck(s) ELSE UNCHANGED <<recvVars, acksToSend>>
  /\ UNCHANGED <<sendVars, boot, ackVars, dlvVars, notified>>

\* Notify, second critical section: is the message in messages_delivered_?
NotifyLookup ==
  /\ rpc = "lookup"
  /\ rpc' = IF present[rseq] THEN "stamp" ELSE "notify"
  /\ UNCHANGED <<sendVars, net, boot, rseq, ackVars, acksToSend, dlvVars, notified>>

\* Notify, the loop over managers_: empty until the manager has subscribed.
NotifyManagers ==
  /\ rpc = "notify"
  /\ rpc' = "stamp"
  /\ notified' = [notified EXCEPT ![rseq] = IF Booted("subscribe") /\ @ < 2 THEN @ + 1 ELSE @]
  /\ UNCHANGED <<sendVars, net, boot, rseq, ackVars, acksToSend, dlvVars>>

\* Notify, last critical section: messages_delivered_[seq] = std::time(nullptr).
NotifyStamp ==
  /\ rpc = "stamp"
  /\ rpc' = "recv"
  /\ present' = [present EXCEPT ![rseq] = TRUE]
  /\ age' = [age EXCEPT ![rseq] = 0]
  /\ UNCHANGED <<sendVars, net, boot, rseq, ackVars, acksToSend, notified>>

\* PerfectLink::Notify on an ack, in the sender's receive thread.
ReceiveAck(s) ==
  /\ Ack(s) \in net
  /\ Consume(Ack(s))
  /\ toSend' = toSend \ {s}
  /\ UNCHANGED <<nSent, reserved, boot, recvVars, ackVars, acksToSend, dlvVars, notified>>
-----------------------------------------------------------------------------
\* PerfectLink::SendAcks, one pass of the ack thread under the shared lock;
\* with no ack to send the pass returns before CleanAcks.
SendAcks ==
  /\ Booted("threads")
  /\ apc = "pass"
  /\ acksToSend # {}
  /\ net' = net \union {Ack(s) : s \in acksToSend}
  /\ apc' = "clean"
  /\ UNCHANGED <<sendVars, boot, recvVars, toRemove, acksToSend, dlvVars, notified>>

Expired(limit) == {s \in Seqs : present[s] /\ age[s] >= limit}

\* Mutant: deliveries are forgotten as soon as their acks stop.
Forgotten_WithTheAck == IF Strong THEN {} ELSE Expired(StopAcksAfter)

\* The entries that CleanAcks erases from messages_delivered_.
Forgotten == IF Strong THEN {} ELSE Expired(ForgetAfter)

\* CleanAcks, first critical section: collect the acks to stop sending and
\* forget the oldest deliveries.
CleanAcksCollect ==
  /\ apc = "clean"
  /\ apc' = "erase"
  /\ toRemove' = Expired(StopAcksAfter)
  /\ present' = [s \in Seqs |-> present[s] /\ s \notin Forgotten]
  /\ UNCHANGED <<sendVars, net, boot, recvVars, acksToSend, age, notified>>

\* Mutant of CleanAcksErase: the collected acks are not erased.
CleanAcksErase_KeepsAcks ==
  /\ apc = "erase"
  /\ apc' = "pass"
  /\ toRemove' = {}
  /\ UNCHANGED <<sendVars, net, boot, recvVars, acksToSend, dlvVars, notified>>

\* CleanAcks, second critical section: erase the collected acks.
CleanAcksErase ==
  /\ apc = "erase"
  /\ apc' = "pass"
  /\ acksToSend' = acksToSend \ toRemove
  /\ toRemove' = {}
  /\ UNCHANGED <<sendVars, net, boot, recvVars, dlvVars, notified>>

\* std::time(nullptr) advances by one second.
Tick ==
  /\ age' = [s \in Seqs |-> Older(age[s])]
  /\ UNCHANGED <<sendVars, net, boot, recvVars, ackVars, acksToSend, present, notified>>
-----------------------------------------------------------------------------
Next ==
  \/ SendReserve
  \/ \E s \in Seqs : SendInsert(s)
  \/ SendMessages
  \/ \E p \in Packet : Lose(p)
  \/ Boot
  \/ \E s \in Seqs : ReceiveMsg(s)
  \/ NotifyLookup
  \/ NotifyManagers
  \/ NotifyStamp
  \/ \E s \in Seqs : ReceiveAck(s)
  \/ SendAcks
  \/ CleanAcksCollect
  \/ CleanAcksErase
  \/ Tick

Spec == Init /\ [][Next]_vars

\* A copy arrives while the ack thread sleeps between two passes (it sleeps
\* kFinishSendingAllAcksMs after each one); the last copy in flight arrives.
ReceiveMsgAsleep(s) == ReceiveMsg(s) /\ apc = "pass"
ReceiveLastMsg(s)   == ReceiveMsg(s) /\ Msg(s) \notin net'
ReceiveLastAck(s)   == ReceiveAck(s) /\ Ack(s) \notin net'

\* Every thread keeps running, time passes, and the network is fair-lossy: a
\* packet that is sent again and again is received again and again, at times
\* unrelated to the ack thread's, and never from infinitely many copies.
Fairness ==
  /\ \A s \in Seqs : /\ WF_vars(SendInsert(s))
                     /\ SF_vars(ReceiveMsgAsleep(s))
                     /\ SF_vars(ReceiveLastMsg(s))
                     /\ SF_vars(ReceiveLastAck(s))
  /\ WF_vars(SendMessages)
  /\ WF_vars(Boot)
  /\ WF_vars(NotifyLookup)
  /\ WF_vars(NotifyManagers)
  /\ WF_vars(NotifyStamp)
  /\ WF_vars(SendAcks)
  /\ WF_vars(CleanAcksCollect)
  /\ WF_vars(CleanAcksErase)
  /\ WF_vars(Tick)

FairSpec == Spec /\ Fairness
-----------------------------------------------------------------------------
(***************************************************************************)
(* Properties                                                              *)
(***************************************************************************)
Inserted(s) == s < nSent /\ s \notin reserved

\* The receive thread has taken s up and has not passed it to the manager yet.
BeingNotified(s) == rseq = s /\ rpc \in {"lookup", "notify"}

\* Types; only numbers handed out by n_messages_sent_ are ever in a container.
TypeOK ==
  /\ nSent \in 1..(MaxSeq + 1)
  /\ reserved \subseteq 1..(nSent - 1)
  /\ toSend \subseteq 1..(nSent - 1)
  /\ net \subseteq [type : {kMSG, kACK}, seq : 1..(nSent - 1)]
  /\ boot \in 0..4
  /\ rpc \in {"recv", "lookup", "notify", "stamp"}
  /\ rseq \in Seqs
  /\ apc \in {"pass", "clean", "erase"}
  /\ toRemove \subseteq Seqs
  /\ acksToSend \subseteq 1..(nSent - 1)
  /\ present \in [Seqs -> BOOLEAN]
  /\ age \in [Seqs -> 0..ForgetAfter]
  /\ notified \in [Seqs -> 0..2]

\* PL2, no duplication: PerfectLink::Notify passes a message to the manager at
\* most once, whatever copies the network delivers and CleanAcks forgets.
NoDuplication == \A s \in Seqs : notified[s] <= 1

\* The sender stops retrying a message (the erase in Notify on an ack) only if
\* the receiver's manager has it, or its receive thread is about to hand it
\* over: no message is acknowledged and then lost.
AckedIsDelivered ==
  \A s \in Seqs : Inserted(s) /\ s \notin toSend => notified[s] >= 1 \/ BeingNotified(s)

\* What the forgetting build guarantees instead of PL2: a message reaches the
\* manager again only if no copy of it was received for ForgetAfter ticks.
RedeliveryNeedsSilence ==
  [][\A s \in Seqs : notified[s] = 1 /\ notified'[s] = 2 => age[s] >= ForgetAfter]_vars

\* The sender stops retransmitting every message: lost acks, and acks erased by
\* CleanAcks before the pass that would have sent them, are made up for.
EventuallyAcked == \A s \in Seqs : s \in toSend ~> s \notin toSend

\* The receiver stops sending acks once the sender is done.
AcksStop == <>[](acksToSend = {})

\* A user of the link sees the numbers that Send has handed out and what the
\* manager was notified of.
Link == INSTANCE ReliableLink WITH accepted <- nSent - 1, given <- notified

\* PL2 and PL3 in their step form: every step hands out the next number, passes
\* a message that was handed to Send to the manager, for the first time or, in
\* the forgetting build, again, or changes nothing that a user can see.
RefinesLink == Link!Spec

\* PL1 to PL3 at once: the two objects, their threads and the network implement
\* the link that the broadcast layers assume.  Every message handed to Send
\* reaches the manager, none that was not, and none twice in the strong build.
ImplementsLink == Link!FairSpec
=============================================================================
