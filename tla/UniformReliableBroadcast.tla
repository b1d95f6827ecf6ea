---------------------- MODULE UniformReliableBroadcast ----------------------
(***************************************************************************)
(* UniformReliableBroadcast (uniform_reliable_broadcast.cpp) with the      *)
(* layers around it as drivers::FIFOBroadcast builds them: the main thread *)
(* that broadcasts, BestEffortBroadcast below it and the DeliverInternal   *)
(* of UniformFIFOBroadcast above it.  Each process runs three threads:     *)
(*                                                                         *)
(*   main  the Send loop of drivers::FIFOBroadcast;                        *)
(*   recv  UDPServer::Receive, down to NotifyInternal;                     *)
(*   dlv   DeliverPending.                                                 *)
(*                                                                         *)
(* One action is one critical section (or one access to an atomic) of one  *)
(* thread.  Consecutive ones are one action where no other thread can come *)
(* between them to any effect:                                             *)
(*   - a counted message becomes pending: no thread can meet it before it  *)
(*     is on a link;                                                       *)
(*   - NotifyInternal reads not_pending, then not_delivered.  In between   *)
(*     only DeliverPending can change an answer, by erasing the message    *)
(*     from the one set or inserting it in the other; whatever the two     *)
(*     answers are, they lead where both read at once lead, either at the  *)
(*     time of the first or at the time of the second;                     *)
(*   - acks_ of a message is only read once it is pending, so it becomes   *)
(*     pending in the action that inserts its first ack;                   *)
(*   - the majority and not_delivered tests of DeliverPending stay true    *)
(*     until it erases the message, as delivered_ and the erasures of      *)
(*     acks_ and pending_for_delivery_ are its own;                        *)
(*   - acks_ is not read again once the message is in delivered_, and the  *)
(*     FIFO layer's state belongs to DeliverPending.                       *)
(*                                                                         *)
(* The perfect links are what PerfectLink.tla promises of them: a message  *)
(* handed to Send stays in flight until the peer's manager is notified,    *)
(* and unless the links are strong the manager may be notified again.      *)
(***************************************************************************)
EXTENDS Integers, Sequences, FiniteSets, DeliveredSet, FifoDelivery

CONSTANTS
  Proc,          \* the processes of the HOSTS file
  MsgCount,      \* MsgCount[p]: how many messages the driver of p broadcasts
  MaxInNetwork,  \* URB_MAX_MSGS_IN_NETWORK
  MaxCrashes,    \* bound: how many processes may crash
  Strong,        \* is PERFECT_LINKS_STRONG defined?
  NodeSize,      \* how many messages a node of the queue's std::deque holds
  SlotReuse      \* may the queue get the memory of a node back that it freed?

N == Cardinality(Proc)

ASSUME SystemAssumption ==
  /\ IsFiniteSet(Proc)
  /\ N >= 2
  /\ MsgCount \in [Proc -> Nat]
  /\ MaxInNetwork \in Nat
  /\ MaxCrashes \in Nat
  /\ 2 * MaxCrashes < N
  /\ Strong \in BOOLEAN
  /\ NodeSize \in Nat \ {0}
  /\ SlotReuse \in BOOLEAN

VARIABLES
  crashed,    \* the processes that stopped
  nSent,      \* n_messages_sent_: the next sequence number
  nOwn,       \* n_own_pending_for_delivery_
  queue,      \* own_pending_for_broadcast_ (sequence numbers)
  pending,    \* pending_for_delivery_
  acks,       \* acks_: per message, the peers it was received from
  delivered,  \* delivered_: per author, a DeliveredSet::PeerState
  fifo,       \* peer_state_ of UniformFIFOBroadcast
  log,        \* per author, what LogDeliver wrote
  link,       \* link[p][q]: messages the link from p to q has yet to deliver
  pc,         \* pc[p][t]: where thread t of p is
  out,        \* out[p][t]: the SendInternal loop of t, message and links left
  mainSeq,    \* the message that main is sending
  recvd,      \* the message recv handles, whom from, and not_pending
  dlvId,      \* the message DeliverPending is delivering
  popped,     \* the own message DeliverPending took from the queue
  place,      \* the place of the last message pushed to the queue in its node
  reuse       \* the how-many-th push from now will construct its message where
              \* the popped one was; 0 if none will

deque == <<place, reuse>>
vars == <<crashed, nSent, nOwn, queue, pending, acks, delivered, fifo, log, link,
          pc, out, mainSeq, recvd, dlvId, popped, deque>>

\* Broadcast::Message::Id, of the messages that are ever broadcast.
Ids == UNION {{p} \X (1..MsgCount[p]) : p \in Proc}
Author(id) == id[1]
SeqOf(id) == id[2]
NoId == << >>

Thread == {"main", "recv", "dlv"}
Peers(p) == Proc \ {p}

\* n_own_pending_delivery_ideal_, set by Add for the number of links added.
Ideal == LET share == MaxInNetwork \div (N * N) IN IF share < 1 THEN 1 ELSE share

DeliveredAt(p, id) == Contains(delivered[p][Author(id)], SeqOf(id))

\* Thread-local variables of a thread that is not using them.
NotSending == [id |-> NoId, to |-> {}]
NotReceiving(p) == [id |-> NoId, sender |-> p, fresh |-> FALSE]

Goto(p, t, label) == pc' = [pc EXCEPT ![p][t] = label]
-----------------------------------------------------------------------------
Init ==
  /\ crashed = {}
  /\ nSent = [p \in Proc |-> 1]
  /\ nOwn = [p \in Proc |-> 0]
  /\ queue = [p \in Proc |-> << >>]
  /\ pending = [p \in Proc |-> {}]
  /\ acks = [p \in Proc |-> [id \in Ids |-> {}]]
  /\ delivered = [p \in Proc |-> [a \in Proc |-> NothingDelivered]]
  /\ fifo = [p \in Proc |-> [a \in Proc |-> NothingLogged]]
  /\ log = [p \in Proc |-> [a \in Proc |-> << >>]]
  /\ link = [p \in Proc |-> [q \in Proc |-> {}]]
  /\ pc = [p \in Proc |-> [t \in Thread |-> "idle"]]
  /\ out = [p \in Proc |-> [t \in Thread |-> NotSending]]
  /\ mainSeq = [p \in Proc |-> 0]
  /\ recvd = [p \in Proc |-> NotReceiving(p)]
  /\ dlvId = [p \in Proc |-> NoId]
  /\ popped = [p \in Proc |-> 0]
  /\ place = [p \in Proc |-> 0]
  /\ reuse = [p \in Proc |-> 0]
-----------------------------------------------------------------------------
(***************************************************************************)
(* BestEffortBroadcast::SendInternal, called by all three threads.         *)
(***************************************************************************)
\* The thread enters the loop over the links with message id.
StartSending(p, t, id) == out' = [out EXCEPT ![p][t] = [id |-> id, to |-> Peers(p)]]

\* Where each thread goes on after the loop.
AfterSending(t) == IF t = "dlv" THEN "insert" ELSE "idle"

\* One iteration: pl->Send on the link to q.
SendOnLink(p, t, q) ==
  /\ p \notin crashed
  /\ pc[p][t] = "sending"
  /\ q \in out[p][t].to
  /\ link' = [link EXCEPT ![p][q] = @ \union {out[p][t].id}]
  /\ IF out[p][t].to = {q}
     THEN /\ out' = [out EXCEPT ![p][t] = NotSending]
          /\ Goto(p, t, AfterSending(t))
     ELSE /\ out' = [out EXCEPT ![p][t].to = @ \ {q}]
          /\ UNCHANGED pc
  /\ UNCHANGED <<crashed, nSent, nOwn, queue, pending, acks, delivered, fifo, log,
                 mainSeq, recvd, dlvId, popped, deque>>
-----------------------------------------------------------------------------
(***************************************************************************)
(* main: UniformReliableBroadcast::Send                                    *)
(***************************************************************************)
\* Mutant of Send: the window is not tested.
Send_NoWindow(p) ==
  /\ p \notin crashed
  /\ pc[p]["main"] = "idle"
  /\ nSent[p] <= MsgCount[p]
  /\ nSent' = [nSent EXCEPT ![p] = @ + 1]
  /\ mainSeq' = [mainSeq EXCEPT ![p] = nSent[p]]
  /\ Goto(p, "main", "count")
  /\ UNCHANGED <<crashed, nOwn, queue, pending, acks, delivered, fifo, log, link,
                 out, recvd, dlvId, popped, deque>>

\* The number is taken and logged, and the window is tested.
Send(p) ==
  /\ p \notin crashed
  /\ pc[p]["main"] = "idle"
  /\ nSent[p] <= MsgCount[p]
  /\ nSent' = [nSent EXCEPT ![p] = @ + 1]
  /\ mainSeq' = [mainSeq EXCEPT ![p] = nSent[p]]
  /\ Goto(p, "main", IF nOwn[p] >= Ideal THEN "push" ELSE "count")
  /\ UNCHANGED <<crashed, nOwn, queue, pending, acks, delivered, fifo, log, link,
                 out, recvd, dlvId, popped, deque>>

\* DeliverPending keeps a reference to the message it popped.  The push that gets
\* its place constructs another message there.
PoppedAfterPush(p) ==
  IF SlotReuse /\ popped[p] # 0 /\ reuse[p] = 1 THEN mainSeq[p] ELSE popped[p]

\* The window is full: the message waits in own_pending_for_broadcast_.
SendQueue(p) ==
  /\ p \notin crashed
  /\ pc[p]["main"] = "push"
  /\ queue' = [queue EXCEPT ![p] = Append(@, mainSeq[p])]
  /\ place' = [place EXCEPT ![p] = (@ + 1) % NodeSize]
  /\ reuse' = [reuse EXCEPT ![p] = IF @ = 0 THEN 0 ELSE @ - 1]
  /\ popped' = [popped EXCEPT ![p] = PoppedAfterPush(p)]
  /\ mainSeq' = [mainSeq EXCEPT ![p] = 0]
  /\ Goto(p, "main", "idle")
  /\ UNCHANGED <<crashed, nSent, nOwn, pending, acks, delivered, fifo, log, link,
                 out, recvd, dlvId>>

\* Mutant of SendInternal: the number is read again from n_messages_sent_.
SendInternal_RereadsSeq(p) ==
  /\ p \notin crashed
  /\ pc[p]["main"] = "count"
  /\ nOwn' = [nOwn EXCEPT ![p] = @ + 1]
  /\ pending' = [pending EXCEPT ![p] = @ \union {<<p, nSent[p]>>}]
  /\ StartSending(p, "main", <<p, nSent[p]>>)
  /\ mainSeq' = [mainSeq EXCEPT ![p] = 0]
  /\ Goto(p, "main", "sending")
  /\ UNCHANGED <<crashed, nSent, queue, acks, delivered, fifo, log, link,
                 recvd, dlvId, popped, deque>>

\* Mutant of SendInternal: the call of the best-effort broadcast is missing.
SendInternal_NoBroadcast(p) ==
  /\ p \notin crashed
  /\ pc[p]["main"] = "count"
  /\ nOwn' = [nOwn EXCEPT ![p] = @ + 1]
  /\ pending' = [pending EXCEPT ![p] = @ \union {<<p, mainSeq[p]>>}]
  /\ mainSeq' = [mainSeq EXCEPT ![p] = 0]
  /\ Goto(p, "main", "idle")
  /\ UNCHANGED <<crashed, nSent, queue, acks, delivered, fifo, log, link,
                 out, recvd, dlvId, popped, deque>>

\* The message is counted, and SendInternal makes it pending and enters the
\* best-effort broadcast.
SendInternal(p) ==
  /\ p \notin crashed
  /\ pc[p]["main"] = "count"
  /\ nOwn' = [nOwn EXCEPT ![p] = @ + 1]
  /\ pending' = [pending EXCEPT ![p] = @ \union {<<p, mainSeq[p]>>}]
  /\ StartSending(p, "main", <<p, mainSeq[p]>>)
  /\ mainSeq' = [mainSeq EXCEPT ![p] = 0]
  /\ Goto(p, "main", "sending")
  /\ UNCHANGED <<crashed, nSent, queue, acks, delivered, fifo, log, link,
                 recvd, dlvId, popped, deque>>
-----------------------------------------------------------------------------
(***************************************************************************)
(* recv: Broadcast::Notify and UniformReliableBroadcast::NotifyInternal    *)
(***************************************************************************)
\* The link from q notifies p of id, for the last time or not; not_pending and
\* not_delivered are read, and a delivered message is ignored.
Receive(p, q, id) ==
  /\ p \notin crashed
  /\ pc[p]["recv"] = "idle"
  /\ id \in link[q][p]
  /\ \/ link' = [link EXCEPT ![q][p] = @ \ {id}]
     \/ ~Strong /\ UNCHANGED link
  /\ IF DeliveredAt(p, id)
     THEN UNCHANGED <<recvd, pc>>
     ELSE /\ recvd' = [recvd EXCEPT ![p] = [id |-> id, sender |-> q, fresh |-> id \notin pending[p]]]
          /\ Goto(p, "recv", "ack")
  /\ UNCHANGED <<crashed, nSent, nOwn, queue, pending, acks, delivered, fifo, log,
                 out, mainSeq, dlvId, popped, deque>>

\* Mutant of NotifyAck: the message is kept but not relayed.
NotifyAck_NoRelay(p) ==
  /\ p \notin crashed
  /\ pc[p]["recv"] = "ack"
  /\ acks' = [acks EXCEPT ![p][recvd[p].id] = @ \union {recvd[p].sender}]
  /\ pending' = IF recvd[p].fresh
                THEN [pending EXCEPT ![p] = @ \union {recvd[p].id}]
                ELSE pending
  /\ Goto(p, "recv", "idle")
  /\ recvd' = [recvd EXCEPT ![p] = NotReceiving(p)]
  /\ UNCHANGED <<crashed, nSent, nOwn, queue, delivered, fifo, log, link,
                 out, mainSeq, dlvId, popped, deque>>

\* acks_[id].insert(sender); a message that was not pending is from now on, and
\* is relayed.
NotifyAck(p) ==
  /\ p \notin crashed
  /\ pc[p]["recv"] = "ack"
  /\ acks' = [acks EXCEPT ![p][recvd[p].id] = @ \union {recvd[p].sender}]
  /\ IF recvd[p].fresh
     THEN /\ pending' = [pending EXCEPT ![p] = @ \union {recvd[p].id}]
          /\ StartSending(p, "recv", recvd[p].id)
          /\ Goto(p, "recv", "sending")
     ELSE /\ Goto(p, "recv", "idle")
          /\ UNCHANGED <<pending, out>>
  /\ recvd' = [recvd EXCEPT ![p] = NotReceiving(p)]
  /\ UNCHANGED <<crashed, nSent, nOwn, queue, delivered, fifo, log, link,
                 mainSeq, dlvId, popped, deque>>
-----------------------------------------------------------------------------
(***************************************************************************)
(* dlv: UniformReliableBroadcast::DeliverPending                           *)
(***************************************************************************)
\* Mutant of MajoritySeen: half of the processes are enough.
MajoritySeen_Half(p, id) == Cardinality(acks[p][id]) + 1 >= N \div 2

\* The peers that relayed id and p itself are more than half of the processes.
MajoritySeen(p, id) == Cardinality(acks[p][id]) + 1 > N \div 2

\* Is the message delivered by this visit of DeliverPending?
CanDeliver(p, id) == MajoritySeen(p, id) /\ ~DeliveredAt(p, id)

\* Mutant of DeliverErase: the author of the message is not compared with id_.
DeliverErase_AnyAuthor(p, id) ==
  /\ p \notin crashed
  /\ pc[p]["dlv"] = "idle"
  /\ id \in pending[p]
  /\ CanDeliver(p, id)
  /\ dlvId' = [dlvId EXCEPT ![p] = id]
  /\ pending' = [pending EXCEPT ![p] = @ \ {id}]
  /\ Goto(p, "dlv", "uncount")
  /\ UNCHANGED <<crashed, nSent, nOwn, queue, acks, delivered, fifo, log, link,
                 out, mainSeq, recvd, popped, deque>>

\* DeliverPending visits id, decides to deliver it, and takes it out of
\* pending_for_delivery_.  Each pass visits a copy of that set in no particular
\* order; only this thread erases from it, so the copy holds nothing that is
\* not pending any more, and a visit that does not deliver changes nothing.
DeliverErase(p, id) ==
  /\ p \notin crashed
  /\ pc[p]["dlv"] = "idle"
  /\ id \in pending[p]
  /\ CanDeliver(p, id)
  /\ dlvId' = [dlvId EXCEPT ![p] = id]
  /\ pending' = [pending EXCEPT ![p] = @ \ {id}]
  /\ Goto(p, "dlv", IF Author(id) = p THEN "uncount" ELSE "insert")
  /\ UNCHANGED <<crashed, nSent, nOwn, queue, acks, delivered, fifo, log, link,
                 out, mainSeq, recvd, popped, deque>>

\* fetch_add(-1) for an own message, and its old value against the window.
DeliverUncount(p) ==
  /\ p \notin crashed
  /\ pc[p]["dlv"] = "uncount"
  /\ nOwn' = [nOwn EXCEPT ![p] = @ - 1]
  /\ Goto(p, "dlv", IF nOwn[p] <= Ideal THEN "pop" ELSE "insert")
  /\ UNCHANGED <<crashed, nSent, queue, pending, acks, delivered, fifo, log, link,
                 out, mainSeq, recvd, dlvId, popped, deque>>

\* Mutant of DeliverPop: the element is popped but not kept for sending.
DeliverPop_DropsFront(p) ==
  /\ p \notin crashed
  /\ pc[p]["dlv"] = "pop"
  /\ queue' = [queue EXCEPT ![p] = IF @ = << >> THEN @ ELSE Tail(@)]
  /\ Goto(p, "dlv", "insert")
  /\ UNCHANGED <<crashed, nSent, nOwn, pending, acks, delivered, fifo, log, link,
                 out, mainSeq, recvd, dlvId, popped, deque>>

\* The how-many-th push from now may construct its message in the place of the
\* front, once that is popped.  Messages fill a node from place 1 to NodeSize - 1
\* and then 0, the last one.  A node is freed when its last message is popped; the
\* queue allocates a node when it fills the last place of another.  If it gets the
\* freed memory then, the place of the front is filled NodeSize pushes later.
ReusedBy(p) ==
  LET front == (place[p] - Len(queue[p]) + 1) % NodeSize
  IN  {k \in 1..MsgCount[p] : /\ SlotReuse
                              /\ front = 0
                              /\ (place[p] + k) % NodeSize = 0
                              /\ k > NodeSize}

\* The front of own_pending_for_broadcast_ is popped, if there is one.
DeliverPop(p) ==
  /\ p \notin crashed
  /\ pc[p]["dlv"] = "pop"
  /\ IF queue[p] = << >>
     THEN /\ Goto(p, "dlv", "insert")
          /\ UNCHANGED <<queue, popped, reuse>>
     ELSE /\ Goto(p, "dlv", "recount")
          /\ queue' = [queue EXCEPT ![p] = Tail(@)]
          /\ popped' = [popped EXCEPT ![p] = Head(queue[p])]
          /\ \E k \in ReusedBy(p) \union {0} : reuse' = [reuse EXCEPT ![p] = k]
  /\ UNCHANGED <<crashed, nSent, nOwn, pending, acks, delivered, fifo, log, link,
                 out, mainSeq, recvd, dlvId, place>>

\* Mutant of DeliverSendNext: fetch_add(1) is missing.
DeliverSendNext_NotCounted(p) ==
  /\ p \notin crashed
  /\ pc[p]["dlv"] = "recount"
  /\ pending' = [pending EXCEPT ![p] = @ \union {<<p, popped[p]>>}]
  /\ StartSending(p, "dlv", <<p, popped[p]>>)
  /\ popped' = [popped EXCEPT ![p] = 0]
  /\ Goto(p, "dlv", "sending")
  /\ UNCHANGED <<crashed, nSent, nOwn, queue, acks, delivered, fifo, log, link,
                 mainSeq, recvd, dlvId, deque>>

\* The popped message is counted and sent with SendInternal.
DeliverSendNext(p) ==
  /\ p \notin crashed
  /\ pc[p]["dlv"] = "recount"
  /\ nOwn' = [nOwn EXCEPT ![p] = @ + 1]
  /\ pending' = [pending EXCEPT ![p] = @ \union {<<p, popped[p]>>}]
  /\ StartSending(p, "dlv", <<p, popped[p]>>)
  /\ popped' = [popped EXCEPT ![p] = 0]
  /\ Goto(p, "dlv", "sending")
  /\ UNCHANGED <<crashed, nSent, queue, acks, delivered, fifo, log, link,
                 mainSeq, recvd, dlvId, deque>>

\* delivered_.Insert(id), acks_.erase(id), and the upper layer's
\* UniformFIFOBroadcast::DeliverInternal(id, true).
DeliverInsert(p) ==
  /\ p \notin crashed
  /\ pc[p]["dlv"] = "insert"
  /\ LET id == dlvId[p]
         a == Author(id)
     IN  /\ delivered' = [delivered EXCEPT ![p][a] = Insert(@, SeqOf(id))]
         /\ acks' = [acks EXCEPT ![p][id] = {}]
         /\ fifo' = [fifo EXCEPT ![p][a] = DeliverInternal(@, SeqOf(id))]
         /\ log' = [log EXCEPT ![p][a] = @ \o Logged(fifo[p][a], SeqOf(id))]
  /\ dlvId' = [dlvId EXCEPT ![p] = NoId]
  /\ Goto(p, "dlv", "idle")
  /\ UNCHANGED <<crashed, nSent, nOwn, queue, pending, link, out, mainSeq, recvd, popped, deque>>
-----------------------------------------------------------------------------
\* A process stops between any two steps of its threads.  Its threads are gone
\* and nothing reaches it any more; what it held and what it logged is kept for
\* the properties, and what it gave to its links may still arrive.
Crash(p) ==
  /\ p \notin crashed
  /\ Cardinality(crashed) < MaxCrashes
  /\ crashed' = crashed \union {p}
  /\ pc' = [pc EXCEPT ![p] = [t \in Thread |-> "idle"]]
  /\ out' = [out EXCEPT ![p] = [t \in Thread |-> NotSending]]
  /\ link' = [q \in Proc |-> [link[q] EXCEPT ![p] = {}]]
  /\ queue' = [queue EXCEPT ![p] = << >>]
  /\ acks' = [acks EXCEPT ![p] = [id \in Ids |-> {}]]
  /\ mainSeq' = [mainSeq EXCEPT ![p] = 0]
  /\ recvd' = [recvd EXCEPT ![p] = NotReceiving(p)]
  /\ popped' = [popped EXCEPT ![p] = 0]
  /\ UNCHANGED <<nSent, nOwn, pending, delivered, fifo, log, dlvId, deque>>

MainStep(p) ==
  \/ Send(p)
  \/ SendQueue(p)
  \/ SendInternal(p)
  \/ \E q \in Proc : SendOnLink(p, "main", q)

NotifyStep(p) ==
  \/ NotifyAck(p)
  \/ \E q \in Proc : SendOnLink(p, "recv", q)

DeliverStep(p) ==
  \/ \E id \in Ids : DeliverErase(p, id)
  \/ DeliverUncount(p)
  \/ DeliverPop(p)
  \/ DeliverSendNext(p)
  \/ \E q \in Proc : SendOnLink(p, "dlv", q)
  \/ DeliverInsert(p)

Next ==
  \E p \in Proc :
    \/ MainStep(p)
    \/ \E q \in Proc, id \in Ids : Receive(p, q, id)
    \/ NotifyStep(p)
    \/ DeliverStep(p)
    \/ Crash(p)

Spec == Init /\ [][Next]_vars

\* A link between processes that do not crash delivers everything it was given.
ReceiveFrom(p) ==
  \E q \in Proc \ crashed, id \in Ids : Receive(p, q, id) /\ id \notin link'[q][p]

\* Threads of a process that does not crash keep running.
Fairness ==
  \A p \in Proc :
    /\ WF_vars(MainStep(p))
    /\ WF_vars(NotifyStep(p))
    /\ WF_vars(DeliverStep(p))
    /\ SF_vars(ReceiveFrom(p))

FairSpec == Spec /\ Fairness
-----------------------------------------------------------------------------
(***************************************************************************)
(* Properties                                                              *)
(***************************************************************************)
\* q keeps id: it is pending, being delivered or delivered.
Holds(q, id) == id \in pending[q] \/ dlvId[q] = id \/ DeliveredAt(q, id)

\* Some thread of p has yet to hand id to the link to q.
StillToSend(p, q, id) == \E t \in Thread : out[p][t].id = id /\ q \in out[p][t].to

HasLogged(p, id) == \E i \in DOMAIN log[p][Author(id)] : log[p][Author(id)][i] = SeqOf(id)

\* Types; a thread's local variables are set exactly where the code uses them.
TypeOK ==
  /\ crashed \subseteq Proc
  /\ Cardinality(crashed) <= MaxCrashes
  /\ \A p \in Proc \ crashed :
       /\ nSent[p] \in 1..(MsgCount[p] + 1)
       /\ nOwn[p] \in 0..MsgCount[p]
       /\ \A i \in DOMAIN queue[p] : queue[p][i] \in 1..(nSent[p] - 1)
       /\ pending[p] \subseteq Ids
       /\ \A id \in Ids : acks[p][id] \subseteq Peers(p)
       /\ \A q \in Proc : link[p][q] \subseteq Ids
       /\ link[p][p] = {}
       /\ pc[p]["main"] \in {"idle", "push", "count", "sending"}
       /\ pc[p]["recv"] \in {"idle", "ack", "sending"}
       /\ pc[p]["dlv"] \in {"idle", "uncount", "pop", "recount", "sending", "insert"}
       /\ \A t \in Thread :
            /\ out[p][t].to \subseteq Peers(p)
            /\ (pc[p][t] = "sending") <=> (out[p][t].to # {})
            /\ (pc[p][t] = "sending") <=> (out[p][t].id \in Ids)
       /\ (pc[p]["main"] \in {"push", "count"}) <=> (mainSeq[p] # 0)
       /\ (pc[p]["recv"] = "ack") <=> (recvd[p].id \in Ids)
       /\ (pc[p]["dlv"] # "idle") <=> (dlvId[p] \in Ids)
       /\ (pc[p]["dlv"] = "recount") <=> (popped[p] # 0)

\* The FIFO order that UniformFIFOBroadcast adds, with URB2: whatever the order
\* in which DeliverPending delivers, a process logs the messages of an author
\* as 1, 2, 3, ..., each once.
FifoOrder ==
  \A p, a \in Proc : \A i \in DOMAIN log[p][a] : log[p][a][i] = i

\* URB3, no creation: a message anywhere in the system was broadcast by its
\* author, also when DeliverPending reads a queue element that another message
\* has replaced (SlotReuse).
NoCreation ==
  \A p \in Proc : \A id \in Ids :
    (Holds(p, id) \/ HasLogged(p, id) \/ \E q \in Proc : id \in link[p][q])
      => SeqOf(id) < nSent[Author(id)]

\* What makes the agreement uniform: when a process, later crashed or not, has
\* delivered a message, a majority of all processes keep it, so a process that
\* never crashes is among them.
UniformQuorum ==
  \A p \in Proc : \A id \in Ids :
    DeliveredAt(p, id) => 2 * Cardinality({q \in Proc : Holds(q, id)}) > N

\* A process that keeps a message relays it to everybody: each peer has the
\* message, or it is on the link or in the hands of the peer's receive thread,
\* or a thread of the process is still in the SendInternal loop with it.  The
\* unlocked not_pending / not_delivered tests of NotifyInternal race
\* DeliverPending, which erases a message before it inserts it in delivered_.
RelayComplete ==
  \A p \in Proc \ crashed : \A q \in Peers(p) \ crashed : \A id \in Ids :
    Holds(p, id) => \/ Holds(q, id)
                    \/ id \in link[p][q]
                    \/ recvd[q].id = id
                    \/ StillToSend(p, q, id)

\* The own messages of p that count against its window: pending, and not yet
\* uncounted by DeliverPending.
InWindow(p) ==
  {s \in 1..MsgCount[p] :
     /\ <<p, s>> \in pending[p] \/ dlvId[p] = <<p, s>>
     /\ ~DeliveredAt(p, <<p, s>>)
     /\ dlvId[p] = <<p, s>> => pc[p]["dlv"] = "uncount"}

\* n_own_pending_for_delivery_ is incremented and decremented once for every
\* own message, although two threads do it and a message may become pending a
\* second time: the unsigned counter never wraps below 0.
OwnAccounting == \A p \in Proc \ crashed : nOwn[p] = Cardinality(InWindow(p))

\* Flow control: Send tests the window before it counts its message, and
\* DeliverPending refills it without testing again; still the window is
\* exceeded by one message at most.
WindowBound == \A p \in Proc : nOwn[p] <= Ideal + 1

\* No broadcast message is dropped on its way through the window: once Send has
\* taken a number, the message is in the hands of main or of DeliverPending, in
\* own_pending_for_broadcast_, or kept by the process.
OwnNotLost ==
  \A p \in Proc \ crashed : \A s \in 1..(nSent[p] - 1) :
    \/ mainSeq[p] = s
    \/ \E i \in DOMAIN queue[p] : queue[p][i] = s
    \/ popped[p] = s
    \/ Holds(p, <<p, s>>)

\* URB1, validity: a process that does not crash delivers what it broadcast.
Validity ==
  \A id \in Ids : SeqOf(id) < nSent[Author(id)]
                  ~> Author(id) \in crashed \/ HasLogged(Author(id), id)

\* s waits in the queue, and no step of p will take it out of there.
Stranded(p, s) ==
  /\ \E i \in DOMAIN queue[p] : queue[p][i] = s
  /\ nSent[p] > MsgCount[p]
  /\ pc[p]["main"] = "idle"
  /\ pc[p]["dlv"] = "idle"
  /\ nOwn[p] = 0

\* URB4, uniform agreement: what any process logged, every process that does not
\* crash logs in the end.
UniformAgreement ==
  \A id \in Ids :
    (\E p \in Proc : HasLogged(p, id)) ~> \A q \in Proc \ crashed : HasLogged(q, id)

\* What URB1 comes to in the presence of the race between Send and
\* DeliverPending on the window: every message that a process takes up is
\* delivered by it, unless it is left in own_pending_for_broadcast_ when main
\* has no more to send and nothing of the process is under way.
DeliveredOrStranded ==
  \A id \in Ids :
    LET a == Author(id) IN
    SeqOf(id) < nSent[a] ~> \/ a \in crashed
                            \/ HasLogged(a, id)
                            \/ Stranded(a, SeqOf(id))

\* Nothing can happen any more: every thread of the processes that are left
\* waits, and the links between them have delivered everything.
Quiet ==
  \A p \in Proc \ crashed :
    /\ nSent[p] > MsgCount[p]
    /\ \A t \in Thread : pc[p][t] = "idle"
    /\ \A q \in Proc \ crashed : link[q][p] = {}
    /\ \A id \in pending[p] : ~CanDeliver(p, id)

\* URB4 with crashes: when nothing can happen any more, the processes that are
\* left have logged everything that any process logged, also one that crashed
\* in the middle of its loop over the links or with its relay unsent.
AgreementWhenQuiet ==
  Quiet => \A id \in Ids : \A p \in Proc : \A q \in Proc \ crashed :
             HasLogged(p, id) => HasLogged(q, id)

\* The threads, queues, acks and links of all processes together implement the
\* FIFO broadcast that the log files show: every step broadcasts the next
\* message of a process, extends one log by the next messages of one author,
\* is a crash, or changes nothing that a user can see.
Abstract == INSTANCE FifoUniformBroadcast WITH sent <- [p \in Proc |-> nSent[p] - 1]
ImplementsBroadcast == Abstract!Spec
=============================================================================
