-------------------------- MODULE BroadcastProofs --------------------------
(***************************************************************************)
(* Proofs about UniformReliableBroadcast, for every number of processes    *)
(* and messages, every window and both kinds of links.                     *)
(***************************************************************************)
EXTENDS UniformReliableBroadcast, DeliveryLemmas

\* What the identifiers of messages are.
LEMMA IdsAre ==
  /\ \A p \in Proc : \A s \in 1..MsgCount[p] : <<p, s>> \in Ids
  /\ \A id \in Ids : /\ Author(id) \in Proc
                     /\ SeqOf(id) \in 1..MsgCount[Author(id)]
                     /\ SeqOf(id) \in Nat \ {0}
                     /\ id = <<Author(id), SeqOf(id)>>
  /\ NoId \notin Ids
<1>1. ASSUME NEW p \in Proc, NEW s \in 1..MsgCount[p] PROVE <<p, s>> \in Ids
  BY DEF Ids
<1>2. ASSUME NEW id \in Ids
      PROVE  /\ Author(id) \in Proc
             /\ SeqOf(id) \in 1..MsgCount[Author(id)]
             /\ SeqOf(id) \in Nat \ {0}
             /\ id = <<Author(id), SeqOf(id)>>
  <2>1. PICK p \in Proc : id \in {p} \X (1..MsgCount[p])
    BY DEF Ids
  <2>2. MsgCount[p] \in Nat
    BY SystemAssumption
  <2> QED
    BY <2>1, <2>2 DEF Author, SeqOf
<1>3. NoId \notin Ids
  BY <1>2 DEF NoId
<1> QED
  BY <1>1, <1>2, <1>3

\* The places of the three threads, and what their local variables hold there.
MainLabel == {"idle", "push", "count", "sending"}
RecvLabel == {"idle", "ack", "sending"}
DlvLabel  == {"idle", "uncount", "pop", "recount", "sending", "insert"}
Label     == MainLabel \union RecvLabel \union DlvLabel

\* delivered, fifo and log are left to DeliveryInv.
Types ==
  /\ crashed \in SUBSET Proc
  /\ Cardinality(crashed) <= MaxCrashes
  /\ nSent \in [Proc -> Nat]
  /\ nOwn \in [Proc -> Int]
  /\ queue \in [Proc -> Seq(Nat)]
  /\ pending \in [Proc -> SUBSET Ids]
  /\ acks \in [Proc -> [Ids -> SUBSET Proc]]
  /\ link \in [Proc -> [Proc -> SUBSET Ids]]
  /\ pc \in [Proc -> [Thread -> Label]]
  /\ out \in [Proc -> [Thread -> [id : Ids \union {NoId}, to : SUBSET Proc]]]
  /\ mainSeq \in [Proc -> Nat]
  /\ recvd \in [Proc -> [id : Ids \union {NoId}, sender : Proc, fresh : BOOLEAN]]
  /\ dlvId \in [Proc -> Ids \union {NoId}]
  /\ popped \in [Proc -> Nat]

Sending(p, t) ==
  /\ out[p][t].to \subseteq Peers(p)
  /\ (pc[p][t] = "sending") <=> (out[p][t].to # {})
  /\ (pc[p][t] = "sending") <=> (out[p][t].id \in Ids)

MainOK(p) ==
  /\ pc[p]["main"] \in MainLabel
  /\ (pc[p]["main"] \in {"push", "count"}) <=> (mainSeq[p] # 0)

RecvOK(p) ==
  /\ pc[p]["recv"] \in RecvLabel
  /\ (pc[p]["recv"] = "ack") <=> (recvd[p].id \in Ids)
  /\ (pc[p]["recv"] = "ack") => recvd[p].sender # p

DlvOK(p) ==
  /\ pc[p]["dlv"] \in DlvLabel
  /\ p \notin crashed => ((pc[p]["dlv"] # "idle") <=> (dlvId[p] \in Ids))
  /\ pc[p]["dlv"] \in {"uncount", "pop", "recount", "sending"} => Author(dlvId[p]) = p
  /\ (pc[p]["dlv"] = "recount") <=> (popped[p] # 0)

Stopped(p) == p \in crashed => \A t \in Thread : pc[p][t] = "idle"

\* A process has no link to itself and does not count among its acks.
NotToSelf(p) == link[p][p] = {} /\ \A id \in Ids : p \notin acks[p][id]

\* The numbers of its own that a process has under way are numbers it took.
Numbers(p) ==
  /\ nSent[p] \in 1..(MsgCount[p] + 1)
  /\ \A i \in DOMAIN queue[p] : queue[p][i] \in 1..(nSent[p] - 1)
  /\ mainSeq[p] < nSent[p]
  /\ popped[p] < nSent[p]

\* Types, places of the threads, and what each has in its hands.
BaseInv ==
  /\ Types
  /\ \A p \in Proc : /\ \A t \in Thread : Sending(p, t)
                     /\ MainOK(p) /\ RecvOK(p) /\ DlvOK(p)
                     /\ Stopped(p) /\ NotToSelf(p) /\ Numbers(p)

\* At the start every container is empty and every thread is at its loop's head.
LEMMA BaseInit == Init => BaseInv
<1> SUFFICES ASSUME Init PROVE BaseInv
  OBVIOUS
<1> USE SystemAssumption, IdsAre DEF Init
<1>1. Types
  BY FS_EmptySet DEF Types, NotSending, NotReceiving, Label, MainLabel
<1>2. ASSUME NEW p \in Proc
      PROVE  /\ \A t \in Thread : Sending(p, t)
             /\ MainOK(p) /\ RecvOK(p) /\ DlvOK(p)
             /\ Stopped(p) /\ NotToSelf(p) /\ Numbers(p)
  BY DEF Sending, MainOK, RecvOK, DlvOK, Stopped, NotToSelf, Numbers, NotSending,
         NotReceiving, Peers, Thread, MainLabel, RecvLabel, DlvLabel
<1> QED
  BY <1>1, <1>2 DEF BaseInv

\* A thread goes to a label, and no other thread moves.
LEMMA GotoIs ==
  ASSUME Types, NEW p \in Proc, NEW t \in Thread, NEW l, Goto(p, t, l)
  PROVE  \A r \in Proc, u \in Thread :
           pc'[r][u] = IF r = p /\ u = t THEN l ELSE pc[r][u]
BY DEF Types, Goto

\* A thread enters the loop over the links, and no other thread does.
LEMMA StartSendingIs ==
  ASSUME Types, NEW p \in Proc, NEW t \in Thread, NEW id, StartSending(p, t, id)
  PROVE  \A r \in Proc, u \in Thread :
           out'[r][u] = IF r = p /\ u = t THEN [id |-> id, to |-> Peers(p)] ELSE out[r][u]
BY DEF Types, StartSending

\* Moving a thread keeps pc well typed.
LEMMA GotoTypes ==
  ASSUME Types, NEW p \in Proc, NEW t \in Thread, NEW l \in Label, Goto(p, t, l)
  PROVE  pc' \in [Proc -> [Thread -> Label]]
BY DEF Types, Goto
\* The loop that a thread enters has the type of a loop.
LEMMA StartSendingTypes ==
  ASSUME Types, NEW p \in Proc, NEW t \in Thread, NEW id \in Ids, StartSending(p, t, id)
  PROVE  out' \in [Proc -> [Thread -> [id : Ids \union {NoId}, to : SUBSET Proc]]]
<1>1. [id |-> id, to |-> Peers(p)] \in [id : Ids \union {NoId}, to : SUBSET Proc]
  BY DEF Peers
<1> QED
  BY <1>1 DEF Types, StartSending

\* In a system of two or more, everybody has a peer.
LEMMA HasPeers == \A p \in Proc : Peers(p) # {}
<1> SUFFICES ASSUME NEW p \in Proc, Peers(p) = {} PROVE FALSE
  OBVIOUS
<1>1. Proc = {p}
  BY DEF Peers
<1>2. Cardinality(Proc) = 1
  BY <1>1, FS_Singleton
<1> QED
  BY <1>2, SystemAssumption DEF N
-----------------------------------------------------------------------------
(***************************************************************************)
(* What each action does to the variables it changes, component by         *)
(* component.                                                              *)
(***************************************************************************)
\* One iteration of the loop over the links.
SendOnLinkDoes(p, t, q) ==
  /\ p \notin crashed
  /\ pc[p][t] = "sending"
  /\ q \in out[p][t].to
  /\ \A r \in Proc, u \in Thread :
       /\ pc'[r][u] = IF r = p /\ u = t /\ out[p][t].to = {q}
                      THEN AfterSending(t) ELSE pc[r][u]
       /\ out'[r][u].id = IF r = p /\ u = t /\ out[p][t].to = {q}
                          THEN NoId ELSE out[r][u].id
       /\ out'[r][u].to = IF r = p /\ u = t
                          THEN out[r][u].to \ {q} ELSE out[r][u].to
  /\ \A r, s \in Proc :
       link'[r][s] = IF r = p /\ s = q
                     THEN link[r][s] \union {out[p][t].id} ELSE link[r][s]
  /\ UNCHANGED <<crashed, nSent, nOwn, queue, pending, acks, delivered, fifo, log,
                 mainSeq, recvd, dlvId, popped>>

\* One iteration of BestEffortBroadcast::SendInternal has this effect and keeps
\* the types.
LEMMA SendOnLinkIs ==
  ASSUME Types, NEW p \in Proc, NEW t \in Thread, NEW q \in Proc, SendOnLink(p, t, q),
         out[p][t].id \in Ids
  PROVE  SendOnLinkDoes(p, t, q) /\ Types'
<1>1. \A r, s \in Proc :
        link'[r][s] = IF r = p /\ s = q THEN link[r][s] \union {out[p][t].id} ELSE link[r][s]
  BY DEF SendOnLink, Types
<1>2. link' \in [Proc -> [Proc -> SUBSET Ids]]
  BY DEF SendOnLink, Types
<1>3. CASE out[p][t].to = {q}
  <2>1. \A r \in Proc, u \in Thread :
          pc'[r][u] = IF r = p /\ u = t THEN AfterSending(t) ELSE pc[r][u]
    BY <1>3, GotoIs DEF SendOnLink
  <2>2. \A r \in Proc, u \in Thread :
          out'[r][u] = IF r = p /\ u = t THEN NotSending ELSE out[r][u]
    BY <1>3 DEF SendOnLink, Types
  <2>3. AfterSending(t) \in Label /\ NotSending \in [id : Ids \union {NoId}, to : SUBSET Proc]
    BY DEF AfterSending, Label, MainLabel, DlvLabel, NotSending
  <2>4. /\ pc' \in [Proc -> [Thread -> Label]]
        /\ out' \in [Proc -> [Thread -> [id : Ids \union {NoId}, to : SUBSET Proc]]]
    <3>1. pc' \in [Proc -> [Thread -> Label]]
      BY <1>3, <2>3, GotoTypes DEF SendOnLink
    <3>2. out' = [out EXCEPT ![p][t] = NotSending]
      BY <1>3 DEF SendOnLink
    <3>3. out' \in [Proc -> [Thread -> [id : Ids \union {NoId}, to : SUBSET Proc]]]
      BY <3>2, <2>3 DEF Types
    <3> QED
      BY <3>1, <3>3
  <2>5. Types'
    BY <1>2, <2>4 DEF SendOnLink, Types
  <2>6. NotSending.id = NoId /\ NotSending.to = {}
    BY DEF NotSending
  <2> QED
    BY ZenonT(60), <1>1, <1>3, <2>1, <2>2, <2>5, <2>6 DEF SendOnLink, SendOnLinkDoes
<1>4. CASE out[p][t].to # {q}
  <2>1. pc' = pc /\ out' = [out EXCEPT ![p][t].to = @ \ {q}]
    BY <1>4 DEF SendOnLink
  <2>2. ASSUME NEW r \in Proc, NEW u \in Thread
        PROVE  /\ out'[r][u].id = out[r][u].id
               /\ out'[r][u].to = IF r = p /\ u = t THEN out[r][u].to \ {q} ELSE out[r][u].to
    <3>1. out[r][u] \in [id : Ids \union {NoId}, to : SUBSET Proc]
            /\ out[r] \in [Thread -> [id : Ids \union {NoId}, to : SUBSET Proc]]
      BY DEF Types
    <3>2. out'[r][u] = IF r = p /\ u = t THEN [out[r][u] EXCEPT !.to = @ \ {q}] ELSE out[r][u]
      BY <2>1, <3>1 DEF Types
    <3> QED
      BY <3>1, <3>2
  <2>3. out' \in [Proc -> [Thread -> [id : Ids \union {NoId}, to : SUBSET Proc]]]
    <3> DEFINE rest == [out[p][t] EXCEPT !.to = @ \ {q}]
    <3>1. rest \in [id : Ids \union {NoId}, to : SUBSET Proc]
      <4>1. out[p][t] \in [id : Ids \union {NoId}, to : SUBSET Proc]
        BY DEF Types
      <4> QED
        BY <4>1
    <3>2. out' = [out EXCEPT ![p][t] = rest]
      BY <2>1
    <3> HIDE DEF rest
    <3> QED
      BY <3>1, <3>2 DEF Types
  <2>4. Types'
    BY <1>2, <2>1, <2>3 DEF SendOnLink, Types
  <2> QED
    BY SMTT(30), <1>1, <1>4, <2>1, <2>2, <2>4 DEF SendOnLink, SendOnLinkDoes
<1> QED
  BY <1>3, <1>4

\* main takes a number.
SendDoes(p) ==
  /\ p \notin crashed
  /\ pc[p]["main"] = "idle"
  /\ nSent[p] <= MsgCount[p]
  /\ \A r \in Proc, u \in Thread :
       pc'[r][u] = IF r = p /\ u = "main"
                   THEN (IF nOwn[p] >= Ideal THEN "push" ELSE "count") ELSE pc[r][u]
  /\ \A r \in Proc : /\ nSent'[r] = IF r = p THEN nSent[r] + 1 ELSE nSent[r]
                     /\ mainSeq'[r] = IF r = p THEN nSent[r] ELSE mainSeq[r]
  /\ UNCHANGED <<crashed, nOwn, queue, pending, acks, delivered, fifo, log, link,
                 out, recvd, dlvId, popped>>

\* Send up to its test of the window has this effect and keeps the types.
LEMMA SendIs ==
  ASSUME Types, NEW p \in Proc, Send(p)
  PROVE  SendDoes(p) /\ Types'
<1>1. \A r \in Proc, u \in Thread :
        pc'[r][u] = IF r = p /\ u = "main"
                    THEN (IF nOwn[p] >= Ideal THEN "push" ELSE "count") ELSE pc[r][u]
  BY GotoIs DEF Send, Thread
<1>2. \A r \in Proc : /\ nSent'[r] = IF r = p THEN nSent[r] + 1 ELSE nSent[r]
                      /\ mainSeq'[r] = IF r = p THEN nSent[r] ELSE mainSeq[r]
  BY DEF Send, Types
<1>3. pc' \in [Proc -> [Thread -> Label]]
  BY GotoTypes DEF Send, Thread, Label, MainLabel
<1>4. nSent' \in [Proc -> Nat] /\ mainSeq' \in [Proc -> Nat]
  BY DEF Send, Types
<1>5. Types'
  BY <1>3, <1>4 DEF Send, Types
<1> QED
  BY <1>1, <1>2, <1>5 DEF Send, SendDoes

\* main leaves its message in own_pending_for_broadcast_.
SendQueueDoes(p) ==
  /\ p \notin crashed
  /\ pc[p]["main"] = "push"
  /\ \A r \in Proc, u \in Thread :
       pc'[r][u] = IF r = p /\ u = "main" THEN "idle" ELSE pc[r][u]
  /\ \A r \in Proc :
       /\ queue'[r] = IF r = p THEN Append(queue[r], mainSeq[r]) ELSE queue[r]
       /\ mainSeq'[r] = IF r = p THEN 0 ELSE mainSeq[r]
       /\ r # p => popped'[r] = popped[r]
  /\ popped'[p] = popped[p] \/ (SlotReuse /\ popped[p] # 0 /\ popped'[p] = mainSeq[p])
  /\ UNCHANGED <<crashed, nSent, nOwn, pending, acks, delivered, fifo, log, link,
                 out, recvd, dlvId>>

\* The push of Send has this effect and keeps the types.
LEMMA SendQueueIs ==
  ASSUME Types, NEW p \in Proc, SendQueue(p)
  PROVE  SendQueueDoes(p) /\ Types'
<1>1. \A r \in Proc, u \in Thread :
        pc'[r][u] = IF r = p /\ u = "main" THEN "idle" ELSE pc[r][u]
  BY GotoIs DEF SendQueue, Thread
<1>2. PICK s : s = PoppedAfterPush(p) /\ popped' = [popped EXCEPT ![p] = s]
  BY DEF SendQueue
<1>3. s = popped[p] \/ (SlotReuse /\ popped[p] # 0 /\ s = mainSeq[p])
  BY <1>2 DEF PoppedAfterPush
<1>4. s \in Nat
  BY <1>3 DEF Types
<1>5. \A r \in Proc :
        /\ queue'[r] = IF r = p THEN Append(queue[r], mainSeq[r]) ELSE queue[r]
        /\ mainSeq'[r] = IF r = p THEN 0 ELSE mainSeq[r]
        /\ popped'[r] = IF r = p THEN s ELSE popped[r]
  BY <1>2 DEF SendQueue, Types
<1>6. pc' \in [Proc -> [Thread -> Label]]
  BY GotoTypes DEF SendQueue, Thread, Label, MainLabel
<1>7. queue' \in [Proc -> Seq(Nat)]
  BY DEF SendQueue, Types
<1>8. mainSeq' \in [Proc -> Nat] /\ popped' \in [Proc -> Nat]
  BY <1>2, <1>4 DEF SendQueue, Types
<1>9. Types'
  BY <1>6, <1>7, <1>8 DEF SendQueue, Types
<1> QED
  BY <1>1, <1>3, <1>5, <1>9 DEF SendQueue, SendQueueDoes

\* main counts its message and enters the best-effort broadcast.
SendInternalDoes(p, id) ==
  /\ p \notin crashed
  /\ pc[p]["main"] = "count"
  /\ id \in Ids /\ id = <<p, mainSeq[p]>>
  /\ \A r \in Proc, u \in Thread :
       /\ pc'[r][u] = IF r = p /\ u = "main" THEN "sending" ELSE pc[r][u]
       /\ out'[r][u] = IF r = p /\ u = "main"
                       THEN [id |-> id, to |-> Peers(p)] ELSE out[r][u]
  /\ \A r \in Proc :
       /\ nOwn'[r] = IF r = p THEN nOwn[r] + 1 ELSE nOwn[r]
       /\ pending'[r] = IF r = p THEN pending[r] \union {id} ELSE pending[r]
       /\ mainSeq'[r] = IF r = p THEN 0 ELSE mainSeq[r]
  /\ UNCHANGED <<crashed, nSent, queue, acks, delivered, fifo, log, link, recvd,
                 dlvId, popped>>

\* Send through the open window has this effect and keeps the types.
LEMMA SendInternalIs ==
  ASSUME Types, NEW p \in Proc, SendInternal(p), NEW id, id = <<p, mainSeq[p]>>, id \in Ids
  PROVE  SendInternalDoes(p, id) /\ Types'
<1>1. \A r \in Proc, u \in Thread :
        /\ pc'[r][u] = IF r = p /\ u = "main" THEN "sending" ELSE pc[r][u]
        /\ out'[r][u] = IF r = p /\ u = "main" THEN [id |-> id, to |-> Peers(p)] ELSE out[r][u]
  BY GotoIs, StartSendingIs DEF SendInternal, Thread
<1>2. \A r \in Proc :
        /\ nOwn'[r] = IF r = p THEN nOwn[r] + 1 ELSE nOwn[r]
        /\ pending'[r] = IF r = p THEN pending[r] \union {id} ELSE pending[r]
        /\ mainSeq'[r] = IF r = p THEN 0 ELSE mainSeq[r]
  BY DEF SendInternal, Types
<1>3. pending' \in [Proc -> SUBSET Ids]
  BY DEF SendInternal, Types
<1>4. out' \in [Proc -> [Thread -> [id : Ids \union {NoId}, to : SUBSET Proc]]]
  BY StartSendingTypes DEF SendInternal, Thread
<1>5. pc' \in [Proc -> [Thread -> Label]]
  BY GotoTypes DEF SendInternal, Thread, Label, MainLabel
<1>6. Types'
  BY <1>3, <1>4, <1>5 DEF SendInternal, Types
<1> QED
  BY <1>1, <1>2, <1>6 DEF SendInternal, SendInternalDoes

\* recv is notified of a message by a link.
ReceiveDoes(p, q, id) ==
  /\ p \notin crashed
  /\ pc[p]["recv"] = "idle"
  /\ id \in link[q][p]
  /\ \A r, s \in Proc :
       /\ r = q /\ s = p => link'[r][s] \in {link[r][s], link[r][s] \ {id}}
       /\ ~(r = q /\ s = p) => link'[r][s] = link[r][s]
  /\ IF DeliveredAt(p, id)
     THEN recvd' = recvd /\ pc' = pc
     ELSE /\ \A r \in Proc, u \in Thread :
               pc'[r][u] = IF r = p /\ u = "recv" THEN "ack" ELSE pc[r][u]
          /\ \A r \in Proc :
               recvd'[r] = IF r = p THEN [id |-> id, sender |-> q, fresh |-> id \notin pending[p]]
                           ELSE recvd[r]
  /\ UNCHANGED <<crashed, nSent, nOwn, queue, pending, acks, delivered, fifo, log,
                 out, mainSeq, dlvId, popped>>

\* The tests of NotifyInternal have this effect and keep the types.
LEMMA ReceiveIs ==
  ASSUME Types, NEW p \in Proc, NEW q \in Proc, NEW id \in Ids, Receive(p, q, id)
  PROVE  ReceiveDoes(p, q, id) /\ Types'
<1>1. link' = [link EXCEPT ![q][p] = @ \ {id}] \/ link' = link
  BY DEF Receive
<1>2. \A r, s \in Proc :
        /\ r = q /\ s = p => link'[r][s] \in {link[r][s], link[r][s] \ {id}}
        /\ ~(r = q /\ s = p) => link'[r][s] = link[r][s]
  BY SMTT(30), <1>1 DEF Types
<1>3. link' \in [Proc -> [Proc -> SUBSET Ids]]
  <2>1. link[q][p] \ {id} \in SUBSET Ids
    BY DEF Types
  <2>2. CASE link' = [link EXCEPT ![q][p] = @ \ {id}]
    BY <2>1, <2>2 DEF Types
  <2>3. CASE link' = link
    BY <2>3 DEF Types
  <2> QED
    BY <1>1, <2>2, <2>3
<1>4. CASE DeliveredAt(p, id)
  <2>1. recvd' = recvd /\ pc' = pc
    BY <1>4 DEF Receive
  <2>2. Types'
    BY <1>3, <2>1 DEF Receive, Types
  <2> QED
    BY <1>2, <1>4, <2>1, <2>2 DEF Receive, ReceiveDoes
<1>5. CASE ~DeliveredAt(p, id)
  <2> DEFINE new == [id |-> id, sender |-> q, fresh |-> id \notin pending[p]]
  <2>1. recvd' = [recvd EXCEPT ![p] = new] /\ Goto(p, "recv", "ack")
    BY <1>5 DEF Receive
  <2>2. new \in [id : Ids \union {NoId}, sender : Proc, fresh : BOOLEAN]
    OBVIOUS
  <2> HIDE DEF new
  <2>3. recvd' \in [Proc -> [id : Ids \union {NoId}, sender : Proc, fresh : BOOLEAN]]
    BY <2>1, <2>2 DEF Types
  <2>4. pc' \in [Proc -> [Thread -> Label]]
    BY <2>1, GotoTypes DEF Thread, Label, RecvLabel
  <2>5. Types'
    BY <1>3, <2>3, <2>4 DEF Receive, Types
  <2>6. \A r \in Proc, u \in Thread :
          pc'[r][u] = IF r = p /\ u = "recv" THEN "ack" ELSE pc[r][u]
    BY <2>1, GotoIs DEF Thread
  <2>7. \A r \in Proc : recvd'[r] = IF r = p THEN new ELSE recvd[r]
    BY <2>1 DEF Types
  <2> QED
    BY <1>2, <1>5, <2>5, <2>6, <2>7 DEF new, Receive, ReceiveDoes
<1> QED
  BY <1>4, <1>5

\* recv inserts the ack and relays a message that was not pending.
NotifyAckDoes(p, id) ==
  /\ p \notin crashed
  /\ pc[p]["recv"] = "ack"
  /\ id \in Ids /\ id = recvd[p].id
  /\ \A r \in Proc, u \in Thread :
       /\ pc'[r][u] = IF r = p /\ u = "recv"
                      THEN (IF recvd[p].fresh THEN "sending" ELSE "idle") ELSE pc[r][u]
       /\ out'[r][u] = IF r = p /\ u = "recv" /\ recvd[p].fresh
                       THEN [id |-> id, to |-> Peers(p)] ELSE out[r][u]
  /\ \A r \in Proc :
       /\ pending'[r] = IF r = p /\ recvd[p].fresh
                        THEN pending[r] \union {id} ELSE pending[r]
       /\ recvd'[r] = IF r = p THEN NotReceiving(p) ELSE recvd[r]
       /\ \A i \in Ids : acks'[r][i] = IF r = p /\ i = id
                                       THEN acks[r][i] \union {recvd[p].sender}
                                       ELSE acks[r][i]
  /\ UNCHANGED <<crashed, nSent, nOwn, queue, delivered, fifo, log, link, mainSeq,
                 dlvId, popped>>

\* The rest of NotifyInternal has this effect and keeps the types.
LEMMA NotifyAckIs ==
  ASSUME Types, NEW p \in Proc, NotifyAck(p), NEW id \in Ids, id = recvd[p].id
  PROVE  NotifyAckDoes(p, id) /\ Types'
<1>1. \A r \in Proc : \A i \in Ids :
        acks'[r][i] = IF r = p /\ i = id THEN acks[r][i] \union {recvd[p].sender} ELSE acks[r][i]
  BY DEF NotifyAck, Types
<1>2. acks' \in [Proc -> [Ids -> SUBSET Proc]]
  BY DEF NotifyAck, Types
<1>3. \A r \in Proc : recvd'[r] = IF r = p THEN NotReceiving(p) ELSE recvd[r]
  BY DEF NotifyAck, Types
<1>4. recvd' \in [Proc -> [id : Ids \union {NoId}, sender : Proc, fresh : BOOLEAN]]
  <2>1. NotReceiving(p) \in [id : Ids \union {NoId}, sender : Proc, fresh : BOOLEAN]
    BY DEF NotReceiving
  <2> QED
    BY <2>1 DEF NotifyAck, Types
<1>5. CASE recvd[p].fresh
  <2>1. /\ pending' = [pending EXCEPT ![p] = @ \union {id}]
        /\ StartSending(p, "recv", id) /\ Goto(p, "recv", "sending")
    BY <1>5 DEF NotifyAck
  <2>2. \A r \in Proc : pending'[r] = IF r = p THEN pending[r] \union {id} ELSE pending[r]
    BY <2>1 DEF Types
  <2>3. \A r \in Proc, u \in Thread :
          /\ pc'[r][u] = IF r = p /\ u = "recv" THEN "sending" ELSE pc[r][u]
          /\ out'[r][u] = IF r = p /\ u = "recv" THEN [id |-> id, to |-> Peers(p)] ELSE out[r][u]
    BY <2>1, GotoIs, StartSendingIs DEF Thread
  <2>4. pc' \in [Proc -> [Thread -> Label]]
    BY <2>1, GotoTypes DEF Thread, Label, RecvLabel
  <2>5. out' \in [Proc -> [Thread -> [id : Ids \union {NoId}, to : SUBSET Proc]]]
    BY <2>1, StartSendingTypes DEF Thread
  <2>6. pending' \in [Proc -> SUBSET Ids]
    BY <2>1 DEF Types
  <2>7. Types'
    BY <1>2, <1>4, <2>4, <2>5, <2>6 DEF NotifyAck, Types
  <2> QED
    BY SMTT(60), <1>1, <1>3, <1>5, <2>2, <2>3, <2>7 DEF NotifyAck, NotifyAckDoes
<1>6. CASE ~recvd[p].fresh
  <2>1. Goto(p, "recv", "idle") /\ pending' = pending /\ out' = out
    BY <1>6 DEF NotifyAck
  <2>2. \A r \in Proc, u \in Thread :
          pc'[r][u] = IF r = p /\ u = "recv" THEN "idle" ELSE pc[r][u]
    BY <2>1, GotoIs DEF Thread
  <2>3. pc' \in [Proc -> [Thread -> Label]]
    BY <2>1, GotoTypes DEF Thread, Label, RecvLabel
  <2>4. Types'
    BY <1>2, <1>4, <2>1, <2>3 DEF NotifyAck, Types
  <2> QED
    BY <1>1, <1>3, <1>6, <2>1, <2>2, <2>4 DEF NotifyAck, NotifyAckDoes
<1> QED
  BY <1>5, <1>6

\* dlv takes a message out of pending_for_delivery_.
DeliverEraseDoes(p, id) ==
  /\ p \notin crashed
  /\ pc[p]["dlv"] = "idle"
  /\ id \in pending[p]
  /\ CanDeliver(p, id)
  /\ \A r \in Proc, u \in Thread :
       pc'[r][u] = IF r = p /\ u = "dlv"
                   THEN (IF Author(id) = p THEN "uncount" ELSE "insert") ELSE pc[r][u]
  /\ \A r \in Proc :
       /\ pending'[r] = IF r = p THEN pending[r] \ {id} ELSE pending[r]
       /\ dlvId'[r] = IF r = p THEN id ELSE dlvId[r]
  /\ UNCHANGED <<crashed, nSent, nOwn, queue, acks, delivered, fifo, log, link,
                 out, mainSeq, recvd, popped>>

\* DeliverPending's choice of a message has this effect and keeps the types.
LEMMA DeliverEraseIs ==
  ASSUME Types, NEW p \in Proc, NEW id \in Ids, DeliverErase(p, id)
  PROVE  DeliverEraseDoes(p, id) /\ Types'
<1>1. \A r \in Proc, u \in Thread :
        pc'[r][u] = IF r = p /\ u = "dlv"
                    THEN (IF Author(id) = p THEN "uncount" ELSE "insert") ELSE pc[r][u]
  BY GotoIs DEF DeliverErase, Thread
<1>2. \A r \in Proc : /\ pending'[r] = IF r = p THEN pending[r] \ {id} ELSE pending[r]
                      /\ dlvId'[r] = IF r = p THEN id ELSE dlvId[r]
  BY DEF DeliverErase, Types
<1>3. pc' \in [Proc -> [Thread -> Label]]
  BY GotoTypes DEF DeliverErase, Thread, Label, DlvLabel
<1>4. pending' \in [Proc -> SUBSET Ids] /\ dlvId' \in [Proc -> Ids \union {NoId}]
  BY DEF DeliverErase, Types
<1>5. Types'
  BY <1>3, <1>4 DEF DeliverErase, Types
<1> QED
  BY <1>1, <1>2, <1>5 DEF DeliverErase, DeliverEraseDoes

\* dlv uncounts an own message.
DeliverUncountDoes(p) ==
  /\ p \notin crashed
  /\ pc[p]["dlv"] = "uncount"
  /\ \A r \in Proc, u \in Thread :
       pc'[r][u] = IF r = p /\ u = "dlv"
                   THEN (IF nOwn[p] <= Ideal THEN "pop" ELSE "insert") ELSE pc[r][u]
  /\ \A r \in Proc : nOwn'[r] = IF r = p THEN nOwn[r] - 1 ELSE nOwn[r]
  /\ UNCHANGED <<crashed, nSent, queue, pending, acks, delivered, fifo, log, link,
                 out, mainSeq, recvd, dlvId, popped>>

\* Counting down the window has this effect and keeps the types.
LEMMA DeliverUncountIs ==
  ASSUME Types, NEW p \in Proc, DeliverUncount(p)
  PROVE  DeliverUncountDoes(p) /\ Types'
<1>1. \A r \in Proc, u \in Thread :
        pc'[r][u] = IF r = p /\ u = "dlv"
                    THEN (IF nOwn[p] <= Ideal THEN "pop" ELSE "insert") ELSE pc[r][u]
  BY GotoIs DEF DeliverUncount, Thread
<1>2. \A r \in Proc : nOwn'[r] = IF r = p THEN nOwn[r] - 1 ELSE nOwn[r]
  BY DEF DeliverUncount, Types
<1>3. pc' \in [Proc -> [Thread -> Label]]
  BY GotoTypes DEF DeliverUncount, Thread, Label, DlvLabel
<1>4. nOwn' \in [Proc -> Int]
  BY DEF DeliverUncount, Types
<1>5. Types'
  BY <1>3, <1>4 DEF DeliverUncount, Types
<1> QED
  BY <1>1, <1>2, <1>5 DEF DeliverUncount, DeliverUncountDoes

\* dlv pops the front of own_pending_for_broadcast_, if there is one.
DeliverPopDoes(p) ==
  /\ p \notin crashed
  /\ pc[p]["dlv"] = "pop"
  /\ \A r \in Proc, u \in Thread :
       pc'[r][u] = IF r = p /\ u = "dlv"
                   THEN (IF queue[p] = << >> THEN "insert" ELSE "recount") ELSE pc[r][u]
  /\ queue[p] = << >> => queue' = queue /\ popped' = popped
  /\ queue[p] # << >> => \A r \in Proc :
       /\ queue'[r] = IF r = p THEN Tail(queue[r]) ELSE queue[r]
       /\ popped'[r] = IF r = p THEN Head(queue[r]) ELSE popped[r]
  /\ UNCHANGED <<crashed, nSent, nOwn, pending, acks, delivered, fifo, log, link,
                 out, mainSeq, recvd, dlvId>>

\* The pop of the next own message has this effect and keeps the types.
LEMMA DeliverPopIs ==
  ASSUME Types, NEW p \in Proc, DeliverPop(p)
  PROVE  DeliverPopDoes(p) /\ Types'
<1>1. CASE queue[p] = << >>
  <2>1. Goto(p, "dlv", "insert") /\ queue' = queue /\ popped' = popped
    BY <1>1 DEF DeliverPop
  <2>2. pc' \in [Proc -> [Thread -> Label]]
    BY <2>1, GotoTypes DEF Thread, Label, DlvLabel
  <2>3. Types'
    BY <2>1, <2>2 DEF DeliverPop, Types
  <2> QED
    BY <1>1, <2>1, <2>3, GotoIs DEF Thread, DeliverPop, DeliverPopDoes
<1>2. CASE queue[p] # << >>
  <2>1. /\ Goto(p, "dlv", "recount")
        /\ queue' = [queue EXCEPT ![p] = Tail(@)] /\ popped' = [popped EXCEPT ![p] = Head(queue[p])]
    BY <1>2 DEF DeliverPop
  <2>2. pc' \in [Proc -> [Thread -> Label]]
    BY <2>1, GotoTypes DEF Thread, Label, DlvLabel
  <2>3. queue[p] \in Seq(Nat)
    BY DEF Types
  <2>4. Tail(queue[p]) \in Seq(Nat) /\ Head(queue[p]) \in Nat
    BY <1>2, <2>3, HeadTailProperties
  <2>5. queue' \in [Proc -> Seq(Nat)] /\ popped' \in [Proc -> Nat]
    BY <2>1, <2>4 DEF Types
  <2>6. Types'
    BY <2>2, <2>5 DEF DeliverPop, Types
  <2>7. \A r \in Proc : /\ queue'[r] = IF r = p THEN Tail(queue[r]) ELSE queue[r]
                        /\ popped'[r] = IF r = p THEN Head(queue[r]) ELSE popped[r]
    BY <2>1 DEF Types
  <2>8. \A r \in Proc, u \in Thread : pc'[r][u] = IF r = p /\ u = "dlv" THEN "recount" ELSE pc[r][u]
    BY <2>1, GotoIs DEF Thread
  <2> QED
    BY <1>2, <2>6, <2>7, <2>8 DEF DeliverPop, DeliverPopDoes
<1> QED
  BY <1>1, <1>2

\* dlv counts the message it popped and enters the best-effort broadcast.
DeliverSendNextDoes(p, id) ==
  /\ p \notin crashed
  /\ pc[p]["dlv"] = "recount"
  /\ id \in Ids /\ id = <<p, popped[p]>>
  /\ \A r \in Proc, u \in Thread :
       /\ pc'[r][u] = IF r = p /\ u = "dlv" THEN "sending" ELSE pc[r][u]
       /\ out'[r][u] = IF r = p /\ u = "dlv"
                       THEN [id |-> id, to |-> Peers(p)] ELSE out[r][u]
  /\ \A r \in Proc :
       /\ nOwn'[r] = IF r = p THEN nOwn[r] + 1 ELSE nOwn[r]
       /\ pending'[r] = IF r = p THEN pending[r] \union {id} ELSE pending[r]
       /\ popped'[r] = IF r = p THEN 0 ELSE popped[r]
  /\ UNCHANGED <<crashed, nSent, queue, acks, delivered, fifo, log, link, mainSeq,
                 recvd, dlvId>>

\* Sending the popped message has this effect and keeps the types.
LEMMA DeliverSendNextIs ==
  ASSUME Types, NEW p \in Proc, DeliverSendNext(p), NEW id, id = <<p, popped[p]>>, id \in Ids
  PROVE  DeliverSendNextDoes(p, id) /\ Types'
<1>1. \A r \in Proc, u \in Thread :
        /\ pc'[r][u] = IF r = p /\ u = "dlv" THEN "sending" ELSE pc[r][u]
        /\ out'[r][u] = IF r = p /\ u = "dlv" THEN [id |-> id, to |-> Peers(p)] ELSE out[r][u]
  BY GotoIs, StartSendingIs DEF DeliverSendNext, Thread
<1>2. \A r \in Proc :
        /\ nOwn'[r] = IF r = p THEN nOwn[r] + 1 ELSE nOwn[r]
        /\ pending'[r] = IF r = p THEN pending[r] \union {id} ELSE pending[r]
        /\ popped'[r] = IF r = p THEN 0 ELSE popped[r]
  BY DEF DeliverSendNext, Types
<1>3. pending' \in [Proc -> SUBSET Ids]
  BY DEF DeliverSendNext, Types
<1>4. out' \in [Proc -> [Thread -> [id : Ids \union {NoId}, to : SUBSET Proc]]]
  BY StartSendingTypes DEF DeliverSendNext, Thread
<1>5. pc' \in [Proc -> [Thread -> Label]]
  BY GotoTypes DEF DeliverSendNext, Thread, Label, DlvLabel
<1>6. Types'
  BY <1>3, <1>4, <1>5 DEF DeliverSendNext, Types
<1> QED
  BY <1>1, <1>2, <1>6 DEF DeliverSendNext, DeliverSendNextDoes

\* dlv delivers.
DeliverInsertDoes(p, id) ==
  /\ p \notin crashed
  /\ pc[p]["dlv"] = "insert"
  /\ id \in Ids /\ id = dlvId[p]
  /\ \A r \in Proc, u \in Thread :
       pc'[r][u] = IF r = p /\ u = "dlv" THEN "idle" ELSE pc[r][u]
  /\ \A r \in Proc :
       /\ dlvId'[r] = IF r = p THEN NoId ELSE dlvId[r]
       /\ \A i \in Ids : acks'[r][i] = IF r = p /\ i = id THEN {} ELSE acks[r][i]
  /\ delivered' = [delivered EXCEPT ![p][Author(id)] = Insert(@, SeqOf(id))]
  /\ fifo' = [fifo EXCEPT ![p][Author(id)] = DeliverInternal(@, SeqOf(id))]
  /\ log' = [log EXCEPT ![p][Author(id)] = @ \o Logged(fifo[p][Author(id)], SeqOf(id))]
  /\ UNCHANGED <<crashed, nSent, nOwn, queue, pending, link, out, mainSeq, recvd,
                 popped>>

\* The delivery itself has this effect and keeps the types.
LEMMA DeliverInsertIs ==
  ASSUME Types, NEW p \in Proc, DeliverInsert(p), NEW id \in Ids, id = dlvId[p]
  PROVE  DeliverInsertDoes(p, id) /\ Types'
<1>1. \A r \in Proc, u \in Thread :
        pc'[r][u] = IF r = p /\ u = "dlv" THEN "idle" ELSE pc[r][u]
  BY GotoIs DEF DeliverInsert, Thread
<1>2. acks' = [acks EXCEPT ![p][id] = {}] /\ dlvId' = [dlvId EXCEPT ![p] = NoId]
  BY DEF DeliverInsert
<1>3. \A r \in Proc :
        /\ dlvId'[r] = IF r = p THEN NoId ELSE dlvId[r]
        /\ \A i \in Ids : acks'[r][i] = IF r = p /\ i = id THEN {} ELSE acks[r][i]
  BY <1>2 DEF Types
<1>4. acks' \in [Proc -> [Ids -> SUBSET Proc]] /\ dlvId' \in [Proc -> Ids \union {NoId}]
  BY <1>2 DEF Types
<1>5. pc' \in [Proc -> [Thread -> Label]]
  BY GotoTypes DEF DeliverInsert, Thread, Label, DlvLabel
<1>6. Types'
  BY <1>4, <1>5 DEF DeliverInsert, Types
<1> QED
  BY <1>1, <1>3, <1>6 DEF DeliverInsert, DeliverInsertDoes

\* A process stops.
CrashDoes(p) ==
  /\ p \notin crashed
  /\ Cardinality(crashed) < MaxCrashes
  /\ crashed' = crashed \union {p}
  /\ \A r \in Proc, u \in Thread :
       /\ pc'[r][u] = IF r = p THEN "idle" ELSE pc[r][u]
       /\ out'[r][u] = IF r = p THEN NotSending ELSE out[r][u]
  /\ \A r, s \in Proc : link'[r][s] = IF s = p THEN {} ELSE link[r][s]
  /\ \A r \in Proc :
       /\ queue'[r] = IF r = p THEN << >> ELSE queue[r]
       /\ mainSeq'[r] = IF r = p THEN 0 ELSE mainSeq[r]
       /\ recvd'[r] = IF r = p THEN NotReceiving(p) ELSE recvd[r]
       /\ popped'[r] = IF r = p THEN 0 ELSE popped[r]
       /\ \A i \in Ids : acks'[r][i] = IF r = p THEN {} ELSE acks[r][i]
  /\ UNCHANGED <<nSent, nOwn, pending, delivered, fifo, log, dlvId>>

\* A crash has this effect and keeps the types.
LEMMA CrashIs ==
  ASSUME Types, NEW p \in Proc, Crash(p)
  PROVE  CrashDoes(p) /\ Types'
<1>1. ASSUME NEW r \in Proc, NEW u \in Thread
      PROVE  /\ pc'[r][u] = IF r = p THEN "idle" ELSE pc[r][u]
             /\ out'[r][u] = IF r = p THEN NotSending ELSE out[r][u]
  BY DEF Crash, Types
<1>2. ASSUME NEW r \in Proc, NEW s \in Proc
      PROVE  link'[r][s] = IF s = p THEN {} ELSE link[r][s]
  BY DEF Crash, Types
<1>3. ASSUME NEW r \in Proc
      PROVE  /\ queue'[r] = IF r = p THEN << >> ELSE queue[r]
             /\ mainSeq'[r] = IF r = p THEN 0 ELSE mainSeq[r]
             /\ recvd'[r] = IF r = p THEN NotReceiving(p) ELSE recvd[r]
             /\ popped'[r] = IF r = p THEN 0 ELSE popped[r]
  BY DEF Crash, Types
<1>4. ASSUME NEW r \in Proc, NEW i \in Ids
      PROVE  acks'[r][i] = IF r = p THEN {} ELSE acks[r][i]
  BY DEF Crash, Types
<1>5. crashed' \in SUBSET Proc /\ Cardinality(crashed') <= MaxCrashes
  <2>1. IsFiniteSet(crashed) /\ Cardinality(crashed) \in Nat /\ MaxCrashes \in Nat
    BY FS_Subset, FS_CardinalityType, SystemAssumption DEF Types
  <2>2. p \notin crashed /\ Cardinality(crashed) < MaxCrashes /\ crashed' = crashed \union {p}
    BY DEF Crash
  <2>3. Cardinality(crashed \union {p}) = Cardinality(crashed) + 1
    BY <2>1, <2>2, FS_AddElement
  <2> QED
    BY <2>1, <2>2, <2>3 DEF Types
<1>6. /\ pc' \in [Proc -> [Thread -> Label]]
      /\ out' \in [Proc -> [Thread -> [id : Ids \union {NoId}, to : SUBSET Proc]]]
  <2>1. NotSending \in [id : Ids \union {NoId}, to : SUBSET Proc] /\ "idle" \in Label
    BY DEF NotSending, Label, MainLabel
  <2> QED
    BY <2>1 DEF Crash, Types
<1>7. recvd' \in [Proc -> [id : Ids \union {NoId}, sender : Proc, fresh : BOOLEAN]]
  <2>1. NotReceiving(p) \in [id : Ids \union {NoId}, sender : Proc, fresh : BOOLEAN]
    BY DEF NotReceiving
  <2> QED
    BY <2>1 DEF Crash, Types
<1>8. link' \in [Proc -> [Proc -> SUBSET Ids]] /\ acks' \in [Proc -> [Ids -> SUBSET Proc]]
  BY DEF Crash, Types
<1>9. /\ queue' \in [Proc -> Seq(Nat)]
      /\ mainSeq' \in [Proc -> Nat] /\ popped' \in [Proc -> Nat]
  BY DEF Crash, Types
<1>10. Types'
  BY <1>5, <1>6, <1>7, <1>8, <1>9 DEF Crash, Types
<1> QED
  BY <1>1, <1>2, <1>3, <1>4, <1>10 DEF Crash, CrashDoes

\* The number that main counts, or that dlv popped, is one of a message.
LEMMA OwnIds ==
  ASSUME Types, NEW p \in Proc, MainOK(p), DlvOK(p), Numbers(p)
  PROVE  /\ pc[p]["main"] \in {"push", "count"} => <<p, mainSeq[p]>> \in Ids
         /\ pc[p]["dlv"] = "recount" => <<p, popped[p]>> \in Ids
<1>1. MsgCount[p] \in Nat /\ mainSeq[p] \in Nat /\ popped[p] \in Nat /\ nSent[p] \in Nat
  BY SystemAssumption DEF Types
<1>2. nSent[p] <= MsgCount[p] + 1 /\ mainSeq[p] < nSent[p] /\ popped[p] < nSent[p]
  BY <1>1 DEF Numbers
<1>3. ASSUME NEW s \in Nat, s # 0, s < nSent[p] PROVE <<p, s>> \in Ids
  BY <1>1, <1>2, <1>3, IdsAre
<1> QED
  BY <1>1, <1>2, <1>3 DEF MainOK, DlvOK

\* Every step does what one of these says.
AnyStep ==
  \/ \E p, q \in Proc, t \in Thread : SendOnLinkDoes(p, t, q)
  \/ \E p \in Proc : \/ SendDoes(p)
                     \/ SendQueueDoes(p)
                     \/ DeliverUncountDoes(p)
                     \/ DeliverPopDoes(p)
                     \/ CrashDoes(p)
  \/ \E p \in Proc, id \in Ids : \/ SendInternalDoes(p, id)
                                 \/ NotifyAckDoes(p, id)
                                 \/ DeliverEraseDoes(p, id)
                                 \/ DeliverSendNextDoes(p, id)
                                 \/ DeliverInsertDoes(p, id)
  \/ \E p, q \in Proc, id \in Ids : ReceiveDoes(p, q, id)
  \/ UNCHANGED vars

\* The steps of the specification, from a state that satisfies BaseInv.
LEMMA Steps == ASSUME BaseInv, [Next]_vars PROVE AnyStep /\ Types'
<1>0. Types
  BY DEF BaseInv
<1>1. ASSUME NEW p \in Proc, NEW t \in Thread, NEW q \in Proc, SendOnLink(p, t, q)
      PROVE  AnyStep /\ Types'
  <2>1. out[p][t].id \in Ids
    BY <1>1 DEF SendOnLink, BaseInv, Sending
  <2> QED
    BY <1>0, <1>1, <2>1, SendOnLinkIs DEF AnyStep
<1>2. ASSUME NEW p \in Proc, Send(p) \/ SendQueue(p) PROVE AnyStep /\ Types'
  BY <1>0, <1>2, SendIs, SendQueueIs DEF AnyStep
<1>3. ASSUME NEW p \in Proc, SendInternal(p) PROVE AnyStep /\ Types'
  <2>1. <<p, mainSeq[p]>> \in Ids
    BY <1>3, OwnIds DEF SendInternal, BaseInv
  <2> QED
    BY <1>0, <1>3, <2>1, SendInternalIs DEF AnyStep
<1>4. ASSUME NEW p \in Proc, NEW q \in Proc, NEW id \in Ids, Receive(p, q, id)
      PROVE  AnyStep /\ Types'
  BY <1>0, <1>4, ReceiveIs DEF AnyStep
<1>5. ASSUME NEW p \in Proc, NotifyAck(p) PROVE AnyStep /\ Types'
  <2>1. recvd[p].id \in Ids
    BY <1>5 DEF NotifyAck, BaseInv, RecvOK
  <2> QED
    BY <1>0, <1>5, <2>1, NotifyAckIs DEF AnyStep
<1>6. ASSUME NEW p \in Proc, NEW id \in Ids, DeliverErase(p, id) PROVE AnyStep /\ Types'
  BY <1>0, <1>6, DeliverEraseIs DEF AnyStep
<1>7. ASSUME NEW p \in Proc, DeliverUncount(p) \/ DeliverPop(p) PROVE AnyStep /\ Types'
  BY <1>0, <1>7, DeliverUncountIs, DeliverPopIs DEF AnyStep
<1>8. ASSUME NEW p \in Proc, DeliverSendNext(p) PROVE AnyStep /\ Types'
  <2>1. <<p, popped[p]>> \in Ids
    BY <1>8, OwnIds DEF DeliverSendNext, BaseInv
  <2> QED
    BY <1>0, <1>8, <2>1, DeliverSendNextIs DEF AnyStep
<1>9. ASSUME NEW p \in Proc, DeliverInsert(p) PROVE AnyStep /\ Types'
  <2>1. dlvId[p] \in Ids
    BY <1>9 DEF DeliverInsert, BaseInv, DlvOK
  <2> QED
    BY <1>0, <1>9, <2>1, DeliverInsertIs DEF AnyStep
<1>10. ASSUME NEW p \in Proc, Crash(p) PROVE AnyStep /\ Types'
  BY <1>0, <1>10, CrashIs DEF AnyStep
<1>11. CASE UNCHANGED vars
  BY <1>0, <1>11 DEF AnyStep, vars, Types
<1> QED
  BY <1>1, <1>2, <1>3, <1>4, <1>5, <1>6, <1>7, <1>8, <1>9, <1>10, <1>11
     DEF Next, MainStep, NotifyStep, DeliverStep, Thread

\* A step keeps the types, the local variables of the threads and the numbers
\* as BaseInv says.
LEMMA BaseStep == BaseInv /\ [Next]_vars => BaseInv'
<1> SUFFICES ASSUME BaseInv, [Next]_vars PROVE BaseInv'
  OBVIOUS
<1> DEFINE Local(r) == /\ \A t \in Thread : Sending(r, t)
                       /\ MainOK(r) /\ RecvOK(r) /\ DlvOK(r)
                       /\ Stopped(r) /\ NotToSelf(r) /\ Numbers(r)
<1>0. Types /\ \A r \in Proc : Local(r)
  BY DEF BaseInv
<1>b. Types
  BY <1>0
<1>c. AnyStep /\ Types'
  BY Steps
<1>a. ASSUME Types', \A r \in Proc : Local(r)' PROVE BaseInv'
  BY <1>a DEF BaseInv
<1>1. ASSUME NEW p \in Proc, NEW t \in Thread, NEW q \in Proc, SendOnLinkDoes(p, t, q)
      PROVE  BaseInv'
  <2>1. pc[p][t] = "sending" /\ q \in out[p][t].to /\ out[p][t].id \in Ids
        /\ p # q /\ p \notin crashed
    BY <1>0, <1>1 DEF SendOnLinkDoes, Sending, Peers
  <2>2. SendOnLinkDoes(p, t, q) /\ Types'
    BY <1>1, <1>c
  <2>3. ASSUME NEW r \in Proc PROVE Local(r)'
    <3>1. /\ \A u \in Thread :
              /\ pc'[r][u] = IF r = p /\ u = t /\ out[p][t].to = {q}
                             THEN AfterSending(t) ELSE pc[r][u]
              /\ out'[r][u].id = IF r = p /\ u = t /\ out[p][t].to = {q}
                                 THEN NoId ELSE out[r][u].id
              /\ out'[r][u].to = IF r = p /\ u = t
                                 THEN out[r][u].to \ {q} ELSE out[r][u].to
          /\ link'[r][r] = link[r][r]
      <4>1. \A s \in Proc : link'[r][s] = IF r = p /\ s = q
                                           THEN link[r][s] \union {out[p][t].id} ELSE link[r][s]
        BY <2>2 DEF SendOnLinkDoes
      <4>2. link'[r][r] = link[r][r]
        BY <2>1, <4>1
      <4> QED
        BY <2>2, <4>2 DEF SendOnLinkDoes
    <3>2. ASSUME NEW u \in Thread PROVE Sending(r, u)'
      BY ZenonT(60), <1>0, <2>1, <3>1, IdsAre DEF Sending, AfterSending
    <3>3. UNCHANGED <<crashed, mainSeq, recvd, dlvId, popped, nSent, queue, acks>>
      BY <2>2 DEF SendOnLinkDoes
    <3>4. MainOK(r)' /\ RecvOK(r)'
      BY <1>0, <2>1, <3>1, <3>3 DEF MainOK, RecvOK, AfterSending, MainLabel, RecvLabel, Thread
    <3>5. DlvOK(r)' /\ Stopped(r)'
      BY <1>0, <2>1, <3>1, <3>3 DEF DlvOK, Stopped, AfterSending, DlvLabel, Thread
    <3>6. NotToSelf(r)' /\ Numbers(r)'
      BY <1>0, <3>1, <3>3 DEF NotToSelf, Numbers
    <3> QED
      BY <3>2, <3>4, <3>5, <3>6
  <2> QED
    BY <1>a, <2>2, <2>3
<1>2. ASSUME NEW p \in Proc, SendDoes(p) PROVE BaseInv'
  <2>1. SendDoes(p) /\ Types'
    BY <1>2, <1>c
  <2>2. p \notin crashed /\ nSent[p] <= MsgCount[p] /\ pc[p]["main"] = "idle"
    BY <2>1 DEF SendDoes
  <2>3. ASSUME NEW r \in Proc PROVE Local(r)'
    <3>1. /\ \A u \in Thread : pc'[r][u] = IF r = p /\ u = "main" THEN pc'[p]["main"] ELSE pc[r][u]
          /\ pc'[p]["main"] \in {"push", "count"}
          /\ nSent'[r] = IF r = p THEN nSent[r] + 1 ELSE nSent[r]
          /\ mainSeq'[r] = IF r = p THEN nSent[r] ELSE mainSeq[r]
      BY <2>1 DEF SendDoes, Thread
    <3>2. UNCHANGED <<crashed, queue, acks, link, out, recvd, dlvId, popped>>
      BY <2>1 DEF SendDoes
    <3>3. ASSUME NEW u \in Thread PROVE Sending(r, u)'
      BY <1>0, <2>2, <3>1, <3>2 DEF Sending
    <3>4. nSent[r] \in Nat \ {0} /\ MsgCount[r] \in Nat /\ popped[r] \in Nat
      BY <1>0, SystemAssumption DEF Numbers, Types
    <3>5. Numbers(r)'
      <4>1. nSent'[r] \in 1..(MsgCount[r] + 1) /\ mainSeq'[r] < nSent'[r] /\ popped'[r] < nSent'[r]
        BY <1>0, <2>2, <3>1, <3>2, <3>4 DEF Numbers
      <4>2. \A i \in DOMAIN queue'[r] : queue'[r][i] \in 1..(nSent'[r] - 1)
        BY <1>0, <3>1, <3>2, <3>4 DEF Numbers
      <4> QED
        BY <4>1, <4>2 DEF Numbers
    <3>6. MainOK(r)'
      BY <1>0, <3>1, <3>4 DEF MainOK, MainLabel, Thread
    <3>7. RecvOK(r)' /\ DlvOK(r)' /\ Stopped(r)' /\ NotToSelf(r)'
      BY <1>0, <2>2, <3>1, <3>2 DEF RecvOK, DlvOK, Stopped, NotToSelf, Thread
    <3> QED
      BY <3>3, <3>5, <3>6, <3>7
  <2> QED
    BY <1>a, <2>1, <2>3
<1>3. ASSUME NEW p \in Proc, SendQueueDoes(p) PROVE BaseInv'
  <2>1. SendQueueDoes(p) /\ Types'
    BY <1>3, <1>c
  <2>2. p \notin crashed /\ mainSeq[p] # 0 /\ mainSeq[p] \in Nat /\ mainSeq[p] < nSent[p]
        /\ pc[p]["main"] = "push"
    BY <1>0, <1>3 DEF SendQueueDoes, MainOK, Numbers, Types
  <2>3. ASSUME NEW r \in Proc PROVE Local(r)'
    <3>1. /\ \A u \in Thread : pc'[r][u] = IF r = p /\ u = "main" THEN "idle" ELSE pc[r][u]
          /\ queue'[r] = IF r = p THEN Append(queue[r], mainSeq[r]) ELSE queue[r]
          /\ mainSeq'[r] = IF r = p THEN 0 ELSE mainSeq[r]
          /\ popped'[r] = popped[r] \/ (r = p /\ popped[r] # 0 /\ popped'[r] = mainSeq[r])
      BY <2>1 DEF SendQueueDoes
    <3>2. UNCHANGED <<crashed, nSent, acks, link, out, recvd, dlvId>>
      BY <2>1 DEF SendQueueDoes
    <3>3. ASSUME NEW u \in Thread PROVE Sending(r, u)'
      BY <1>0, <2>2, <3>1, <3>2 DEF Sending
    <3>4. queue[r] \in Seq(Nat) /\ nSent[r] \in Nat
      BY <1>0 DEF Types
    <3>5. Numbers(r)'
      <4>1. \A i \in DOMAIN queue'[r] : queue'[r][i] \in 1..(nSent[r] - 1)
        <5>1. \A i \in DOMAIN queue[r] : queue[r][i] \in 1..(nSent[r] - 1)
          BY <1>0 DEF Numbers
        <5>2. CASE r = p
          <6>1. queue'[r] = Append(queue[r], mainSeq[r]) /\ mainSeq[r] \in 1..(nSent[r] - 1)
            BY <2>2, <3>1, <3>4, <5>2
          <6>2. ASSUME NEW i \in DOMAIN queue'[r] PROVE queue'[r][i] \in 1..(nSent[r] - 1)
            <7>1. i \in 1..(Len(queue[r]) + 1) /\ DOMAIN queue[r] = 1..Len(queue[r])
              BY <2>2, <3>4, <5>2, <6>1
            <7>2. queue'[r][i] = IF i = Len(queue[r]) + 1 THEN mainSeq[r] ELSE queue[r][i]
              BY <2>2, <3>4, <5>2, <6>1, <7>1
            <7> QED
              BY <5>1, <6>1, <7>1, <7>2
          <6> QED
            BY <6>2
        <5> QED
          BY <3>1, <5>1, <5>2
      <4>2. nSent'[r] \in 1..(MsgCount[r] + 1) /\ mainSeq'[r] < nSent'[r] /\ popped'[r] < nSent'[r]
        BY <1>0, <2>2, <3>1, <3>2, <3>4 DEF Numbers
      <4> QED
        BY <3>2, <4>1, <4>2 DEF Numbers
    <3>6. MainOK(r)'
      BY <1>0, <3>1 DEF MainOK, MainLabel, Thread
    <3>7. DlvOK(r)'
      BY <1>0, <2>2, <3>1, <3>2 DEF DlvOK, Thread
    <3>8. RecvOK(r)' /\ Stopped(r)' /\ NotToSelf(r)'
      BY <1>0, <2>2, <3>1, <3>2 DEF RecvOK, Stopped, NotToSelf, Thread
    <3> QED
      BY <3>3, <3>5, <3>6, <3>7, <3>8
  <2> QED
    BY <1>a, <2>1, <2>3
<1>4. ASSUME NEW p \in Proc, NEW id \in Ids, SendInternalDoes(p, id) PROVE BaseInv'
  <2>1. p \notin crashed /\ id = <<p, mainSeq[p]>> /\ id \in Ids /\ pc[p]["main"] = "count"
    BY <1>0, <1>4 DEF SendInternalDoes
  <2>2. SendInternalDoes(p, id) /\ Types'
    BY <1>4, <1>c
  <2>3. ASSUME NEW r \in Proc PROVE Local(r)'
    <3>1. /\ \A u \in Thread :
              /\ pc'[r][u] = IF r = p /\ u = "main" THEN "sending" ELSE pc[r][u]
              /\ out'[r][u] = IF r = p /\ u = "main" THEN [id |-> id, to |-> Peers(p)]
                              ELSE out[r][u]
          /\ mainSeq'[r] = IF r = p THEN 0 ELSE mainSeq[r]
      BY <2>2, <2>1 DEF SendInternalDoes
    <3>2. UNCHANGED <<crashed, nSent, queue, acks, link, recvd, dlvId, popped>>
      BY <2>2 DEF SendInternalDoes
    <3>3. ASSUME NEW u \in Thread PROVE Sending(r, u)'
      BY <1>0, <2>1, <3>1, HasPeers DEF Sending
    <3>4. nSent[r] \in Nat \ {0}
      BY <1>0, SystemAssumption DEF Numbers
    <3>5. MainOK(r)' /\ Numbers(r)'
      BY <1>0, <3>1, <3>2, <3>4 DEF MainOK, MainLabel, Numbers, Thread
    <3>6. DlvOK(r)' /\ RecvOK(r)' /\ Stopped(r)' /\ NotToSelf(r)'
      BY <1>0, <2>1, <3>1, <3>2 DEF DlvOK, RecvOK, Stopped, NotToSelf, Thread
    <3> QED
      BY <3>3, <3>5, <3>6
  <2> QED
    BY <1>a, <2>2, <2>3
<1>5. ASSUME NEW p \in Proc, NEW q \in Proc, NEW id \in Ids, ReceiveDoes(p, q, id) PROVE BaseInv'
  <2>1. ReceiveDoes(p, q, id) /\ Types'
    BY <1>5, <1>c
  <2>2. p \notin crashed /\ pc[p]["recv"] = "idle" /\ id \in link[q][p] /\ q # p
    BY <1>0, <1>5 DEF ReceiveDoes, NotToSelf
  <2>3. UNCHANGED <<crashed, nSent, queue, acks, out, mainSeq, dlvId, popped>>
    BY <2>1 DEF ReceiveDoes
  <2>4. ASSUME NEW r \in Proc PROVE Local(r)'
    <3>1. link'[r][r] = link[r][r]
      BY <2>1, <2>2 DEF ReceiveDoes
    <3>2. NotToSelf(r)' /\ Numbers(r)'
      BY <1>0, <2>3, <3>1 DEF NotToSelf, Numbers
    <3>3. CASE DeliveredAt(p, id)
      <4>1. recvd' = recvd /\ pc' = pc
        BY <2>1, <3>3 DEF ReceiveDoes
      <4>2. \A u \in Thread : Sending(r, u)'
        BY <1>0, <2>3, <4>1 DEF Sending
      <4> QED
        BY <1>0, <2>3, <3>2, <4>1, <4>2 DEF MainOK, RecvOK, DlvOK, Stopped
    <3>4. CASE ~DeliveredAt(p, id)
      <4>1. /\ \A u \in Thread : pc'[r][u] = IF r = p /\ u = "recv" THEN "ack" ELSE pc[r][u]
            /\ recvd'[r] = IF r = p THEN [id |-> id, sender |-> q, fresh |-> id \notin pending[p]]
                           ELSE recvd[r]
        BY <2>1, <3>4 DEF ReceiveDoes
      <4>2. \A u \in Thread : Sending(r, u)'
        BY <1>0, <2>2, <2>3, <4>1 DEF Sending
      <4>3. RecvOK(r)'
        BY <1>0, <2>2, <4>1 DEF RecvOK, RecvLabel, Thread
      <4>4. MainOK(r)' /\ DlvOK(r)' /\ Stopped(r)'
        BY <1>0, <2>2, <2>3, <4>1 DEF MainOK, DlvOK, Stopped, Thread
      <4> QED
        BY <3>2, <4>2, <4>3, <4>4
    <3> QED
      BY <3>3, <3>4
  <2> QED
    BY <1>a, <2>1, <2>4
<1>6. ASSUME NEW p \in Proc, NEW id \in Ids, NotifyAckDoes(p, id) PROVE BaseInv'
  <2>1. /\ p \notin crashed /\ id \in Ids /\ id = recvd[p].id /\ pc[p]["recv"] = "ack"
        /\ recvd[p].sender # p
    BY <1>0, <1>6 DEF NotifyAckDoes, RecvOK
  <2>2. NotifyAckDoes(p, id) /\ Types'
    BY <1>6, <1>c
  <2>3. UNCHANGED <<crashed, nSent, nOwn, queue, link, mainSeq, dlvId, popped>>
    BY <2>2 DEF NotifyAckDoes
  <2>4. ASSUME NEW r \in Proc PROVE Local(r)'
    <3>1. \A u \in Thread :
            /\ pc'[r][u] = IF r = p /\ u = "recv"
                           THEN (IF recvd[p].fresh THEN "sending" ELSE "idle") ELSE pc[r][u]
            /\ out'[r][u] = IF r = p /\ u = "recv" /\ recvd[p].fresh
                            THEN [id |-> id, to |-> Peers(p)] ELSE out[r][u]
      BY <2>2, <2>1 DEF NotifyAckDoes
    <3>2. /\ recvd'[r] = IF r = p THEN NotReceiving(p) ELSE recvd[r]
          /\ \A i \in Ids : acks'[r][i] = IF r = p /\ i = id
                                          THEN acks[r][i] \union {recvd[p].sender} ELSE acks[r][i]
      BY <2>2, <2>1 DEF NotifyAckDoes
    <3>3. ASSUME NEW u \in Thread PROVE Sending(r, u)'
      BY <1>0, <2>1, <3>1, HasPeers DEF Sending
    <3>4. RecvOK(r)'
      BY <1>0, <3>1, <3>2, IdsAre DEF RecvOK, RecvLabel, Thread, NotReceiving
    <3>5. NotToSelf(r)' /\ Numbers(r)'
      <4>0. link[r][r] = {} /\ \A i \in Ids : r \notin acks[r][i]
        BY <1>0 DEF NotToSelf
      <4>1. NotToSelf(r)'
        BY <2>1, <2>3, <3>2, <4>0 DEF NotToSelf
      <4>2. Numbers(r)'
        BY <1>0, <2>3 DEF Numbers
      <4> QED
        BY <4>1, <4>2
    <3>6. MainOK(r)' /\ DlvOK(r)' /\ Stopped(r)'
      BY <1>0, <2>1, <2>3, <3>1 DEF MainOK, DlvOK, Stopped, Thread
    <3> QED
      BY <3>3, <3>4, <3>5, <3>6
  <2> QED
    BY <1>a, <2>2, <2>4
<1>7. ASSUME NEW p \in Proc, NEW id \in Ids, DeliverEraseDoes(p, id) PROVE BaseInv'
  <2>1. DeliverEraseDoes(p, id) /\ Types'
    BY <1>7, <1>c
  <2>2. p \notin crashed /\ pc[p]["dlv"] = "idle"
    BY <2>1 DEF DeliverEraseDoes
  <2>3. UNCHANGED <<crashed, nSent, queue, acks, link, out, mainSeq, recvd, popped>>
    BY <2>1 DEF DeliverEraseDoes
  <2>4. ASSUME NEW r \in Proc PROVE Local(r)'
    <3>1. /\ \A u \in Thread :
               pc'[r][u] = IF r = p /\ u = "dlv"
                           THEN (IF Author(id) = p THEN "uncount" ELSE "insert") ELSE pc[r][u]
          /\ dlvId'[r] = IF r = p THEN id ELSE dlvId[r]
      BY <2>1 DEF DeliverEraseDoes
    <3>2. \A u \in Thread : Sending(r, u)'
      BY <1>0, <2>2, <2>3, <3>1 DEF Sending
    <3>3. DlvOK(r)'
      BY <1>0, <2>2, <2>3, <3>1 DEF DlvOK, DlvLabel, Thread
    <3>4. MainOK(r)' /\ RecvOK(r)' /\ Stopped(r)' /\ NotToSelf(r)' /\ Numbers(r)'
      BY <1>0, <2>2, <2>3, <3>1 DEF MainOK, RecvOK, Stopped, NotToSelf, Numbers, Thread
    <3> QED
      BY <3>2, <3>3, <3>4
  <2> QED
    BY <1>a, <2>1, <2>4
<1>8. ASSUME NEW p \in Proc, DeliverUncountDoes(p) PROVE BaseInv'
  <2>1. DeliverUncountDoes(p) /\ Types'
    BY <1>8, <1>c
  <2>2. p \notin crashed /\ pc[p]["dlv"] = "uncount"
    BY <2>1 DEF DeliverUncountDoes
  <2>3. UNCHANGED <<crashed, nSent, queue, acks, link, out, mainSeq, recvd, dlvId, popped>>
    BY <2>1 DEF DeliverUncountDoes
  <2>4. ASSUME NEW r \in Proc PROVE Local(r)'
    <3>1. \A u \in Thread :
            pc'[r][u] = IF r = p /\ u = "dlv"
                        THEN (IF nOwn[p] <= Ideal THEN "pop" ELSE "insert") ELSE pc[r][u]
      BY <2>1 DEF DeliverUncountDoes
    <3>2. \A u \in Thread : Sending(r, u)'
      BY <1>0, <2>2, <2>3, <3>1 DEF Sending
    <3>3. DlvOK(r)'
      BY <1>0, <2>2, <2>3, <3>1 DEF DlvOK, DlvLabel, Thread
    <3>4. MainOK(r)' /\ RecvOK(r)' /\ Stopped(r)' /\ NotToSelf(r)' /\ Numbers(r)'
      BY <1>0, <2>2, <2>3, <3>1 DEF MainOK, RecvOK, Stopped, NotToSelf, Numbers, Thread
    <3> QED
      BY <3>2, <3>3, <3>4
  <2> QED
    BY <1>a, <2>1, <2>4
<1>9. ASSUME NEW p \in Proc, DeliverPopDoes(p) PROVE BaseInv'
  <2>1. DeliverPopDoes(p) /\ Types'
    BY <1>9, <1>c
  <2>2. p \notin crashed /\ pc[p]["dlv"] = "pop"
    BY <2>1 DEF DeliverPopDoes
  <2>3. UNCHANGED <<crashed, nSent, acks, link, out, mainSeq, recvd, dlvId>>
    BY <2>1 DEF DeliverPopDoes
  <2>4. ASSUME NEW r \in Proc PROVE Local(r)'
    <3>1. /\ \A u \in Thread :
               pc'[r][u] = IF r = p /\ u = "dlv"
                           THEN (IF queue[p] = << >> THEN "insert" ELSE "recount") ELSE pc[r][u]
          /\ queue[p] = << >> => queue' = queue /\ popped' = popped
          /\ queue[p] # << >> => /\ queue'[r] = IF r = p THEN Tail(queue[r]) ELSE queue[r]
                                 /\ popped'[r] = IF r = p THEN Head(queue[r]) ELSE popped[r]
      BY <2>1 DEF DeliverPopDoes
    <3>2. \A u \in Thread : Sending(r, u)'
      BY <1>0, <2>2, <2>3, <3>1 DEF Sending
    <3>3. /\ popped'[p] # 0 <=> queue[p] # << >>
          /\ \A i \in DOMAIN queue'[r] : queue'[r][i] \in 1..(nSent[r] - 1)
          /\ popped'[r] < nSent[r]
      <4>1. /\ queue[r] \in Seq(Nat) /\ nSent[r] \in Nat
            /\ \A i \in DOMAIN queue[r] : queue[r][i] \in 1..(nSent[r] - 1)
            /\ popped[p] = 0 /\ popped[r] < nSent[r]
        BY <1>0, <2>2 DEF Types, Numbers, DlvOK
      <4>2. CASE queue[p] = << >>
        BY <3>1, <4>1, <4>2
      <4>3. CASE queue[p] # << >> /\ r # p
        <5>1. queue'[r] = queue[r] /\ popped'[r] = popped[r]
          BY <3>1, <4>3
        <5>2. popped'[p] = Head(queue[p]) /\ queue[p] \in Seq(Nat) /\ queue[p] # << >>
              /\ \A i \in DOMAIN queue[p] : queue[p][i] \in 1..(nSent[p] - 1)
          BY <2>1, <1>0, <4>3 DEF DeliverPopDoes, Types, Numbers
        <5>3. 1 \in DOMAIN queue[p] /\ Head(queue[p]) = queue[p][1]
          BY <5>2
        <5> QED
          BY <4>1, <4>3, <5>1, <5>2, <5>3
      <4>4. CASE queue[p] # << >> /\ r = p
        <5>1. queue'[r] = Tail(queue[r]) /\ popped'[r] = Head(queue[r])
          BY <3>1, <4>4
        <5>2. 1 \in DOMAIN queue[r] /\ Head(queue[r]) = queue[r][1]
          BY <4>1, <4>4
        <5>3. \A i \in DOMAIN Tail(queue[r]) : i + 1 \in DOMAIN queue[r]
                /\ Tail(queue[r])[i] = queue[r][i + 1]
          BY <4>1, <4>4
        <5> QED
          BY <4>1, <4>4, <5>1, <5>2, <5>3
      <4> QED
        BY <4>2, <4>3, <4>4
    <3>4. DlvOK(r)'
      <4>1. r # p => popped'[r] = popped[r]
        BY <3>1
      <4> QED
        BY <1>0, <2>2, <2>3, <3>1, <3>3, <4>1 DEF DlvOK, DlvLabel, Thread
    <3>5. MainOK(r)' /\ RecvOK(r)' /\ Stopped(r)' /\ NotToSelf(r)' /\ Numbers(r)'
      BY <1>0, <2>2, <2>3, <3>1, <3>3 DEF MainOK, RecvOK, Stopped, NotToSelf, Numbers, Thread
    <3> QED
      BY <3>2, <3>4, <3>5
  <2> QED
    BY <1>a, <2>1, <2>4
<1>10. ASSUME NEW p \in Proc, NEW id \in Ids, DeliverSendNextDoes(p, id) PROVE BaseInv'
  <2>1. p \notin crashed /\ id = <<p, popped[p]>> /\ id \in Ids /\ pc[p]["dlv"] = "recount"
    BY <1>0, <1>10 DEF DeliverSendNextDoes
  <2>2. DeliverSendNextDoes(p, id) /\ Types'
    BY <1>10, <1>c
  <2>3. UNCHANGED <<crashed, nSent, queue, acks, link, mainSeq, recvd, dlvId>>
    BY <2>2 DEF DeliverSendNextDoes
  <2>4. ASSUME NEW r \in Proc PROVE Local(r)'
    <3>1. /\ \A u \in Thread :
              /\ pc'[r][u] = IF r = p /\ u = "dlv" THEN "sending" ELSE pc[r][u]
              /\ out'[r][u] = IF r = p /\ u = "dlv" THEN [id |-> id, to |-> Peers(p)] ELSE out[r][u]
          /\ popped'[r] = IF r = p THEN 0 ELSE popped[r]
      BY <2>2, <2>1 DEF DeliverSendNextDoes
    <3>2. ASSUME NEW u \in Thread PROVE Sending(r, u)'
      BY <1>0, <2>1, <3>1, HasPeers DEF Sending
    <3>3. nSent[r] \in Nat \ {0}
      BY <1>0, SystemAssumption DEF Numbers
    <3>4. DlvOK(r)' /\ Numbers(r)'
      BY <1>0, <2>1, <2>3, <3>1, <3>3 DEF DlvOK, DlvLabel, Numbers, Thread
    <3>5. MainOK(r)' /\ RecvOK(r)' /\ Stopped(r)' /\ NotToSelf(r)'
      BY <1>0, <2>1, <2>3, <3>1 DEF MainOK, RecvOK, Stopped, NotToSelf, Thread
    <3> QED
      BY <3>2, <3>4, <3>5
  <2> QED
    BY <1>a, <2>2, <2>4
<1>11. ASSUME NEW p \in Proc, NEW id \in Ids, DeliverInsertDoes(p, id) PROVE BaseInv'
  <2>1. p \notin crashed /\ id = dlvId[p] /\ id \in Ids /\ pc[p]["dlv"] = "insert"
    BY <1>0, <1>11 DEF DeliverInsertDoes, DlvOK
  <2>2. DeliverInsertDoes(p, id) /\ Types'
    BY <1>11, <1>c
  <2>3. UNCHANGED <<crashed, nSent, queue, link, out, mainSeq, recvd, popped>>
    BY <2>2 DEF DeliverInsertDoes
  <2>4. ASSUME NEW r \in Proc PROVE Local(r)'
    <3>1. /\ \A u \in Thread : pc'[r][u] = IF r = p /\ u = "dlv" THEN "idle" ELSE pc[r][u]
          /\ dlvId'[r] = IF r = p THEN NoId ELSE dlvId[r]
          /\ \A i \in Ids : acks'[r][i] = IF r = p /\ i = id THEN {} ELSE acks[r][i]
      BY <2>2, <2>1 DEF DeliverInsertDoes
    <3>2. \A u \in Thread : Sending(r, u)'
      BY <1>0, <2>1, <2>3, <3>1 DEF Sending
    <3>3. DlvOK(r)'
      BY <1>0, <2>1, <2>3, <3>1, IdsAre DEF DlvOK, DlvLabel, Thread
    <3>4. MainOK(r)' /\ RecvOK(r)' /\ Stopped(r)' /\ NotToSelf(r)' /\ Numbers(r)'
      BY <1>0, <2>1, <2>3, <3>1 DEF MainOK, RecvOK, Stopped, NotToSelf, Numbers, Thread
    <3> QED
      BY <3>2, <3>3, <3>4
  <2> QED
    BY <1>a, <2>2, <2>4
<1>12. ASSUME NEW p \in Proc, CrashDoes(p) PROVE BaseInv'
  <2>1. CrashDoes(p) /\ Types'
    BY <1>12, <1>c
  <2>2. nSent' = nSent /\ dlvId' = dlvId /\ crashed' = crashed \union {p}
    BY <2>1 DEF CrashDoes
  <2>3. ASSUME NEW r \in Proc PROVE Local(r)'
    <3>1. /\ \A u \in Thread :
              /\ pc'[r][u] = IF r = p THEN "idle" ELSE pc[r][u]
              /\ out'[r][u] = IF r = p THEN NotSending ELSE out[r][u]
          /\ link'[r][r] = IF r = p THEN {} ELSE link[r][r]
          /\ queue'[r] = IF r = p THEN << >> ELSE queue[r]
          /\ mainSeq'[r] = IF r = p THEN 0 ELSE mainSeq[r]
          /\ recvd'[r] = IF r = p THEN NotReceiving(p) ELSE recvd[r]
          /\ popped'[r] = IF r = p THEN 0 ELSE popped[r]
          /\ \A i \in Ids : acks'[r][i] = IF r = p THEN {} ELSE acks[r][i]
      BY <2>1 DEF CrashDoes
    <3>2. CASE r = p
      <4>1. NoId \notin Ids /\ nSent[r] \in Nat \ {0}
        BY <1>0, IdsAre, SystemAssumption DEF Numbers
      <4>2. \A u \in Thread : Sending(r, u)'
        BY <3>1, <3>2, <4>1 DEF Sending, NotSending
      <4>3. MainOK(r)' /\ RecvOK(r)'
        BY <3>1, <3>2, <4>1 DEF MainOK, RecvOK, NotReceiving, Thread, MainLabel, RecvLabel
      <4>4. DlvOK(r)' /\ Stopped(r)'
        BY <2>2, <3>1, <3>2 DEF DlvOK, Stopped, Thread, DlvLabel
      <4>5. NotToSelf(r)' /\ Numbers(r)'
        BY <1>0, <2>2, <3>1, <3>2, <4>1 DEF NotToSelf, Numbers
      <4> QED
        BY <4>2, <4>3, <4>4, <4>5
    <3>3. CASE r # p
      <4>1. \A u \in Thread : Sending(r, u)'
        BY <1>0, <3>1, <3>3 DEF Sending
      <4> QED
        BY <1>0, <2>2, <3>1, <3>3, <4>1
           DEF MainOK, RecvOK, DlvOK, Stopped, NotToSelf, Numbers, Thread
    <3> QED
      BY <3>2, <3>3
  <2> QED
    BY <1>a, <2>1, <2>3
<1>13. CASE UNCHANGED vars
  <2>1. Types'
    BY <1>13, <1>b DEF vars, Types
  <2>2. ASSUME NEW r \in Proc PROVE Local(r)'
    <3>1. \A u \in Thread : Sending(r, u)'
      BY <1>0, <1>13 DEF vars, Sending
    <3> QED
      BY <1>0, <1>13, <3>1 DEF vars, MainOK, RecvOK, DlvOK, Stopped, NotToSelf, Numbers
  <2> QED
    BY <1>a, <2>1, <2>2
<1> QED
  BY <1>1, <1>2, <1>3, <1>4, <1>5, <1>6, <1>7, <1>8, <1>9, <1>10, <1>11, <1>12, <1>13, <1>c
     DEF AnyStep

\* The threads' private state, pc and the containers fit together in every
\* reachable state, whatever the number of processes, messages and crashes.
THEOREM BaseCorrect == Spec => []BaseInv
BY BaseInit, BaseStep, PTL DEF Spec

\* Only Send takes numbers, and only Crash stops a process.
LEMMA WhoChanges ==
  ASSUME AnyStep
  PROVE  /\ nSent' = nSent \/ \E p \in Proc : SendDoes(p)
         /\ crashed' = crashed \/ \E p \in Proc : CrashDoes(p)
<1>1. ASSUME NEW p \in Proc, NEW q \in Proc, NEW t \in Thread, SendOnLinkDoes(p, t, q)
      PROVE  nSent' = nSent /\ crashed' = crashed
  BY <1>1 DEF SendOnLinkDoes
<1>2. ASSUME NEW p \in Proc, SendDoes(p) PROVE crashed' = crashed
  BY <1>2 DEF SendDoes
<1>3. ASSUME NEW p \in Proc, CrashDoes(p) PROVE nSent' = nSent
  BY <1>3 DEF CrashDoes
<1>4. ASSUME NEW p \in Proc, SendQueueDoes(p) \/ DeliverUncountDoes(p) \/ DeliverPopDoes(p)
      PROVE  nSent' = nSent /\ crashed' = crashed
  BY <1>4 DEF SendQueueDoes, DeliverUncountDoes, DeliverPopDoes
<1>5. ASSUME NEW p \in Proc, NEW id \in Ids, SendInternalDoes(p, id) \/ DeliverSendNextDoes(p, id)
      PROVE  nSent' = nSent /\ crashed' = crashed
  BY <1>5 DEF SendInternalDoes, DeliverSendNextDoes
<1>6. ASSUME NEW p \in Proc, NEW id \in Ids,
             NotifyAckDoes(p, id) \/ DeliverEraseDoes(p, id) \/ DeliverInsertDoes(p, id)
      PROVE  nSent' = nSent /\ crashed' = crashed
  BY <1>6 DEF NotifyAckDoes, DeliverEraseDoes, DeliverInsertDoes
<1>7. ASSUME NEW p \in Proc, NEW q \in Proc, NEW id \in Ids, ReceiveDoes(p, q, id)
      PROVE  nSent' = nSent /\ crashed' = crashed
  BY <1>7 DEF ReceiveDoes
<1>8. ASSUME UNCHANGED vars PROVE nSent' = nSent /\ crashed' = crashed
  BY <1>8 DEF vars
<1> QED
  BY <1>1, <1>2, <1>3, <1>4, <1>5, <1>6, <1>7, <1>8 DEF AnyStep
-----------------------------------------------------------------------------
(***************************************************************************)
(* delivered_, the FIFO layer and the log.                                 *)
(***************************************************************************)
\* Both structures of a process and an author are well-formed and hold the
\* same messages, the log is the numbers below next, and DeliverPending never
\* inserts a message twice.
DeliveryInv ==
  /\ delivered \in [Proc -> [Proc -> [bottom : Nat \ {0}, delivered : SUBSET Nat]]]
  /\ fifo \in [Proc -> [Proc -> [next : Nat \ {0}, pending : SUBSET Nat]]]
  /\ log \in [Proc -> [Proc -> Seq(Nat)]]
  /\ \A p, a \in Proc :
       /\ PeerOK(delivered[p][a])
       /\ FifoOK(fifo[p][a])
       /\ log[p][a] = Count(fifo[p][a].next - 1)
       /\ \A x \in Nat \ {0} : Contains(delivered[p][a], x) <=> Given(fifo[p][a], x)
  /\ \A p \in Proc : dlvId[p] \in Ids => ~DeliveredAt(p, dlvId[p])

\* Nothing is delivered at the start.
LEMMA DeliveryInit == Init => DeliveryInv
<1> SUFFICES ASSUME Init PROVE DeliveryInv
  OBVIOUS
<1>1. PeerOK(NothingDelivered) /\ FifoOK(NothingLogged)
  BY FS_EmptySet DEF PeerOK, FifoOK, NothingDelivered, NothingLogged
<1>2. \A x \in Nat \ {0} : Contains(NothingDelivered, x) <=> Given(NothingLogged, x)
  BY DEF Contains, Given, NothingDelivered, NothingLogged
<1>3. << >> = Count(NothingLogged.next - 1)
  <2>1. 1..(NothingLogged.next - 1) = {}
    BY DEF NothingLogged
  <2> QED
    BY <2>1 DEF Count
<1>4. /\ delivered \in [Proc -> [Proc -> [bottom : Nat \ {0}, delivered : SUBSET Nat]]]
      /\ fifo \in [Proc -> [Proc -> [next : Nat \ {0}, pending : SUBSET Nat]]]
      /\ log \in [Proc -> [Proc -> Seq(Nat)]]
  BY DEF Init, NothingDelivered, NothingLogged
<1>5. \A p, a \in Proc : /\ delivered[p][a] = NothingDelivered
                         /\ fifo[p][a] = NothingLogged
                         /\ log[p][a] = << >>
  BY DEF Init
<1>6. \A p \in Proc : dlvId[p] \notin Ids
  BY IdsAre DEF Init
<1> QED
  BY <1>1, <1>2, <1>3, <1>4, <1>5, <1>6 DEF DeliveryInv

\* Inserting a message delivers this message, and no other.
LEMMA InsertDelivers ==
  ASSUME BaseInv, DeliveryInv, NEW p \in Proc, NEW id \in Ids, DeliverInsertDoes(p, id)
  PROVE  /\ DeliveryInv'
         /\ \A r \in Proc, i \in Ids : DeliveredAt(r, i)' <=> DeliveredAt(r, i) \/ (r = p /\ i = id)
         /\ \A r, a \in Proc : fifo'[r][a].next >= fifo[r][a].next
         /\ \A r, a \in Proc : ~(r = p /\ a = Author(id)) => fifo'[r][a] = fifo[r][a]
               /\ log'[r][a] = log[r][a]
<1> DEFINE a == Author(id)
           s == SeqOf(id)
<1>1. a \in Proc /\ s \in Nat \ {0} /\ id = <<a, s>> /\ id = dlvId[p]
  BY IdsAre DEF DeliverInsertDoes
<1>2. /\ PeerOK(delivered[p][a]) /\ FifoOK(fifo[p][a])
      /\ log[p][a] = Count(fifo[p][a].next - 1)
      /\ \A x \in Nat \ {0} : Contains(delivered[p][a], x) <=> Given(fifo[p][a], x)
  BY <1>1 DEF DeliveryInv
<1>3. ~Contains(delivered[p][a], s)
  BY <1>1 DEF DeliveryInv, DeliveredAt
<1>4. /\ delivered' = [delivered EXCEPT ![p][a] = Insert(@, s)]
      /\ fifo' = [fifo EXCEPT ![p][a] = DeliverInternal(@, s)]
      /\ log' = [log EXCEPT ![p][a] = @ \o Logged(fifo[p][a], s)]
      /\ \A r \in Proc : dlvId'[r] = IF r = p THEN NoId ELSE dlvId[r]
  BY DEF DeliverInsertDoes
<1>5. /\ PeerOK(Insert(delivered[p][a], s))
      /\ \A x \in Nat : Contains(Insert(delivered[p][a], s), x)
            <=> Contains(delivered[p][a], x) \/ x = s
  BY <1>1, <1>2, <1>3, InsertAdds
<1>6. LET after == DeliverInternal(fifo[p][a], s)
      IN  /\ FifoOK(after)
          /\ after.next >= fifo[p][a].next
          /\ \A x \in Nat : Given(after, x) <=> Given(fifo[p][a], x) \/ x = s
  BY ZenonT(60), <1>1, <1>2, DeliverInternalAdds
<1>7. log[p][a] \o Logged(fifo[p][a], s) = Count(DeliverInternal(fifo[p][a], s).next - 1)
  BY <1>1, <1>2, LogGrows
<1> HIDE DEF a, s
<1>8. ASSUME NEW r \in Proc, NEW b \in Proc
      PROVE  /\ delivered'[r][b] = IF r = p /\ b = a THEN Insert(delivered[p][a], s)
                                   ELSE delivered[r][b]
             /\ fifo'[r][b] = IF r = p /\ b = a THEN DeliverInternal(fifo[p][a], s) ELSE fifo[r][b]
             /\ log'[r][b] = IF r = p /\ b = a THEN log[p][a] \o Logged(fifo[p][a], s)
                             ELSE log[r][b]
  BY <1>1, <1>4 DEF DeliveryInv
<1>9. ASSUME NEW r \in Proc, NEW b \in Proc
      PROVE  /\ PeerOK(delivered'[r][b])
             /\ FifoOK(fifo'[r][b])
             /\ log'[r][b] = Count(fifo'[r][b].next - 1)
             /\ \A x \in Nat \ {0} : Contains(delivered'[r][b], x) <=> Given(fifo'[r][b], x)
             /\ fifo'[r][b].next >= fifo[r][b].next
  <2>1. CASE r = p /\ b = a
    BY <1>2, <1>5, <1>6, <1>7, <1>8, <2>1
  <2>2. CASE ~(r = p /\ b = a)
    <3>1. delivered'[r][b] = delivered[r][b] /\ fifo'[r][b] = fifo[r][b] /\ log'[r][b] = log[r][b]
      BY <1>8, <2>2
    <3>2. /\ PeerOK(delivered[r][b]) /\ FifoOK(fifo[r][b])
          /\ log[r][b] = Count(fifo[r][b].next - 1)
          /\ \A x \in Nat \ {0} : Contains(delivered[r][b], x) <=> Given(fifo[r][b], x)
          /\ fifo[r][b].next \in Nat
      BY DEF DeliveryInv
    <3> QED
      BY <3>1, <3>2
  <2> QED
    BY <2>1, <2>2
<1>10. delivered' \in [Proc -> [Proc -> [bottom : Nat \ {0}, delivered : SUBSET Nat]]]
  BY <1>1, <1>4, <1>5 DEF DeliveryInv, PeerOK
<1>11. fifo' \in [Proc -> [Proc -> [next : Nat \ {0}, pending : SUBSET Nat]]]
  <2>1. DeliverInternal(fifo[p][a], s) \in [next : Nat \ {0}, pending : SUBSET Nat]
    BY <1>6 DEF FifoOK
  <2> QED
    BY <1>1, <1>4, <2>1 DEF DeliveryInv
<1>12. log' \in [Proc -> [Proc -> Seq(Nat)]]
  <2> DEFINE new == log[p][a] \o Logged(fifo[p][a], s)
             n == DeliverInternal(fifo[p][a], s).next - 1
  <2>1. n \in Nat
    BY <1>6 DEF FifoOK
  <2>2. new = Count(n)
    BY <1>7
  <2> HIDE DEF n
  <2>3. Count(n) \in Seq(Nat)
    BY <2>1 DEF Count
  <2>4. log' = [log EXCEPT ![p][a] = new]
    BY <1>4
  <2> HIDE DEF new
  <2> QED
    BY <1>1, <2>2, <2>3, <2>4 DEF DeliveryInv
<1>13. ASSUME NEW r \in Proc, NEW i \in Ids
       PROVE  DeliveredAt(r, i)' <=> DeliveredAt(r, i) \/ (r = p /\ i = id)
  <2>1. Author(i) \in Proc /\ SeqOf(i) \in Nat /\ i = <<Author(i), SeqOf(i)>>
    BY IdsAre
  <2>2. DeliveredAt(r, i)' <=> Contains(delivered'[r][Author(i)], SeqOf(i))
    BY DEF DeliveredAt
  <2>3. (r = p /\ i = id) <=> (r = p /\ Author(i) = a /\ SeqOf(i) = s)
    BY <1>1, <2>1
  <2>4. CASE r = p /\ Author(i) = a
    BY <1>5, <1>8, <2>1, <2>2, <2>3, <2>4 DEF DeliveredAt
  <2>5. CASE ~(r = p /\ Author(i) = a)
    BY <1>8, <2>1, <2>2, <2>3, <2>5 DEF DeliveredAt
  <2> QED
    BY <2>4, <2>5
<1>14. ASSUME NEW r \in Proc, dlvId'[r] \in Ids
       PROVE  ~DeliveredAt(r, dlvId[r])' /\ dlvId'[r] = dlvId[r]
  <2>1. r # p /\ dlvId'[r] = dlvId[r]
    BY <1>4, <1>14, IdsAre
  <2> QED
    BY <1>13, <1>14, <2>1 DEF DeliveryInv
<1>15. DeliveryInv'
  <2>1. \A r \in Proc : dlvId'[r] \in Ids => ~DeliveredAt(r, dlvId[r])'
    BY <1>14
  <2> QED
    BY <1>9, <1>10, <1>11, <1>12, <2>1, <1>14 DEF DeliveryInv
<1> QED
  BY <1>8, <1>9, <1>13, <1>15 DEF a

\* Only DeliverPending's last step changes what is delivered, and it keeps
\* delivered_, the FIFO state and the log in step.
LEMMA DeliveryStep == BaseInv /\ DeliveryInv /\ [Next]_vars => DeliveryInv'
<1> SUFFICES ASSUME BaseInv, DeliveryInv, [Next]_vars PROVE DeliveryInv'
  OBVIOUS
<1>1. ASSUME NEW p \in Proc, NEW id \in Ids, DeliverInsertDoes(p, id) PROVE DeliveryInv'
  BY <1>1, InsertDelivers
<1>2. ASSUME NEW p \in Proc, NEW id \in Ids, DeliverEraseDoes(p, id) PROVE DeliveryInv'
  <2>1. UNCHANGED <<delivered, fifo, log>> /\ ~DeliveredAt(p, id)
    BY <1>2 DEF DeliverEraseDoes, CanDeliver
  <2>2. \A r \in Proc : dlvId'[r] = IF r = p THEN id ELSE dlvId[r]
    BY <1>2 DEF DeliverEraseDoes
  <2>3. ASSUME NEW r \in Proc, dlvId'[r] \in Ids PROVE ~DeliveredAt(r, dlvId[r])'
    BY <2>1, <2>2, <2>3 DEF DeliveryInv, DeliveredAt
  <2> QED
    BY <2>1, <2>3 DEF DeliveryInv
<1>3. CASE UNCHANGED <<delivered, fifo, log, dlvId>>
  BY <1>3 DEF DeliveryInv, DeliveredAt
<1> QED
  BY ZenonT(60), <1>1, <1>2, <1>3, Steps
     DEF AnyStep, SendOnLinkDoes, SendDoes, SendQueueDoes, DeliverUncountDoes, DeliverPopDoes,
         CrashDoes, SendInternalDoes, NotifyAckDoes, DeliverSendNextDoes, ReceiveDoes, vars
-----------------------------------------------------------------------------
(***************************************************************************)
(* No creation.                                                            *)
(***************************************************************************)
\* The author of id has broadcast it.
Sent(id) == SeqOf(id) < nSent[Author(id)]

\* Whatever a process keeps, has under way or has put on a link was broadcast.
SentInv ==
  \A p \in Proc :
    /\ \A id \in pending[p] : Sent(id)
    /\ dlvId[p] \in Ids => Sent(dlvId[p])
    /\ \A t \in Thread : out[p][t].id \in Ids => Sent(out[p][t].id)
    /\ recvd[p].id \in Ids => Sent(recvd[p].id)
    /\ \A q \in Proc : \A id \in link[p][q] : Sent(id)
    /\ \A a \in Proc : \A x \in Nat \ {0} : Contains(delivered[p][a], x) => x < nSent[a]

\* No message is anywhere at the start.
LEMMA SentInit == Init => SentInv
<1> SUFFICES ASSUME Init, NEW p \in Proc
    PROVE  /\ \A id \in pending[p] : Sent(id)
           /\ dlvId[p] \in Ids => Sent(dlvId[p])
           /\ \A t \in Thread : out[p][t].id \in Ids => Sent(out[p][t].id)
           /\ recvd[p].id \in Ids => Sent(recvd[p].id)
           /\ \A q \in Proc : \A id \in link[p][q] : Sent(id)
           /\ \A a \in Proc : \A x \in Nat \ {0} : Contains(delivered[p][a], x) => x < nSent[a]
  BY DEF SentInv
<1>1. NoId \notin Ids
  BY IdsAre
<1>2. \A a \in Proc : delivered[p][a] = NothingDelivered
  BY DEF Init
<1>3. \A a \in Proc : \A x \in Nat \ {0} : ~Contains(delivered[p][a], x)
  BY <1>2 DEF NothingDelivered, Contains
<1> QED
  BY <1>1, <1>3 DEF Init, NotSending, NotReceiving

\* A step moves messages that were sent, and Send takes a number before the
\* message is anywhere.
LEMMA SentStep == BaseInv /\ DeliveryInv /\ SentInv /\ [Next]_vars => SentInv'
<1> SUFFICES ASSUME BaseInv, DeliveryInv, SentInv, [Next]_vars PROVE SentInv'
  OBVIOUS
<1>0. Types /\ Types' /\ AnyStep
  BY Steps DEF BaseInv
<1>1. ASSUME NEW a \in Proc PROVE nSent[a] \in Nat /\ nSent'[a] \in Nat /\ nSent[a] <= nSent'[a]
  <2>1. nSent[a] \in Nat /\ nSent'[a] \in Nat
    BY <1>0 DEF Types
  <2>2. ASSUME NEW p \in Proc, SendDoes(p) PROVE nSent[a] <= nSent'[a]
    BY <2>1, <2>2 DEF SendDoes
  <2>3. CASE UNCHANGED nSent
    BY <2>1, <2>3
  <2> QED
    BY <1>0, <2>1, <2>2, <2>3, WhoChanges
<1>2. ASSUME NEW id \in Ids, Sent(id) PROVE Sent(id)'
  <2>1. Author(id) \in Proc /\ SeqOf(id) \in Nat
    BY IdsAre
  <2> QED
    BY <1>1, <1>2, <2>1 DEF Sent
<1>3. ASSUME NEW id \in Ids,
             \/ \E p \in Proc : \/ id \in pending[p] \/ dlvId[p] = id
                                \/ \E t \in Thread : out[p][t].id = id
                                \/ recvd[p].id = id
                                \/ \E q \in Proc : id \in link[p][q]
             \/ Sent(id)
      PROVE  Sent(id)'
  BY <1>2, <1>3 DEF SentInv
<1>4. ASSUME NEW p \in Proc, NEW a \in Proc, NEW x \in Nat \ {0},
             Contains(delivered[p][a], x) \/ x < nSent[a]
      PROVE  x < nSent'[a]
  BY <1>1, <1>4 DEF SentInv
\* It is enough that a step takes messages from where there were messages.
<1>5. ASSUME \A p \in Proc, id \in Ids :
                \/ id \in pending'[p] \/ dlvId'[p] = id \/ recvd'[p].id = id
                \/ \E t \in Thread : out'[p][t].id = id
                \/ \E q \in Proc : id \in link'[p][q]
                => \/ \E r \in Proc : \/ id \in pending[r] \/ dlvId[r] = id
                                      \/ \E t \in Thread : out[r][t].id = id
                                      \/ recvd[r].id = id
                                      \/ \E q \in Proc : id \in link[r][q]
                   \/ Sent(id),
             \A p, a \in Proc : \A x \in Nat \ {0} :
               Contains(delivered'[p][a], x) => Contains(delivered[p][a], x) \/ x < nSent[a]
      PROVE  SentInv'
  <2>1. ASSUME NEW p \in Proc
        PROVE  /\ \A id \in pending'[p] : Sent(id)'
               /\ \A id \in Ids : dlvId'[p] = id => Sent(id)'
               /\ \A t \in Thread : \A id \in Ids : out'[p][t].id = id => Sent(id)'
               /\ \A id \in Ids : recvd'[p].id = id => Sent(id)'
               /\ \A q \in Proc : \A id \in link'[p][q] : Sent(id)'
               /\ \A a \in Proc : \A x \in Nat \ {0} : Contains(delivered'[p][a], x)
                     => x < nSent'[a]
    <3>1. pending'[p] \subseteq Ids /\ \A q \in Proc : link'[p][q] \subseteq Ids
      BY SMTT(30), <1>0 DEF Types
    <3>2. \A id \in Ids :
            \/ id \in pending'[p] \/ dlvId'[p] = id \/ recvd'[p].id = id
            \/ \E t \in Thread : out'[p][t].id = id
            \/ \E q \in Proc : id \in link'[p][q]
            => Sent(id)'
      BY <1>3, <1>5
    <3>3. \A a \in Proc : \A x \in Nat \ {0} : Contains(delivered'[p][a], x) => x < nSent'[a]
      BY <1>4, <1>5
    <3> QED
      BY <3>1, <3>2, <3>3
  <2> QED
    BY <2>1 DEF SentInv, Sent
<1> DEFINE Source(id) == \/ \E r \in Proc : \/ id \in pending[r] \/ dlvId[r] = id
                                            \/ \E t \in Thread : out[r][t].id = id
                                            \/ recvd[r].id = id
                                            \/ \E q \in Proc : id \in link[r][q]
                         \/ Sent(id)
           Place(p, id) == \/ id \in pending'[p] \/ dlvId'[p] = id \/ recvd'[p].id = id
                           \/ \E t \in Thread : out'[p][t].id = id
                           \/ \E q \in Proc : id \in link'[p][q]
<1>6. ASSUME \A p \in Proc, id \in Ids : Place(p, id) => Source(id), delivered' = delivered
      PROVE  SentInv'
  BY <1>5, <1>6
<1>11. ASSUME NEW p \in Proc, NEW t \in Thread, NEW q \in Proc, SendOnLinkDoes(p, t, q)
       PROVE  SentInv'
  <2>1. ASSUME NEW r \in Proc, NEW i \in Ids, Place(r, i) PROVE Source(i)
    <3>1. \A s \in Proc : link'[r][s] \subseteq link[r][s] \union {out[p][t].id}
      BY <1>11 DEF SendOnLinkDoes
    <3>2. \A u \in Thread : out'[r][u].id \in {out[r][u].id, NoId}
      BY <1>11 DEF SendOnLinkDoes
    <3>3. UNCHANGED <<pending, dlvId, recvd>>
      BY <1>11 DEF SendOnLinkDoes
    <3>4. i # NoId
      BY IdsAre
    <3> QED
      BY <2>1, <3>1, <3>2, <3>3, <3>4
  <2> QED
    BY <1>6, <1>11, <2>1 DEF SendOnLinkDoes
<1>12. ASSUME NEW p \in Proc, SendDoes(p) \/ SendQueueDoes(p) \/ DeliverUncountDoes(p) \/ DeliverPopDoes(p)
       PROVE  SentInv'
  <2>1. UNCHANGED <<pending, dlvId, recvd, out, link, delivered>>
    BY <1>12 DEF SendDoes, SendQueueDoes, DeliverUncountDoes, DeliverPopDoes
  <2> QED
    BY <1>6, <2>1
<1>13. ASSUME NEW p \in Proc, NEW id \in Ids, SendInternalDoes(p, id) PROVE SentInv'
  <2>1. Sent(id)
    BY <1>13, IdsAre DEF SendInternalDoes, Sent, BaseInv, Numbers, Author, SeqOf
  <2>2. ASSUME NEW r \in Proc, NEW i \in Ids, Place(r, i) PROVE Source(i)
    <3>1. pending'[r] \subseteq pending[r] \union {id}
      BY <1>13 DEF SendInternalDoes
    <3>2. \A u \in Thread : out'[r][u].id \in {out[r][u].id, id}
      BY <1>13 DEF SendInternalDoes
    <3>3. UNCHANGED <<link, dlvId, recvd>>
      BY <1>13 DEF SendInternalDoes
    <3> QED
      BY <2>1, <2>2, <3>1, <3>2, <3>3
  <2> QED
    BY <1>6, <1>13, <2>2 DEF SendInternalDoes
<1>14. ASSUME NEW p \in Proc, NEW q \in Proc, NEW id \in Ids, ReceiveDoes(p, q, id) PROVE SentInv'
  <2>1. ASSUME NEW r \in Proc, NEW i \in Ids, Place(r, i) PROVE Source(i)
    <3>1. \A s \in Proc : link'[r][s] \subseteq link[r][s]
      BY <1>14 DEF ReceiveDoes
    <3>2. recvd'[r].id \in {recvd[r].id, id}
      BY <1>14 DEF ReceiveDoes
    <3>3. id \in link[q][p] /\ UNCHANGED <<pending, dlvId, out>>
      BY <1>14 DEF ReceiveDoes
    <3> QED
      BY <2>1, <3>1, <3>2, <3>3
  <2> QED
    BY <1>6, <1>14, <2>1 DEF ReceiveDoes
<1>15. ASSUME NEW p \in Proc, NEW id \in Ids, NotifyAckDoes(p, id) PROVE SentInv'
  <2>1. ASSUME NEW r \in Proc, NEW i \in Ids, Place(r, i) PROVE Source(i)
    <3>1. pending'[r] \subseteq pending[r] \union {id}
      BY <1>15 DEF NotifyAckDoes
    <3>2. \A u \in Thread : out'[r][u].id \in {out[r][u].id, id}
      BY <1>15 DEF NotifyAckDoes
    <3>3. UNCHANGED <<link, dlvId>> /\ recvd[p].id = id
      BY <1>15 DEF NotifyAckDoes
    <3>4. recvd'[r].id \in {recvd[r].id, NoId}
      <4>1. NotReceiving(p).id = NoId
        BY DEF NotReceiving
      <4>2. recvd'[r] = IF r = p THEN NotReceiving(p) ELSE recvd[r]
        BY <1>15 DEF NotifyAckDoes
      <4> QED
        BY <4>1, <4>2
    <3>5. i # NoId
      BY IdsAre
    <3> QED
      BY <2>1, <3>1, <3>2, <3>3, <3>4, <3>5
  <2> QED
    BY <1>6, <1>15, <2>1 DEF NotifyAckDoes
<1>16. ASSUME NEW p \in Proc, NEW id \in Ids, DeliverEraseDoes(p, id) PROVE SentInv'
  <2>1. ASSUME NEW r \in Proc, NEW i \in Ids, Place(r, i) PROVE Source(i)
    <3>1. pending'[r] \subseteq pending[r] /\ dlvId'[r] \in {dlvId[r], id}
      BY <1>16 DEF DeliverEraseDoes
    <3>2. UNCHANGED <<link, out, recvd>> /\ id \in pending[p]
      BY <1>16 DEF DeliverEraseDoes
    <3> QED
      BY <2>1, <3>1, <3>2
  <2> QED
    BY <1>6, <1>16, <2>1 DEF DeliverEraseDoes
<1>17. ASSUME NEW p \in Proc, NEW id \in Ids, DeliverSendNextDoes(p, id) PROVE SentInv'
  <2>1. Sent(id)
    BY <1>17, IdsAre DEF DeliverSendNextDoes, Sent, BaseInv, Numbers, Author, SeqOf
  <2>2. ASSUME NEW r \in Proc, NEW i \in Ids, Place(r, i) PROVE Source(i)
    <3>1. pending'[r] \subseteq pending[r] \union {id}
      BY <1>17 DEF DeliverSendNextDoes
    <3>2. \A u \in Thread : out'[r][u].id \in {out[r][u].id, id}
      BY <1>17 DEF DeliverSendNextDoes
    <3>3. UNCHANGED <<link, dlvId, recvd>>
      BY <1>17 DEF DeliverSendNextDoes
    <3> QED
      BY <2>1, <2>2, <3>1, <3>2, <3>3
  <2> QED
    BY <1>6, <1>17, <2>2 DEF DeliverSendNextDoes
<1>18. ASSUME NEW p \in Proc, NEW id \in Ids, DeliverInsertDoes(p, id) PROVE SentInv'
  <2>1. ASSUME NEW r \in Proc, NEW i \in Ids, Place(r, i) PROVE Source(i)
    BY <1>18, <2>1, IdsAre DEF DeliverInsertDoes
  <2>2. Author(id) \in Proc /\ SeqOf(id) \in Nat \ {0} /\ SeqOf(id) < nSent[Author(id)]
          /\ dlvId[p] = id
    BY <1>18, IdsAre DEF DeliverInsertDoes, SentInv, Sent
  <2>3. ASSUME NEW r \in Proc, NEW a \in Proc, NEW x \in Nat \ {0}, Contains(delivered'[r][a], x)
        PROVE  Contains(delivered[r][a], x) \/ x < nSent[a]
    <3>1. delivered' = [delivered EXCEPT ![p][Author(id)] = Insert(@, SeqOf(id))]
      BY <1>18 DEF DeliverInsertDoes
    <3>2. CASE r = p /\ a = Author(id)
      <4>1. delivered'[r][a] = Insert(delivered[r][a], SeqOf(id))
        BY <2>2, <3>1, <3>2 DEF DeliveryInv
      <4>2. PeerOK(delivered[r][a]) /\ ~Contains(delivered[r][a], SeqOf(id))
        BY <2>2, <3>2 DEF DeliveryInv, DeliveredAt
      <4>3. Contains(Insert(delivered[r][a], SeqOf(id)), x)
              <=> Contains(delivered[r][a], x) \/ x = SeqOf(id)
        BY <2>2, <4>2, InsertAdds
      <4> QED
        BY <2>2, <2>3, <3>2, <4>1, <4>3
    <3>3. CASE ~(r = p /\ a = Author(id))
      <4>1. delivered'[r][a] = delivered[r][a]
        BY <2>2, <3>1, <3>3 DEF DeliveryInv
      <4> QED
        BY <2>3, <4>1
    <3> QED
      BY <3>2, <3>3
  <2> QED
    BY <1>5, <2>1, <2>3
<1>19. ASSUME NEW p \in Proc, CrashDoes(p) PROVE SentInv'
  <2>1. ASSUME NEW r \in Proc, NEW i \in Ids, Place(r, i) PROVE Source(i)
    BY <1>19, <2>1, IdsAre DEF CrashDoes, NotSending, NotReceiving
  <2> QED
    BY <1>6, <1>19, <2>1 DEF CrashDoes
<1>20. CASE UNCHANGED vars
  BY <1>6, <1>20 DEF vars
<1> QED
  BY <1>0, <1>11, <1>12, <1>13, <1>14, <1>15, <1>16, <1>17, <1>18, <1>19, <1>20 DEF AnyStep

\* What BaseInv, DeliveryInv and SentInv say holds in every state.
LEMMA KeptInvariants == Spec => [](BaseInv /\ DeliveryInv /\ SentInv)
BY BaseInit, BaseStep, DeliveryInit, DeliveryStep, SentInit, SentStep, PTL DEF Spec

\* Whatever the order in which DeliverPending delivers, every log is 1, 2, 3,
\* ..., for any number of processes, messages and crashes.
THEOREM FifoOrderHolds == Spec => []FifoOrder
<1>1. DeliveryInv => FifoOrder
  <2> SUFFICES ASSUME DeliveryInv, NEW p \in Proc, NEW a \in Proc, NEW i \in DOMAIN log[p][a]
               PROVE  log[p][a][i] = i
    BY DEF FifoOrder
  <2>1. log[p][a] = Count(fifo[p][a].next - 1)
    BY DEF DeliveryInv
  <2> QED
    BY <2>1 DEF Count
<1> QED
  BY <1>1, KeptInvariants, PTL

\* A logged message is delivered.
LEMMA LoggedIsDelivered ==
  ASSUME DeliveryInv, NEW p \in Proc, NEW id \in Ids
  PROVE  HasLogged(p, id) <=> SeqOf(id) < fifo[p][Author(id)].next
<1> DEFINE a == Author(id)
           n == fifo[p][a].next
<1>1. a \in Proc /\ SeqOf(id) \in Nat \ {0}
  BY IdsAre
<1>2. log[p][a] = Count(n - 1) /\ n \in Nat
  BY <1>1 DEF DeliveryInv
<1>3. DOMAIN log[p][a] = 1..(n - 1) /\ \A i \in 1..(n - 1) : log[p][a][i] = i
  BY <1>2 DEF Count
<1>4. HasLogged(p, id) <=> \E i \in 1..(n - 1) : i = SeqOf(id)
  BY <1>3 DEF HasLogged
<1> HIDE DEF n
<1>5. HasLogged(p, id) <=> SeqOf(id) < n
  BY <1>1, <1>2, <1>4
<1> QED
  BY <1>5 DEF n

\* Every message anywhere in the system was broadcast by its author, also where
\* the code reads a queue element that it has popped.
THEOREM NoCreationHolds == Spec => []NoCreation
<1>1. BaseInv /\ DeliveryInv /\ SentInv => NoCreation
  <2> SUFFICES ASSUME BaseInv, DeliveryInv, SentInv, NEW p \in Proc, NEW id \in Ids,
                      Holds(p, id) \/ HasLogged(p, id) \/ \E q \in Proc : id \in link[p][q]
               PROVE  SeqOf(id) < nSent[Author(id)]
    BY DEF NoCreation
  <2>1. Author(id) \in Proc /\ SeqOf(id) \in Nat \ {0}
    BY IdsAre
  <2>2. DeliveredAt(p, id) => SeqOf(id) < nSent[Author(id)]
    BY <2>1 DEF SentInv, DeliveredAt
  <2>3. HasLogged(p, id) => DeliveredAt(p, id)
    BY <2>1, LoggedIsDelivered DEF DeliveryInv, DeliveredAt, Given
  <2> QED
    BY <2>2, <2>3 DEF Holds, SentInv, Sent
<1> QED
  BY <1>1, KeptInvariants, PTL
-----------------------------------------------------------------------------
(***************************************************************************)
(* The window.                                                             *)
(***************************************************************************)
\* The window is a number of messages, at least one.
LEMMA IdealType == Ideal \in Nat \ {0}
<1>1. N \in Nat /\ N >= 2 /\ MaxInNetwork \in Nat
  BY SystemAssumption, FS_CardinalityType DEF N
<1>2. ASSUME NEW n \in Nat, n >= 2 PROVE n * n \in Nat /\ n * n > 0
  BY <1>2
<1>3. ASSUME NEW a \in Nat, NEW b \in Nat, b > 0 PROVE a \div b \in Int
  BY <1>3
<1>4. MaxInNetwork \div (N * N) \in Int
  BY <1>1, <1>2, <1>3
<1> QED
  BY <1>4 DEF Ideal

\* The places in the window that the two threads of p are about to fill: main
\* tested the window, or dlv gave up a place that it means to fill again.
Reserved(p) ==
  (IF pc[p]["main"] = "count" THEN 1 ELSE 0)
    + (IF pc[p]["dlv"] \in {"pop", "recount"} THEN 1 ELSE 0)

WindowInv == \A p \in Proc : nOwn[p] + Reserved(p) <= Ideal + 1

\* The window is empty at the start.
LEMMA WindowInit == Init => WindowInv
BY IdealType DEF Init, WindowInv, Reserved, Thread

\* A thread that is past its test of the window has its place reserved.
LEMMA WindowStep == BaseInv /\ WindowInv /\ [Next]_vars => WindowInv'
<1> SUFFICES ASSUME BaseInv, WindowInv, [Next]_vars, NEW r \in Proc
             PROVE  nOwn'[r] + Reserved(r)' <= Ideal + 1
  BY DEF WindowInv
<1>0. AnyStep
  BY Steps
<1>1. /\ nOwn[r] \in Int /\ Ideal \in Int
      /\ nOwn[r] + Reserved(r) <= Ideal + 1
      /\ "main" \in Thread /\ "dlv" \in Thread
  BY IdealType DEF BaseInv, Types, WindowInv, Thread
<1>2. CASE /\ nOwn'[r] = nOwn[r]
           /\ pc'[r]["main"] = "count" => pc[r]["main"] = "count"
           /\ pc'[r]["dlv"] \in {"pop", "recount"} => pc[r]["dlv"] \in {"pop", "recount"}
  BY <1>1, <1>2 DEF Reserved
<1>11. ASSUME NEW p \in Proc, NEW t \in Thread, NEW q \in Proc, SendOnLinkDoes(p, t, q)
       PROVE  nOwn'[r] + Reserved(r)' <= Ideal + 1
  BY ZenonT(60), <1>1, <1>2, <1>11 DEF SendOnLinkDoes, AfterSending
<1>12. ASSUME NEW p \in Proc, SendDoes(p) PROVE nOwn'[r] + Reserved(r)' <= Ideal + 1
  <2>1. /\ nOwn' = nOwn /\ pc'[r]["dlv"] = pc[r]["dlv"]
        /\ r # p => pc'[r]["main"] = pc[r]["main"]
        /\ r = p => pc[r]["main"] = "idle" /\ (nOwn[r] >= Ideal => pc'[r]["main"] = "push")
    BY <1>1, <1>12 DEF SendDoes
  <2> QED
    BY <1>1, <2>1 DEF Reserved
<1>13. ASSUME NEW p \in Proc, NEW id \in Ids, SendInternalDoes(p, id)
       PROVE  nOwn'[r] + Reserved(r)' <= Ideal + 1
  <2>1. /\ pc'[r]["dlv"] = pc[r]["dlv"]
        /\ r # p => pc'[r]["main"] = pc[r]["main"] /\ nOwn'[r] = nOwn[r]
        /\ r = p => /\ pc[r]["main"] = "count" /\ pc'[r]["main"] = "sending"
                    /\ nOwn'[r] = nOwn[r] + 1
    BY <1>1, <1>13 DEF SendInternalDoes
  <2> QED
    BY <1>1, <2>1 DEF Reserved
<1>14. ASSUME NEW p \in Proc, DeliverUncountDoes(p) PROVE nOwn'[r] + Reserved(r)' <= Ideal + 1
  <2>1. /\ pc'[r]["main"] = pc[r]["main"]
        /\ r # p => pc'[r]["dlv"] = pc[r]["dlv"] /\ nOwn'[r] = nOwn[r]
        /\ r = p => pc[r]["dlv"] = "uncount" /\ nOwn'[r] = nOwn[r] - 1
    BY <1>1, <1>14 DEF DeliverUncountDoes
  <2> QED
    BY <1>1, <2>1 DEF Reserved
<1>15. ASSUME NEW p \in Proc, DeliverPopDoes(p) PROVE nOwn'[r] + Reserved(r)' <= Ideal + 1
  BY <1>1, <1>2, <1>15 DEF DeliverPopDoes
<1>16. ASSUME NEW p \in Proc, NEW id \in Ids, DeliverSendNextDoes(p, id)
       PROVE  nOwn'[r] + Reserved(r)' <= Ideal + 1
  <2>1. /\ pc'[r]["main"] = pc[r]["main"]
        /\ r # p => pc'[r]["dlv"] = pc[r]["dlv"] /\ nOwn'[r] = nOwn[r]
        /\ r = p => /\ pc[r]["dlv"] = "recount" /\ pc'[r]["dlv"] = "sending"
                    /\ nOwn'[r] = nOwn[r] + 1
    BY <1>1, <1>16 DEF DeliverSendNextDoes
  <2> QED
    BY <1>1, <2>1 DEF Reserved
<1>17. ASSUME NEW p \in Proc, SendQueueDoes(p) PROVE nOwn'[r] + Reserved(r)' <= Ideal + 1
  BY <1>1, <1>2, <1>17 DEF SendQueueDoes
<1>18. ASSUME NEW p \in Proc, CrashDoes(p) PROVE nOwn'[r] + Reserved(r)' <= Ideal + 1
  BY <1>1, <1>2, <1>18 DEF CrashDoes
<1>19. ASSUME NEW p \in Proc, NEW q \in Proc, NEW id \in Ids, ReceiveDoes(p, q, id)
       PROVE nOwn'[r] + Reserved(r)' <= Ideal + 1
  BY <1>1, <1>2, <1>19 DEF ReceiveDoes
<1>20. ASSUME NEW p \in Proc, NEW id \in Ids, NotifyAckDoes(p, id)
       PROVE nOwn'[r] + Reserved(r)' <= Ideal + 1
  BY <1>1, <1>2, <1>20 DEF NotifyAckDoes
<1>21. ASSUME NEW p \in Proc, NEW id \in Ids, DeliverEraseDoes(p, id)
       PROVE nOwn'[r] + Reserved(r)' <= Ideal + 1
  BY <1>1, <1>2, <1>21 DEF DeliverEraseDoes
<1>22. ASSUME NEW p \in Proc, NEW id \in Ids, DeliverInsertDoes(p, id)
       PROVE nOwn'[r] + Reserved(r)' <= Ideal + 1
  BY <1>1, <1>2, <1>22 DEF DeliverInsertDoes
<1>23. CASE UNCHANGED vars
  BY <1>1, <1>2, <1>23 DEF vars
<1> QED
  BY <1>0, <1>11, <1>12, <1>13, <1>14, <1>15, <1>16, <1>17, <1>18, <1>19, <1>20, <1>21, <1>22,
     <1>23 DEF AnyStep

\* The race between Send and DeliverPending on the window costs one place at
\* most, for every size of the window.
THEOREM WindowBoundHolds == Spec => []WindowBound
<1>1. BaseInv /\ WindowInv => WindowBound
  <2> SUFFICES ASSUME BaseInv, WindowInv, NEW p \in Proc PROVE nOwn[p] <= Ideal + 1
    BY DEF WindowBound
  <2>1. nOwn[p] \in Int /\ Ideal \in Int /\ nOwn[p] + Reserved(p) <= Ideal + 1
    BY IdealType DEF BaseInv, Types, WindowInv
  <2> QED
    BY <2>1 DEF Reserved
<1> QED
  BY <1>1, WindowInit, WindowStep, KeptInvariants, PTL DEF Spec
-----------------------------------------------------------------------------
(***************************************************************************)
(* The FIFO broadcast that the log files show.                             *)
(***************************************************************************)
\* Inserting a message extends one log by the next messages of one author, all
\* of them broadcast, or leaves the logs alone.
LEMMA InsertRefines ==
  ASSUME BaseInv, DeliveryInv, SentInv, SentInv',
         NEW p \in Proc, NEW id \in Ids, DeliverInsertDoes(p, id)
  PROVE  [Abstract!Next]_(Abstract!vars)
<1> DEFINE a == Author(id)
           n == fifo[p][a].next - 1
           m == fifo'[p][a].next - 1
<1>1. a \in Proc /\ p \notin crashed /\ UNCHANGED <<nSent, crashed>>
  BY IdsAre DEF DeliverInsertDoes
<1>2. DeliveryInv' /\ fifo'[p][a].next >= fifo[p][a].next
      /\ \A r, b \in Proc : ~(r = p /\ b = a) => log'[r][b] = log[r][b]
  BY <1>1, InsertDelivers
<1>3. /\ log[p][a] = Count(n) /\ log'[p][a] = Count(m)
      /\ fifo[p][a].next \in Nat \ {0} /\ fifo'[p][a].next \in Nat \ {0}
  BY <1>1, <1>2 DEF DeliveryInv
<1>4. n \in Nat /\ m \in Nat /\ m >= n
  BY <1>2, <1>3
<1>5. m # 0 => m < nSent[a]
  <2>1. m # 0 => Given(fifo'[p][a], m)
    BY <1>3 DEF Given
  <2>2. m # 0 => Contains(delivered'[p][a], m)
    BY <1>1, <1>2, <1>4, <2>1 DEF DeliveryInv
  <2> QED
    BY <1>1, <1>4, <2>2 DEF SentInv
<1>6. log' = [log EXCEPT ![p][a] = log'[p][a]]
  BY <1>1, <1>2 DEF DeliveryInv, DeliverInsertDoes
<1>7. UNCHANGED [r \in Proc |-> nSent[r] - 1]
  BY <1>1
<1> HIDE DEF n, m
<1>8. CASE m = n
  <2>1. log' = [log EXCEPT ![p][a] = log[p][a]]
    BY <1>3, <1>6, <1>8
  <2>2. log' = log
    BY <1>1, <2>1 DEF DeliveryInv
  <2> QED
    BY <1>1, <1>7, <2>2 DEF Abstract!vars
<1>9. CASE m # n
  <2>1. Len(log[p][a]) = n
    BY <1>3, <1>4 DEF Count
  <2>2. nSent[a] \in Nat
    BY <1>1 DEF BaseInv, Types
  <2>3. m \in (Len(log[p][a]) + 1)..(nSent[a] - 1)
    BY <1>4, <1>5, <1>9, <2>1, <2>2
  <2>4. log' = [log EXCEPT ![p][a] = [i \in 1..m |-> i]]
    BY <1>3, <1>6 DEF Count
  <2>5. Abstract!Deliver(p, a)
    BY <1>1, <1>7, <2>3, <2>4 DEF Abstract!Deliver
  <2> QED
    BY <1>1, <2>5 DEF Abstract!Next
<1> QED
  BY <1>8, <1>9

\* Every step is a step of the abstract broadcast or leaves it unchanged.
LEMMA BroadcastStep ==
  BaseInv /\ DeliveryInv /\ SentInv /\ SentInv' /\ [Next]_vars => [Abstract!Next]_(Abstract!vars)
<1> SUFFICES ASSUME BaseInv, DeliveryInv, SentInv, SentInv', [Next]_vars
             PROVE  [Abstract!Next]_(Abstract!vars)
  OBVIOUS
<1>1. AnyStep /\ \A p \in Proc : nSent[p] \in Nat
  BY Steps DEF BaseInv, Types
<1>2. ASSUME NEW p \in Proc, SendDoes(p) PROVE [Abstract!Next]_(Abstract!vars)
  <2>1. \A r \in Proc : nSent'[r] = IF r = p THEN nSent[r] + 1 ELSE nSent[r]
    BY <1>2 DEF SendDoes
  <2>2. [r \in Proc |-> nSent[r] - 1]' = [[r \in Proc |-> nSent[r] - 1] EXCEPT ![p] = @ + 1]
    <3> DEFINE f == [r \in Proc |-> nSent[r] - 1]
               g == [r \in Proc |-> nSent'[r] - 1]
    <3>1. \A r \in Proc : g[r] = IF r = p THEN f[r] + 1 ELSE f[r]
      BY <1>1, <2>1
    <3>2. f = [r \in Proc |-> f[r]] /\ g = [r \in Proc |-> g[r]]
      OBVIOUS
    <3> HIDE DEF f, g
    <3>3. g = [f EXCEPT ![p] = @ + 1]
      BY <3>1, <3>2
    <3> QED
      BY <3>3 DEF f, g
  <2>3. p \notin crashed /\ nSent[p] - 1 < MsgCount[p] /\ UNCHANGED <<log, crashed>>
    BY <1>1, <1>2, SystemAssumption DEF SendDoes
  <2>4. Abstract!Broadcast(p)
    BY <2>2, <2>3 DEF Abstract!Broadcast
  <2> QED
    BY <2>4 DEF Abstract!Next
<1>3. ASSUME NEW p \in Proc, NEW id \in Ids, DeliverInsertDoes(p, id)
      PROVE  [Abstract!Next]_(Abstract!vars)
  BY <1>3, InsertRefines
<1>4. ASSUME NEW p \in Proc, CrashDoes(p) PROVE [Abstract!Next]_(Abstract!vars)
  <2>1. Abstract!Crash(p)
    BY <1>4 DEF CrashDoes, Abstract!Crash
  <2> QED
    BY <2>1 DEF Abstract!Next
<1>5. CASE UNCHANGED <<nSent, log, crashed>>
  BY <1>5 DEF Abstract!vars
<1> QED
  BY ZenonT(60), <1>1, <1>2, <1>3, <1>4, <1>5
     DEF AnyStep, SendOnLinkDoes, SendQueueDoes, DeliverUncountDoes, DeliverPopDoes,
         SendInternalDoes, NotifyAckDoes, DeliverEraseDoes, DeliverSendNextDoes, ReceiveDoes, vars

\* The three threads of every process, the window, the acks and the links
\* together implement the FIFO broadcast that the log files show.
THEOREM BroadcastRefinement == Spec => ImplementsBroadcast
<1>1. Init => Abstract!Init
  BY DEF Init, Abstract!Init
<1> QED
  BY <1>1, KeptInvariants, BroadcastStep, PTL DEF Spec, ImplementsBroadcast, Abstract!Spec

=============================================================================
