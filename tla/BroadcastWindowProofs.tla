----------------------- MODULE BroadcastWindowProofs -----------------------
(***************************************************************************)
(* Proofs about UniformReliableBroadcast: the way of a process's own       *)
(* messages through the window.  The theorems suppose that a push does not *)
(* reuse the storage of an element that DeliverPending popped and still    *)
(* has to read (~SlotReuse).                                               *)
(***************************************************************************)
EXTENDS BroadcastAgreementProofs

\* Whoever keeps a message, its author does.
AuthorInv == \A q \in Proc, id \in Ids : Holds(q, id) => Holds(Author(id), id)

\* Nothing is kept at the start.
LEMMA AuthorInit == Init => AuthorInv
<1> SUFFICES ASSUME Init, NEW p \in Proc, NEW id \in Ids PROVE ~Holds(p, id)
  BY DEF AuthorInv
<1>1. dlvId[p] = NoId /\ id # NoId /\ Author(id) \in Proc /\ SeqOf(id) \in Nat \ {0}
        /\ pending[p] = {}
  BY IdsAre DEF Init
<1>2. delivered[p][Author(id)] = NothingDelivered
  BY <1>1 DEF Init
<1> QED
  BY <1>1, <1>2 DEF Holds, DeliveredAt, Contains, NothingDelivered

\* A process begins to keep its own messages by itself, and others by a relay
\* from a process that keeps them.
LEMMA BeginsFrom ==
  ASSUME BaseInv, KeepInv, NEW r \in Proc, NEW i \in Ids, BeginsToHold(r, i)
  PROVE  \/ Author(i) = r /\ (SendInternalDoes(r, i) \/ DeliverSendNextDoes(r, i))
         \/ \E q \in Proc : Holds(q, i)
<1>1. CASE SendInternalDoes(r, i) \/ DeliverSendNextDoes(r, i)
  BY <1>1 DEF SendInternalDoes, DeliverSendNextDoes, Author
<1>2. CASE NotifyAckDoes(r, i)
  <2>1. recvd[r].id = i /\ recvd[r].sender \in Proc
    BY <1>2 DEF NotifyAckDoes, BaseInv, Types
  <2> QED
    BY <2>1 DEF KeepInv, Trace
<1> QED
  BY <1>1, <1>2 DEF BeginsToHold

\* A step lets nobody keep a message that its author does not keep.
LEMMA AuthorStep == BaseInv /\ DeliveryInv /\ KeepInv /\ AuthorInv /\ [Next]_vars => AuthorInv'
<1> SUFFICES ASSUME BaseInv, DeliveryInv, KeepInv, AuthorInv, [Next]_vars,
                    NEW r \in Proc, NEW i \in Ids, Holds(r, i)'
             PROVE  Holds(Author(i), i)'
  BY DEF AuthorInv
<1>1. AnyStep /\ Author(i) \in Proc
  BY Steps, IdsAre
<1>2. CASE \E q \in Proc : Holds(q, i)
  BY <1>1, <1>2, HoldsStep DEF AuthorInv
<1>3. CASE Author(i) = r
  BY <1>3
<1> QED
  BY <1>1, <1>2, <1>3, HoldsStep, BeginsFrom

\* A process begins to keep an own message when main or DeliverPending sends it,
\* and never because it comes back from a peer.
LEMMA OwnBegins ==
  ASSUME BaseInv, DeliveryInv, KeepInv, AuthorInv, AnyStep,
         NEW i \in Ids, Holds(Author(i), i)'
  PROVE  \/ Holds(Author(i), i)
         \/ SendInternalDoes(Author(i), i)
         \/ DeliverSendNextDoes(Author(i), i)
BY HoldsStep, BeginsFrom, IdsAre DEF AuthorInv
-----------------------------------------------------------------------------
(***************************************************************************)
(* The queue.                                                              *)
(***************************************************************************)
Elements(s) == {s[i] : i \in DOMAIN s}
NoRepetition(s) == \A i, j \in DOMAIN s : s[i] = s[j] => i = j

\* Appending a new element keeps the elements different.
LEMMA AppendElements ==
  ASSUME NEW s \in Seq(Nat), NEW e \in Nat
  PROVE  /\ Elements(Append(s, e)) = Elements(s) \union {e}
         /\ NoRepetition(s) /\ e \notin Elements(s) => NoRepetition(Append(s, e))
<1> DEFINE n == Len(s)
           a == Append(s, e)
<1>1. /\ n \in Nat /\ DOMAIN s = 1..n
      /\ DOMAIN a = 1..(n + 1) /\ a[n + 1] = e
      /\ \A i \in 1..n : a[i] = s[i]
  OBVIOUS
<1> HIDE DEF n, a
<1>2. Elements(a) = Elements(s) \union {e}
  <2>1. ASSUME NEW x \in Elements(a) PROVE x \in Elements(s) \union {e}
    <3>1. PICK i \in 1..(n + 1) : x = a[i]
      BY <1>1 DEF Elements
    <3>2. i \in 1..n \/ i = n + 1
      BY <1>1
    <3> QED
      BY <1>1, <3>1, <3>2 DEF Elements
  <2>2. ASSUME NEW x \in Elements(s) \union {e} PROVE x \in Elements(a)
    <3>1. CASE x = e
      BY <1>1, <3>1 DEF Elements
    <3>2. CASE x \in Elements(s)
      <4>1. PICK i \in 1..n : x = s[i]
        BY <1>1, <3>2 DEF Elements
      <4>2. i \in 1..(n + 1)
        BY <1>1
      <4> QED
        BY <1>1, <4>1, <4>2 DEF Elements
    <3> QED
      BY <2>2, <3>1, <3>2
  <2> QED
    BY <2>1, <2>2
<1>3. ASSUME NoRepetition(s), e \notin Elements(s), NEW i \in 1..(n + 1), NEW j \in 1..(n + 1), a[i] = a[j]
      PROVE  i = j
  <2>1. \A k \in 1..n : a[k] \in Elements(s) /\ a[k] = s[k]
    BY <1>1 DEF Elements
  <2>2. (i \in 1..n \/ i = n + 1) /\ (j \in 1..n \/ j = n + 1)
    BY <1>1
  <2> QED
    BY <1>1, <1>3, <2>1, <2>2 DEF NoRepetition
<1>4. NoRepetition(s) /\ e \notin Elements(s) => NoRepetition(a)
  BY <1>1, <1>3 DEF NoRepetition
<1> QED
  BY <1>2, <1>4 DEF a

\* Popping the front takes it out, and nothing else.
LEMMA PopElements ==
  ASSUME NEW s \in Seq(Nat), s # << >>, NoRepetition(s)
  PROVE  /\ Head(s) \in Elements(s)
         /\ Elements(Tail(s)) = Elements(s) \ {Head(s)}
         /\ NoRepetition(Tail(s))
<1> DEFINE n == Len(s)
           t == Tail(s)
           h == Head(s)
<1>1. /\ n \in Nat \ {0} /\ DOMAIN s = 1..n
      /\ DOMAIN t = 1..(n - 1) /\ h = s[1]
      /\ \A i \in 1..(n - 1) : t[i] = s[i + 1]
  OBVIOUS
<1> HIDE DEF n, t, h
<1>2. h \in Elements(s)
  BY <1>1 DEF Elements
<1>3. Elements(t) = Elements(s) \ {h}
  <2>1. ASSUME NEW x \in Elements(t) PROVE x \in Elements(s) \ {h}
    <3>1. PICK i \in 1..(n - 1) : x = s[i + 1]
      BY <1>1, <2>1 DEF Elements
    <3>2. i + 1 \in 1..n /\ i + 1 # 1 /\ 1 \in 1..n
      BY <1>1
    <3> QED
      BY <1>1, <3>1, <3>2 DEF Elements, NoRepetition
  <2>2. ASSUME NEW x \in Elements(s) \ {h} PROVE x \in Elements(t)
    <3>1. PICK i \in 1..n : x = s[i]
      BY <1>1, <2>2 DEF Elements
    <3>2. i # 1
      BY <1>1, <2>2, <3>1
    <3>3. i - 1 \in 1..(n - 1) /\ (i - 1) + 1 = i
      BY <1>1, <3>2
    <3>4. t[i - 1] = x
      BY <1>1, <3>1, <3>3
    <3> QED
      BY <1>1, <3>3, <3>4 DEF Elements
  <2> QED
    BY <2>1, <2>2
<1>4. NoRepetition(t)
  <2>1. ASSUME NEW i \in 1..(n - 1), NEW j \in 1..(n - 1), t[i] = t[j] PROVE i = j
    <3>1. i + 1 \in 1..n /\ j + 1 \in 1..n /\ s[i + 1] = s[j + 1]
      BY <1>1, <2>1
    <3>2. i + 1 = j + 1
      BY <1>1, <3>1 DEF NoRepetition
    <3> QED
      BY <3>2
  <2> QED
    BY <1>1, <2>1 DEF NoRepetition
<1> QED
  BY <1>2, <1>3, <1>4 DEF t, h
-----------------------------------------------------------------------------
(***************************************************************************)
(* Own messages.                                                           *)
(***************************************************************************)
\* p keeps its own message s.
HoldsOwn(p, s) == Holds(p, <<p, s>>)

\* An own message that p has yet to send is in one place: with main, in the
\* queue once, or with DeliverPending.
OwnPlaces(p) ==
  /\ NoRepetition(queue[p])
  /\ mainSeq[p] \notin Elements(queue[p])
  /\ popped[p] \notin Elements(queue[p])
  /\ \A s \in Elements(queue[p]) : ~HoldsOwn(p, s)
  /\ mainSeq[p] # 0 => mainSeq[p] # popped[p] /\ ~HoldsOwn(p, mainSeq[p])
  /\ popped[p] # 0 => ~HoldsOwn(p, popped[p])

OwnInv == \A p \in Proc : OwnPlaces(p)

\* There are no own messages at the start.
LEMMA OwnInit == Init => OwnInv
BY DEF Init, OwnInv, OwnPlaces, Elements, NoRepetition

\* The numbers in the queue are numbers of messages.
LEMMA QueueNumbers ==
  ASSUME BaseInv, NEW p \in Proc
  PROVE  /\ \A s \in Elements(queue[p]) : s \in Nat \ {0} /\ s < nSent[p]
         /\ \A s \in Nat \ {0} : s < nSent[p] => <<p, s>> \in Ids
         /\ nSent[p] \in Nat \ {0} /\ nSent[p] <= MsgCount[p] + 1 /\ MsgCount[p] \in Nat
<1>1. nSent[p] \in Nat \ {0} /\ nSent[p] <= MsgCount[p] + 1 /\ MsgCount[p] \in Nat
  BY SystemAssumption DEF BaseInv, Numbers
<1>2. \A i \in DOMAIN queue[p] : queue[p][i] \in 1..(nSent[p] - 1)
  BY DEF BaseInv, Numbers
<1>3. ASSUME NEW s \in Elements(queue[p]) PROVE s \in Nat \ {0} /\ s < nSent[p]
  BY <1>1, <1>2 DEF Elements
<1>4. ASSUME NEW s \in Nat \ {0}, s < nSent[p] PROVE <<p, s>> \in Ids
  BY <1>1, <1>4, IdsAre
<1> QED
  BY <1>1, <1>3, <1>4

\* What begins to be kept leaves the hands of main or of DeliverPending.
LEMMA OwnHeld ==
  ASSUME BaseInv, DeliveryInv, KeepInv, AuthorInv, AnyStep,
         NEW p \in Proc, NEW s, <<p, s>> \in Ids, HoldsOwn(p, s)'
  PROVE  \/ HoldsOwn(p, s)
         \/ /\ s = mainSeq[p] /\ mainSeq[p] # 0 /\ mainSeq'[p] = 0
            /\ pc'[p]["main"] = "sending" /\ popped' = popped /\ queue' = queue
         \/ /\ s = popped[p] /\ popped[p] # 0 /\ popped'[p] = 0
            /\ mainSeq' = mainSeq /\ queue' = queue
<1> DEFINE i == <<p, s>>
<1>1. i \in Ids /\ i = <<p, s>> /\ Author(i) = p
  BY DEF Author
<1>2. Holds(p, i)' /\ (Holds(p, i) => HoldsOwn(p, s))
  BY DEF HoldsOwn
<1> HIDE DEF i
<1>3. CASE SendInternalDoes(p, i)
  <2>1. /\ i = <<p, mainSeq[p]>> /\ pc[p]["main"] = "count" /\ pc'[p]["main"] = "sending"
        /\ mainSeq'[p] = 0 /\ popped' = popped /\ queue' = queue
    BY <1>3 DEF SendInternalDoes, Thread
  <2>2. mainSeq[p] # 0
    BY <2>1 DEF BaseInv, MainOK
  <2> QED
    BY <1>1, <2>1, <2>2
<1>4. CASE DeliverSendNextDoes(p, i)
  <2>1. /\ i = <<p, popped[p]>> /\ pc[p]["dlv"] = "recount"
        /\ popped'[p] = 0 /\ mainSeq' = mainSeq /\ queue' = queue
    BY <1>4 DEF DeliverSendNextDoes
  <2>2. popped[p] # 0
    BY <2>1 DEF BaseInv, DlvOK
  <2> QED
    BY <1>1, <2>1, <2>2
<1> QED
  BY <1>1, <1>2, <1>3, <1>4, OwnBegins

\* A step keeps every own message in one place.
LEMMA OwnStep ==
  ~SlotReuse /\ BaseInv /\ DeliveryInv /\ SentInv /\ KeepInv /\ AuthorInv /\ OwnInv /\ [Next]_vars
    => OwnInv'
<1> SUFFICES ASSUME ~SlotReuse, BaseInv, DeliveryInv, SentInv, KeepInv, AuthorInv, OwnInv,
                    [Next]_vars, NEW r \in Proc
             PROVE  OwnPlaces(r)'
  BY DEF OwnInv
<1>0. AnyStep /\ OwnPlaces(r)
  BY Steps DEF OwnInv
<1>1. /\ \A s \in Elements(queue[r]) : s \in Nat \ {0} /\ s < nSent[r] /\ <<r, s>> \in Ids
      /\ nSent[r] \in Nat \ {0}
      /\ \A s \in Nat \ {0} : s < nSent[r] => <<r, s>> \in Ids
  BY QueueNumbers
<1>2. /\ mainSeq[r] \in Nat /\ mainSeq[r] < nSent[r] /\ popped[r] \in Nat /\ popped[r] < nSent[r]
      /\ queue[r] \in Seq(Nat)
      /\ mainSeq[r] # 0 => <<r, mainSeq[r]>> \in Ids
      /\ popped[r] # 0 => <<r, popped[r]>> \in Ids
  BY <1>1 DEF BaseInv, Types, Numbers
<1>3. ASSUME NEW s, <<r, s>> \in Ids, ~HoldsOwn(r, s),
             s # mainSeq[r] \/ mainSeq'[r] # 0 \/ pc'[r]["main"] # "sending",
             s # popped[r] \/ popped'[r] # 0
      PROVE  ~HoldsOwn(r, s)'
  BY <1>0, <1>3, OwnHeld
<1>4. CASE queue'[r] = queue[r] /\ mainSeq'[r] = mainSeq[r] /\ popped'[r] = popped[r]
  <2>1. ASSUME NEW s, <<r, s>> \in Ids, ~HoldsOwn(r, s), s # 0 PROVE ~HoldsOwn(r, s)'
    BY <1>3, <1>4, <2>1
  <2> QED
    BY <1>0, <1>1, <1>2, <1>4, <2>1 DEF OwnPlaces
<1>5. ASSUME NEW p \in Proc, SendDoes(p) PROVE OwnPlaces(r)'
  <2>1. CASE r # p
    BY <1>4, <1>5, <2>1 DEF SendDoes
  <2>2. CASE r = p
    <3>1. /\ queue'[r] = queue[r] /\ popped'[r] = popped[r] /\ mainSeq'[r] = nSent[r]
          /\ nSent[r] <= MsgCount[r]
      BY <1>5, <2>2 DEF SendDoes
    <3>2. <<r, nSent[r]>> \in Ids
      <4>1. nSent[r] \in 1..MsgCount[r]
        BY <1>1, <3>1, QueueNumbers
      <4> QED
        BY <4>1, IdsAre
    <3>3. ~HoldsOwn(r, nSent[r])
      <4> DEFINE i == <<r, nSent[r]>>
      <4>1. i \in Ids /\ Author(i) = r /\ SeqOf(i) = nSent[r]
        BY <3>2 DEF Author, SeqOf
      <4>2. ~Sent(i)
        BY <1>1, <4>1 DEF Sent
      <4> HIDE DEF i
      <4>3. ~Holds(r, i)
        BY <1>1, <4>1, <4>2 DEF SentInv, Sent, Holds, DeliveredAt
      <4> QED
        BY <4>3 DEF i, HoldsOwn
    <3>4. (~HoldsOwn(r, mainSeq[r]))'
      <4>1. PICK m : m = nSent[r]
        OBVIOUS
      <4>2. m # mainSeq[r] /\ m # popped[r] /\ <<r, m>> \in Ids /\ ~HoldsOwn(r, m)
        BY <1>1, <1>2, <3>2, <3>3, <4>1
      <4>3. ~HoldsOwn(r, m)'
        BY <1>3, <4>2
      <4>4. mainSeq'[r] = m
        BY <3>1, <4>1
      <4> QED
        BY <4>3, <4>4 DEF HoldsOwn, Holds, DeliveredAt
    <3>5. \A s \in Elements(queue[r]) : ~HoldsOwn(r, s)'
      BY <1>0, <1>1, <1>2, <1>3, <3>1 DEF OwnPlaces
    <3>6. popped[r] # 0 => ~HoldsOwn(r, popped[r])'
      BY <1>0, <1>1, <1>2, <1>3, <3>1 DEF OwnPlaces
    <3>7. nSent[r] # popped[r]
      BY <1>1, <1>2
    <3>8. nSent[r] \notin Elements(queue[r])
      <4> SUFFICES ASSUME nSent[r] \in Elements(queue[r]) PROVE FALSE
        OBVIOUS
      <4>1. nSent[r] < nSent[r]
        BY <1>1
      <4> QED
        BY <1>1, <4>1
    <3> QED
      BY <1>0, <3>1, <3>4, <3>5, <3>6, <3>7, <3>8 DEF OwnPlaces
  <2> QED
    BY <2>1, <2>2
<1>6. ASSUME NEW p \in Proc, SendQueueDoes(p) PROVE OwnPlaces(r)'
  <2>1. CASE r # p
    BY <1>4, <1>6, <2>1 DEF SendQueueDoes
  <2>2. CASE r = p
    <3>1. /\ queue'[r] = Append(queue[r], mainSeq[r]) /\ popped'[r] = popped[r] /\ mainSeq'[r] = 0
          /\ pc'[r]["main"] = "idle" /\ pc[r]["main"] = "push"
      BY <1>6, <2>2 DEF SendQueueDoes, Thread
    <3>2. mainSeq[r] # 0
      BY <3>1 DEF BaseInv, MainOK
    <3>3. /\ Elements(queue'[r]) = Elements(queue[r]) \union {mainSeq[r]}
          /\ NoRepetition(queue'[r])
      BY <1>0, <1>2, <3>1, AppendElements DEF OwnPlaces
    <3>4. \A s \in {mainSeq[r]} : ~HoldsOwn(r, s)'
      <4> SUFFICES ASSUME NEW s, s = mainSeq[r] PROVE ~HoldsOwn(r, s)'
        OBVIOUS
      <4>1. s # popped[r] /\ <<r, s>> \in Ids
        BY <1>0, <1>2, <3>2 DEF OwnPlaces
      <4>2. ~HoldsOwn(r, s)
        BY <1>0, <3>2 DEF OwnPlaces
      <4> QED
        BY <1>3, <3>1, <4>1, <4>2
    <3>5. \A s \in Elements(queue[r]) : ~HoldsOwn(r, s)'
      BY <1>0, <1>1, <1>2, <1>3, <3>1 DEF OwnPlaces
    <3>7. \A s \in Elements(queue'[r]) : ~HoldsOwn(r, s)'
      BY <3>3, <3>4, <3>5
    <3>8. popped'[r] \notin Elements(queue'[r]) /\ 0 \notin Elements(queue'[r])
      BY <1>0, <1>1, <3>1, <3>2, <3>3 DEF OwnPlaces
    <3>6. popped[r] # 0 => ~HoldsOwn(r, popped[r])'
      BY <1>0, <1>1, <1>2, <1>3, <3>1 DEF OwnPlaces
    <3> QED
      BY <3>1, <3>3, <3>6, <3>7, <3>8 DEF OwnPlaces
  <2> QED
    BY <2>1, <2>2
<1>7. ASSUME NEW p \in Proc, NEW id \in Ids, SendInternalDoes(p, id) PROVE OwnPlaces(r)'
  <2>1. CASE r # p
    BY <1>4, <1>7, <2>1 DEF SendInternalDoes
  <2>2. CASE r = p
    <3>1. queue'[r] = queue[r] /\ popped'[r] = popped[r] /\ mainSeq'[r] = 0
            /\ pc[r]["main"] = "count"
      BY <1>7, <2>2 DEF SendInternalDoes
    <3>2. mainSeq[r] # 0
      BY <3>1 DEF BaseInv, MainOK
    <3>3. \A s \in Elements(queue[r]) : ~HoldsOwn(r, s)'
      BY <1>0, <1>1, <1>2, <1>3, <3>1 DEF OwnPlaces
    <3>4. popped[r] # 0 => ~HoldsOwn(r, popped[r])'
      BY <1>0, <1>1, <1>2, <1>3, <3>1, <3>2 DEF OwnPlaces
    <3> QED
      BY <1>0, <1>1, <3>1, <3>3, <3>4 DEF OwnPlaces, HoldsOwn
  <2> QED
    BY <2>1, <2>2
<1>8. ASSUME NEW p \in Proc, DeliverPopDoes(p) PROVE OwnPlaces(r)'
  <2>1. CASE r # p \/ queue[p] = << >>
    BY <1>4, <1>8, <2>1 DEF DeliverPopDoes
  <2>2. CASE r = p /\ queue[p] # << >>
    <3>1. /\ queue'[r] = Tail(queue[r]) /\ popped'[r] = Head(queue[r]) /\ mainSeq'[r] = mainSeq[r]
          /\ queue[r] # << >> /\ pc[r]["dlv"] = "pop"
      BY <1>8, <2>2 DEF DeliverPopDoes
    <3>2. popped[r] = 0
      BY <3>1 DEF BaseInv, DlvOK
    <3>3. /\ Head(queue[r]) \in Elements(queue[r])
          /\ Elements(queue'[r]) = Elements(queue[r]) \ {Head(queue[r])}
          /\ NoRepetition(queue'[r])
      BY <1>0, <1>2, <3>1, PopElements DEF OwnPlaces
    <3>4. \A s \in Elements(queue[r]) : ~HoldsOwn(r, s)'
      BY <1>0, <1>1, <1>2, <1>3, <3>1, <3>2 DEF OwnPlaces
    <3>5. mainSeq[r] # 0 => ~HoldsOwn(r, mainSeq[r])'
      BY <1>0, <1>1, <1>2, <1>3, <3>1, <3>2 DEF OwnPlaces
    <3> QED
      BY <1>0, <1>1, <3>1, <3>3, <3>4, <3>5 DEF OwnPlaces, HoldsOwn
  <2> QED
    BY <2>1, <2>2
<1>9. ASSUME NEW p \in Proc, NEW id \in Ids, DeliverSendNextDoes(p, id) PROVE OwnPlaces(r)'
  <2>1. CASE r # p
    BY <1>4, <1>9, <2>1 DEF DeliverSendNextDoes
  <2>2. CASE r = p
    <3>1. queue'[r] = queue[r] /\ mainSeq'[r] = mainSeq[r] /\ popped'[r] = 0
            /\ pc[r]["dlv"] = "recount"
      BY <1>9, <2>2 DEF DeliverSendNextDoes
    <3>2. popped[r] # 0
      BY <3>1 DEF BaseInv, DlvOK
    <3>3. \A s \in Elements(queue[r]) : ~HoldsOwn(r, s)'
      BY <1>0, <1>1, <1>2, <1>3, <3>1 DEF OwnPlaces
    <3>4. mainSeq[r] # 0 => ~HoldsOwn(r, mainSeq[r])'
      BY <1>0, <1>1, <1>2, <1>3, <3>1, <3>2 DEF OwnPlaces
    <3> QED
      BY <1>0, <1>1, <3>1, <3>3, <3>4 DEF OwnPlaces, HoldsOwn
  <2> QED
    BY <2>1, <2>2
<1>10. ASSUME NEW p \in Proc, CrashDoes(p) PROVE OwnPlaces(r)'
  <2>1. CASE r # p
    BY <1>4, <1>10, <2>1 DEF CrashDoes
  <2>2. CASE r = p
    <3>1. queue'[r] = << >> /\ mainSeq'[r] = 0 /\ popped'[r] = 0
      BY <1>10, <2>2 DEF CrashDoes
    <3>2. Elements(queue'[r]) = {} /\ NoRepetition(queue'[r])
      BY <3>1 DEF Elements, NoRepetition
    <3> QED
      BY <3>1, <3>2 DEF OwnPlaces
  <2> QED
    BY <2>1, <2>2
<1>11. CASE UNCHANGED <<queue, mainSeq, popped>>
  BY <1>4, <1>11
<1> QED
  BY ZenonT(60), <1>0, <1>5, <1>6, <1>7, <1>8, <1>9, <1>10, <1>11
     DEF AnyStep, SendOnLinkDoes, DeliverUncountDoes, NotifyAckDoes, DeliverEraseDoes,
         DeliverInsertDoes, ReceiveDoes, vars
-----------------------------------------------------------------------------
(***************************************************************************)
(* No own message is lost.                                                 *)
(***************************************************************************)
\* Message s of p is with main, in the queue, with DeliverPending or kept.
Placed(p, s) ==
  \/ mainSeq[p] = s
  \/ s \in Elements(queue[p])
  \/ popped[p] = s
  \/ HoldsOwn(p, s)

PlacedInv == \A p \in Proc \ crashed : \A s \in 1..(nSent[p] - 1) : Placed(p, s)

\* At the start no number is taken.
LEMMA PlacedInit == Init => PlacedInv
<1> SUFFICES ASSUME Init, NEW p \in Proc PROVE 1..(nSent[p] - 1) = {}
  BY DEF PlacedInv
<1>1. nSent[p] = 1
  BY DEF Init
<1> QED
  BY <1>1

\* A message that has a place has one after a step that keeps main, the queue
\* and the popped message of its author.
LEMMA StaysPlaced ==
  ASSUME BaseInv, DeliveryInv, AnyStep, NEW r \in Proc, NEW s, <<r, s>> \in Ids, Placed(r, s),
         mainSeq[r] = s => mainSeq'[r] = s,
         s \in Elements(queue[r]) => s \in Elements(queue'[r]),
         popped[r] = s => popped'[r] = s
  PROVE  Placed(r, s)'
<1>1. CASE HoldsOwn(r, s)
  <2>1. HoldsOwn(r, s)'
    BY <1>1, HoldsStep DEF HoldsOwn
  <2> QED
    BY <2>1 DEF Placed
<1>2. CASE ~HoldsOwn(r, s)
  BY <1>2 DEF Placed
<1> QED
  BY <1>1, <1>2

\* A step drops no own message.
LEMMA PlacedStep ==
  ~SlotReuse /\ BaseInv /\ DeliveryInv /\ OwnInv /\ PlacedInv /\ [Next]_vars => PlacedInv'
<1> SUFFICES ASSUME ~SlotReuse, BaseInv, DeliveryInv, OwnInv, PlacedInv, [Next]_vars,
                    NEW r \in Proc, r \notin crashed', NEW s \in 1..(nSent'[r] - 1)
             PROVE  Placed(r, s)'
  BY DEF PlacedInv
<1>0. AnyStep /\ OwnPlaces(r)
  BY Steps DEF OwnInv
<1>1. /\ nSent[r] \in Nat \ {0} /\ nSent[r] <= MsgCount[r] + 1 /\ MsgCount[r] \in Nat
      /\ \A x \in Nat \ {0} : x < nSent[r] => <<r, x>> \in Ids
      /\ mainSeq[r] \in Nat /\ queue[r] \in Seq(Nat)
  BY QueueNumbers DEF BaseInv, Types
<1>2. nSent' = nSent => s \in Nat \ {0} /\ s < nSent[r]
  BY <1>1
<1>3. ASSUME s \in Nat \ {0}, s < nSent[r], crashed' = crashed
      PROVE  <<r, s>> \in Ids /\ Placed(r, s)
  <2>1. s \in 1..(nSent[r] - 1)
    BY <1>1, <1>3
  <2> QED
    BY <1>1, <1>3, <2>1 DEF PlacedInv
<1>4. CASE /\ crashed' = crashed /\ nSent' = nSent /\ queue'[r] = queue[r]
           /\ mainSeq'[r] = mainSeq[r] /\ popped'[r] = popped[r]
  BY <1>0, <1>2, <1>3, <1>4, StaysPlaced
<1>5. ASSUME NEW p \in Proc, SendDoes(p) PROVE Placed(r, s)'
  <2>1. crashed' = crashed /\ queue' = queue /\ popped' = popped
    BY <1>5 DEF SendDoes
  <2>2. CASE r # p
    <3>1. mainSeq'[r] = mainSeq[r] /\ nSent'[r] = nSent[r]
      BY <1>5, <2>2 DEF SendDoes
    <3>2. s \in Nat \ {0} /\ s < nSent[r]
      BY <1>1, <3>1
    <3> QED
      BY <1>0, <1>3, <2>1, <3>1, <3>2, StaysPlaced
  <2>3. CASE r = p
    <3>1. mainSeq'[r] = nSent[r] /\ nSent'[r] = nSent[r] + 1 /\ pc[r]["main"] = "idle"
      BY <1>5, <2>3 DEF SendDoes
    <3>2. mainSeq[r] = 0
      BY <3>1 DEF BaseInv, MainOK
    <3>3. s \in Nat \ {0} /\ (s < nSent[r] \/ s = nSent[r])
      BY <1>1, <3>1
    <3>4. CASE s = nSent[r]
      BY <3>1, <3>4 DEF Placed
    <3>5. CASE s < nSent[r]
      <4>1. mainSeq[r] # s
        BY <3>2, <3>3
      <4> QED
        BY <1>0, <1>3, <2>1, <3>3, <3>5, <4>1, StaysPlaced
    <3> QED
      BY <3>3, <3>4, <3>5
  <2> QED
    BY <2>2, <2>3
<1>6. ASSUME NEW p \in Proc, SendQueueDoes(p) PROVE Placed(r, s)'
  <2>1. crashed' = crashed /\ nSent' = nSent
    BY <1>6 DEF SendQueueDoes
  <2>2. CASE r # p
    BY <1>4, <1>6, <2>1, <2>2 DEF SendQueueDoes
  <2>3. CASE r = p
    <3>1. queue'[r] = Append(queue[r], mainSeq[r]) /\ popped'[r] = popped[r]
      BY <1>6, <2>3 DEF SendQueueDoes
    <3>2. Elements(queue'[r]) = Elements(queue[r]) \union {mainSeq[r]}
      BY <1>1, <3>1, AppendElements
    <3>3. CASE s = mainSeq[r]
      BY <3>2, <3>3 DEF Placed
    <3>4. CASE s # mainSeq[r]
      BY <1>0, <1>2, <1>3, <2>1, <3>1, <3>2, <3>4, StaysPlaced
    <3> QED
      BY <3>3, <3>4
  <2> QED
    BY <2>2, <2>3
<1>7. ASSUME NEW p \in Proc, NEW id \in Ids, SendInternalDoes(p, id) PROVE Placed(r, s)'
  <2>1. crashed' = crashed /\ nSent' = nSent /\ queue' = queue /\ popped' = popped
    BY <1>7 DEF SendInternalDoes
  <2>2. CASE r # p
    BY <1>4, <1>7, <2>1, <2>2 DEF SendInternalDoes
  <2>3. CASE r = p /\ s = mainSeq[r]
    <3>1. <<r, s>> \in pending'[r]
      BY <1>7, <2>3 DEF SendInternalDoes
    <3> QED
      BY <3>1 DEF Placed, HoldsOwn, Holds
  <2>4. CASE r = p /\ s # mainSeq[r]
    BY <1>0, <1>2, <1>3, <2>1, <2>4, StaysPlaced
  <2> QED
    BY <2>2, <2>3, <2>4
<1>8. ASSUME NEW p \in Proc, DeliverPopDoes(p) PROVE Placed(r, s)'
  <2>1. crashed' = crashed /\ nSent' = nSent /\ mainSeq' = mainSeq
    BY <1>8 DEF DeliverPopDoes
  <2>2. CASE r # p \/ queue[p] = << >>
    BY <1>4, <1>8, <2>1, <2>2 DEF DeliverPopDoes
  <2>3. CASE r = p /\ queue[p] # << >>
    <3>1. /\ queue'[r] = Tail(queue[r]) /\ popped'[r] = Head(queue[r])
          /\ queue[r] # << >> /\ pc[r]["dlv"] = "pop"
      BY <1>8, <2>3 DEF DeliverPopDoes
    <3>2. popped[r] = 0 /\ s # 0
      BY <1>2, <2>1, <3>1 DEF BaseInv, DlvOK
    <3>3. Elements(queue'[r]) = Elements(queue[r]) \ {Head(queue[r])}
      BY <1>0, <1>1, <3>1, PopElements DEF OwnPlaces
    <3>4. CASE s = Head(queue[r])
      BY <3>1, <3>4 DEF Placed
    <3>5. CASE s # Head(queue[r])
      BY <1>0, <1>2, <1>3, <2>1, <3>2, <3>3, <3>5, StaysPlaced
    <3> QED
      BY <3>4, <3>5
  <2> QED
    BY <2>2, <2>3
<1>9. ASSUME NEW p \in Proc, NEW id \in Ids, DeliverSendNextDoes(p, id) PROVE Placed(r, s)'
  <2>1. crashed' = crashed /\ nSent' = nSent /\ queue' = queue /\ mainSeq' = mainSeq
    BY <1>9 DEF DeliverSendNextDoes
  <2>2. CASE r # p
    BY <1>4, <1>9, <2>1, <2>2 DEF DeliverSendNextDoes
  <2>3. CASE r = p /\ s = popped[r]
    <3>1. <<r, s>> \in pending'[r]
      BY <1>9, <2>3 DEF DeliverSendNextDoes
    <3> QED
      BY <3>1 DEF Placed, HoldsOwn, Holds
  <2>4. CASE r = p /\ s # popped[r]
    BY <1>0, <1>2, <1>3, <2>1, <2>4, StaysPlaced
  <2> QED
    BY <2>2, <2>3, <2>4
<1>10. ASSUME NEW p \in Proc, CrashDoes(p) PROVE Placed(r, s)'
  <2>1. /\ r # p /\ r \notin crashed /\ nSent' = nSent
        /\ queue'[r] = queue[r] /\ mainSeq'[r] = mainSeq[r] /\ popped'[r] = popped[r]
    BY <1>10 DEF CrashDoes
  <2>2. s \in Nat \ {0} /\ s < nSent[r] /\ s \in 1..(nSent[r] - 1)
    BY <1>1, <1>2, <2>1
  <2>3. <<r, s>> \in Ids /\ Placed(r, s)
    BY <1>1, <2>1, <2>2 DEF PlacedInv
  <2> QED
    BY <1>0, <2>1, <2>3, StaysPlaced
<1>11. CASE UNCHANGED <<crashed, nSent, queue, mainSeq, popped>>
  BY <1>4, <1>11
<1>12. ASSUME NEW p \in Proc, NEW q \in Proc, NEW t \in Thread, SendOnLinkDoes(p, t, q)
       PROVE  Placed(r, s)'
  BY <1>11, <1>12 DEF SendOnLinkDoes
<1>13. ASSUME NEW p \in Proc, NEW q \in Proc, NEW id \in Ids, ReceiveDoes(p, q, id)
       PROVE  Placed(r, s)'
  BY <1>11, <1>13 DEF ReceiveDoes
<1>14. ASSUME NEW p \in Proc, NEW id \in Ids,
              NotifyAckDoes(p, id) \/ DeliverEraseDoes(p, id) \/ DeliverInsertDoes(p, id)
       PROVE  Placed(r, s)'
  BY <1>11, <1>14 DEF NotifyAckDoes, DeliverEraseDoes, DeliverInsertDoes
<1>15. ASSUME NEW p \in Proc, DeliverUncountDoes(p) PROVE Placed(r, s)'
  BY <1>11, <1>15 DEF DeliverUncountDoes
<1>16. CASE UNCHANGED vars
  BY <1>11, <1>16 DEF vars
<1> QED
  BY <1>0, <1>5, <1>6, <1>7, <1>8, <1>9, <1>10, <1>12, <1>13, <1>14, <1>15, <1>16 DEF AnyStep

\* The invariants of the window hold together.
LEMMA WindowInvariants ==
  ~SlotReuse /\ Spec
    => [](BaseInv /\ DeliveryInv /\ SentInv /\ KeepInv /\ AuthorInv /\ OwnInv /\ PlacedInv)
<1>1. ~SlotReuse => [](~SlotReuse)
  OBVIOUS
<1> QED
  BY <1>1, KeptInvariants, AgreementInvariants, AuthorInit, AuthorStep, OwnInit, OwnStep, PlacedInit,
     PlacedStep, PTL DEF Spec

\* Once Send has taken a number, the message is in the hands of main or of
\* DeliverPending, in own_pending_for_broadcast_, or kept, unless a push reuses
\* the storage of a popped element.
THEOREM OwnNotLostHolds == ~SlotReuse /\ Spec => []OwnNotLost
<1>1. PlacedInv => OwnNotLost
  BY DEF PlacedInv, Placed, HoldsOwn, Elements, OwnNotLost
<1> QED
  BY <1>1, WindowInvariants, PTL
-----------------------------------------------------------------------------
(***************************************************************************)
(* n_own_pending_for_delivery_ counts the messages in the window.          *)
(***************************************************************************)
\* Message s of p counts against the window of p.
Counted(p, s) ==
  /\ <<p, s>> \in pending[p] \/ dlvId[p] = <<p, s>>
  /\ ~DeliveredAt(p, <<p, s>>)
  /\ dlvId[p] = <<p, s>> => pc[p]["dlv"] = "uncount"

\* The window is finite, and no larger than the driver's number of messages.
LEMMA WindowSize ==
  ASSUME NEW p \in Proc
  PROVE  /\ InWindow(p) = {s \in 1..MsgCount[p] : Counted(p, s)}
         /\ IsFiniteSet(InWindow(p))
         /\ Cardinality(InWindow(p)) \in 0..MsgCount[p]
<1>1. InWindow(p) = {s \in 1..MsgCount[p] : Counted(p, s)}
  BY DEF InWindow, Counted
<1>2. MsgCount[p] \in Nat
  BY SystemAssumption
<1>3. IsFiniteSet(1..MsgCount[p]) /\ Cardinality(1..MsgCount[p]) = MsgCount[p]
  <2>1. IsFiniteSet(1..MsgCount[p])
          /\ Cardinality(1..MsgCount[p]) = IF 1 > MsgCount[p] THEN 0 ELSE MsgCount[p] - 1 + 1
    BY SMTT(30), <1>2, FS_Interval
  <2> QED
    BY <1>2, <2>1
<1>4. /\ IsFiniteSet(InWindow(p))
      /\ Cardinality(InWindow(p)) <= MsgCount[p]
  BY ZenonT(60), <1>1, <1>3, FS_Subset
<1>5. Cardinality(InWindow(p)) \in Nat
  BY <1>4, FS_CardinalityType
<1> QED
  BY <1>1, <1>2, <1>4, <1>5

\* At the start the window is empty.
LEMMA AccountInit == Init => OwnAccounting
<1> SUFFICES ASSUME Init, NEW p \in Proc PROVE nOwn[p] = Cardinality(InWindow(p))
  BY DEF OwnAccounting
<1>1. nOwn[p] = 0 /\ pending[p] = {} /\ dlvId[p] = NoId
  BY DEF Init
<1>2. ASSUME NEW s \in 1..MsgCount[p] PROVE ~Counted(p, s)
  BY <1>1 DEF Counted, NoId
<1>3. InWindow(p) = {}
  BY <1>2, WindowSize
<1> QED
  BY <1>1, <1>3, FS_EmptySet

\* The counter follows the window when nothing enters or leaves it, ...
LEMMA AccountSame ==
  ASSUME NEW r \in Proc, nOwn[r] = Cardinality(InWindow(r)), nOwn'[r] = nOwn[r],
         \A s \in 1..MsgCount[r] : Counted(r, s)' <=> Counted(r, s)
  PROVE  nOwn'[r] = Cardinality(InWindow(r))'
<1>1. InWindow(r) = {s \in 1..MsgCount[r] : Counted(r, s)}
  BY WindowSize
<1>2. InWindow(r)' = {s \in 1..MsgCount[r] : Counted(r, s)'}
  BY DEF InWindow, Counted
<1>3. InWindow(r)' = InWindow(r)
  BY <1>1, <1>2
<1> QED
  BY <1>3

\* ... when message x enters it, ...
LEMMA AccountEnter ==
  ASSUME NEW r \in Proc, nOwn[r] = Cardinality(InWindow(r)), nOwn'[r] = nOwn[r] + 1,
         NEW x \in 1..MsgCount[r], ~Counted(r, x),
         \A s \in 1..MsgCount[r] : Counted(r, s)' <=> Counted(r, s) \/ s = x
  PROVE  nOwn'[r] = Cardinality(InWindow(r))'
<1>1. InWindow(r) = {s \in 1..MsgCount[r] : Counted(r, s)} /\ IsFiniteSet(InWindow(r))
  BY WindowSize
<1>2. InWindow(r)' = {s \in 1..MsgCount[r] : Counted(r, s)'}
  BY DEF InWindow, Counted
<1>3. InWindow(r)' = InWindow(r) \union {x} /\ x \notin InWindow(r)
  BY <1>1, <1>2
<1>4. Cardinality(InWindow(r) \union {x}) = Cardinality(InWindow(r)) + 1
  BY <1>1, <1>3, FS_AddElement
<1> QED
  BY <1>3, <1>4

\* ... and when message x leaves it.
LEMMA AccountLeave ==
  ASSUME NEW r \in Proc, nOwn[r] = Cardinality(InWindow(r)), nOwn'[r] = nOwn[r] - 1,
         NEW x \in 1..MsgCount[r], Counted(r, x),
         \A s \in 1..MsgCount[r] : Counted(r, s)' <=> Counted(r, s) /\ s # x
  PROVE  nOwn'[r] = Cardinality(InWindow(r))'
<1>1. InWindow(r) = {s \in 1..MsgCount[r] : Counted(r, s)} /\ IsFiniteSet(InWindow(r))
  BY WindowSize
<1>2. InWindow(r)' = {s \in 1..MsgCount[r] : Counted(r, s)'}
  BY DEF InWindow, Counted
<1>3. InWindow(r)' = InWindow(r) \ {x} /\ x \in InWindow(r)
  BY <1>1, <1>2
<1>4. Cardinality(InWindow(r) \ {x}) = Cardinality(InWindow(r)) - 1
  BY <1>1, <1>3, FS_RemoveElement
<1> QED
  BY <1>3, <1>4

\* A step moves the counter with the window.
LEMMA AccountStep ==
  BaseInv /\ DeliveryInv /\ KeepInv /\ AuthorInv /\ OwnInv /\ OwnAccounting /\ [Next]_vars
    => OwnAccounting'
<1> SUFFICES ASSUME BaseInv, DeliveryInv, KeepInv, AuthorInv, OwnInv, OwnAccounting, [Next]_vars,
                    NEW r \in Proc, r \notin crashed'
             PROVE  nOwn'[r] = Cardinality(InWindow(r))'
  BY DEF OwnAccounting
<1> DEFINE Goal == nOwn'[r] = Cardinality(InWindow(r))'
<1>0. AnyStep /\ OwnPlaces(r) /\ "dlv" \in Thread
  BY Steps DEF OwnInv, Thread
<1>1. r \notin crashed
  BY <1>0, WhoChanges DEF CrashDoes
<1>2. nOwn[r] = Cardinality(InWindow(r))
  BY <1>1 DEF OwnAccounting
<1>3. \A s \in 1..MsgCount[r] : /\ <<r, s>> \in Ids /\ <<r, s>> # NoId
                                /\ Author(<<r, s>>) = r /\ SeqOf(<<r, s>>) = s
  BY IdsAre DEF Author, SeqOf
<1>4. CASE /\ nOwn'[r] = nOwn[r] /\ pending'[r] = pending[r] /\ dlvId'[r] = dlvId[r]
           /\ delivered' = delivered
           /\ (pc'[r]["dlv"] = "uncount") <=> (pc[r]["dlv"] = "uncount")
  <2>1. \A s \in 1..MsgCount[r] : Counted(r, s)' <=> Counted(r, s)
    BY <1>4 DEF Counted, DeliveredAt
  <2> QED
    BY <1>2, <1>4, <2>1, AccountSame
<1>5. ASSUME NEW p \in Proc, NEW q \in Proc, NEW t \in Thread, SendOnLinkDoes(p, t, q) PROVE Goal
  <2>1. /\ nOwn' = nOwn /\ pending' = pending /\ dlvId' = dlvId /\ delivered' = delivered
    BY <1>5 DEF SendOnLinkDoes
  <2>2. (pc'[r]["dlv"] = "uncount") <=> (pc[r]["dlv"] = "uncount")
    BY <1>0, <1>5 DEF SendOnLinkDoes, AfterSending
  <2> QED
    BY <1>4, <2>1, <2>2
<1>6. ASSUME NEW p \in Proc, SendDoes(p) PROVE Goal
  BY <1>0, <1>4, <1>6 DEF SendDoes
<1>7. ASSUME NEW p \in Proc, SendQueueDoes(p) PROVE Goal
  BY <1>0, <1>4, <1>7 DEF SendQueueDoes
<1>8. ASSUME NEW p \in Proc, DeliverPopDoes(p) PROVE Goal
  BY <1>0, <1>4, <1>8 DEF DeliverPopDoes
<1>9. ASSUME NEW p \in Proc, CrashDoes(p) PROVE Goal
  <2>1. r # p
    BY <1>9 DEF CrashDoes
  <2> QED
    BY <1>0, <1>4, <1>9, <2>1 DEF CrashDoes
<1>10. ASSUME NEW p \in Proc, NEW q \in Proc, NEW id \in Ids, ReceiveDoes(p, q, id) PROVE Goal
  BY <1>0, <1>4, <1>10 DEF ReceiveDoes
<1>11. ASSUME NEW x \in 1..MsgCount[r], ~HoldsOwn(r, x), nOwn'[r] = nOwn[r] + 1,
              pending'[r] = pending[r] \union {<<r, x>>}, dlvId' = dlvId, delivered' = delivered,
              (pc'[r]["dlv"] = "uncount") <=> (pc[r]["dlv"] = "uncount")
       PROVE  Goal
  <2>1. <<r, x>> \notin pending[r] /\ dlvId[r] # <<r, x>> /\ ~DeliveredAt(r, <<r, x>>)
    BY <1>11 DEF HoldsOwn, Holds
  <2>2. ~Counted(r, x)
    BY <2>1 DEF Counted
  <2>3. \A s \in 1..MsgCount[r] : Counted(r, s)' <=> Counted(r, s) \/ s = x
    BY <1>11, <2>1 DEF Counted, DeliveredAt
  <2> QED
    BY <1>2, <1>11, <2>2, <2>3, AccountEnter
<1>12. ASSUME NEW p \in Proc, NEW id \in Ids, SendInternalDoes(p, id) PROVE Goal
  <2>1. CASE r # p
    BY <1>0, <1>4, <1>12, <2>1 DEF SendInternalDoes
  <2>2. CASE r = p
    <3>1. PICK x : x = mainSeq[r]
      OBVIOUS
    <3>2. /\ nOwn'[r] = nOwn[r] + 1 /\ pending'[r] = pending[r] \union {<<r, x>>}
          /\ dlvId' = dlvId /\ delivered' = delivered /\ pc'[r]["dlv"] = pc[r]["dlv"]
          /\ <<r, x>> \in Ids /\ pc[r]["main"] = "count"
      BY <1>0, <1>12, <2>2, <3>1 DEF SendInternalDoes
    <3>3. mainSeq[r] # 0
      BY <3>2 DEF BaseInv, MainOK
    <3>4. ~HoldsOwn(r, x)
      BY <1>0, <3>1, <3>3 DEF OwnPlaces
    <3>5. x \in 1..MsgCount[r]
      BY <3>2, IdsAre DEF Author, SeqOf
    <3> QED
      BY <1>11, <3>2, <3>4, <3>5
  <2> QED
    BY <2>1, <2>2
<1>13. ASSUME NEW p \in Proc, NEW id \in Ids, DeliverSendNextDoes(p, id) PROVE Goal
  <2>1. CASE r # p
    BY <1>0, <1>4, <1>13, <2>1 DEF DeliverSendNextDoes
  <2>2. CASE r = p
    <3>1. PICK x : x = popped[r]
      OBVIOUS
    <3>2. /\ nOwn'[r] = nOwn[r] + 1 /\ pending'[r] = pending[r] \union {<<r, x>>}
          /\ dlvId' = dlvId /\ delivered' = delivered
          /\ pc[r]["dlv"] = "recount" /\ pc'[r]["dlv"] = "sending"
          /\ <<r, x>> \in Ids
      BY <1>0, <1>13, <2>2, <3>1 DEF DeliverSendNextDoes
    <3>3. popped[r] # 0
      BY <3>2 DEF BaseInv, DlvOK
    <3>4. ~HoldsOwn(r, x)
      BY <1>0, <3>1, <3>3 DEF OwnPlaces
    <3>5. x \in 1..MsgCount[r]
      BY <3>2, IdsAre DEF Author, SeqOf
    <3> QED
      BY <1>11, <3>2, <3>4, <3>5
  <2> QED
    BY <2>1, <2>2
<1>14. ASSUME NEW p \in Proc, NEW id \in Ids, NotifyAckDoes(p, id) PROVE Goal
  <2>1. nOwn' = nOwn /\ dlvId' = dlvId /\ delivered' = delivered /\ pc'[r]["dlv"] = pc[r]["dlv"]
    BY <1>0, <1>14 DEF NotifyAckDoes
  <2>2. pending'[r] = pending[r] \/ (r = p /\ pending'[r] = pending[r] \union {id})
    BY <1>14 DEF NotifyAckDoes
  <2>3. Author(id) = p => Holds(p, id)
    <3>1. recvd[p].id = id /\ recvd[p].sender \in Proc
      BY <1>14 DEF NotifyAckDoes, BaseInv, Types
    <3>2. Holds(recvd[p].sender, id)
      BY <3>1 DEF KeepInv, Trace
    <3> QED
      BY <3>1, <3>2 DEF AuthorInv
  <2>4. ASSUME NEW s \in 1..MsgCount[r] PROVE Counted(r, s)' <=> Counted(r, s)
    <3>1. CASE <<r, s>> # id \/ r # p
      BY <2>1, <2>2, <3>1 DEF Counted, DeliveredAt
    <3>2. CASE <<r, s>> = id /\ r = p
      <4>1. Holds(r, <<r, s>>)
        BY <1>3, <2>3, <3>2
      <4>2. DeliveredAt(r, <<r, s>>)' <=> DeliveredAt(r, <<r, s>>)
        BY <2>1 DEF DeliveredAt
      <4> QED
        BY <2>1, <2>2, <3>2, <4>1, <4>2 DEF Counted, Holds
    <3> QED
      BY <3>1, <3>2
  <2> QED
    BY <1>2, <2>1, <2>4, AccountSame
<1>15. ASSUME NEW p \in Proc, NEW id \in Ids, DeliverEraseDoes(p, id) PROVE Goal
  <2>1. CASE r # p
    BY <1>0, <1>4, <1>15, <2>1 DEF DeliverEraseDoes
  <2>2. CASE r = p
    <3>1. /\ nOwn' = nOwn /\ delivered' = delivered
          /\ pending'[r] = pending[r] \ {id} /\ id \in pending[r] /\ dlvId'[r] = id
          /\ Author(id) = r => pc'[r]["dlv"] = "uncount"
          /\ pc[r]["dlv"] = "idle" /\ ~DeliveredAt(r, id)
      BY <1>0, <1>15, <2>2 DEF DeliverEraseDoes, CanDeliver
    <3>2. dlvId[r] \notin Ids
      BY <1>1, <3>1 DEF BaseInv, DlvOK
    <3>3. ASSUME NEW s \in 1..MsgCount[r] PROVE Counted(r, s)' <=> Counted(r, s)
      <4>1. DeliveredAt(r, <<r, s>>)' <=> DeliveredAt(r, <<r, s>>)
        BY <3>1 DEF DeliveredAt
      <4>2. dlvId[r] # <<r, s>> /\ (id = <<r, s>> => pc'[r]["dlv"] = "uncount")
        BY <1>3, <3>1, <3>2
      <4> QED
        BY <3>1, <4>1, <4>2 DEF Counted
    <3> QED
      BY <1>2, <3>1, <3>3, AccountSame
  <2> QED
    BY <2>1, <2>2
<1>16. ASSUME NEW p \in Proc, DeliverUncountDoes(p) PROVE Goal
  <2>1. CASE r # p
    BY <1>0, <1>4, <1>16, <2>1 DEF DeliverUncountDoes
  <2>2. CASE r = p
    <3>1. /\ nOwn'[r] = nOwn[r] - 1 /\ delivered' = delivered /\ pending' = pending
          /\ dlvId' = dlvId /\ pc[r]["dlv"] = "uncount" /\ pc'[r]["dlv"] # "uncount"
      BY <1>0, <1>16, <2>2 DEF DeliverUncountDoes
    <3>2. dlvId[r] \in Ids /\ Author(dlvId[r]) = r
      BY <1>1, <3>1 DEF BaseInv, DlvOK
    <3>3. PICK x \in 1..MsgCount[r] : dlvId[r] = <<r, x>>
      BY <3>2, IdsAre
    <3>4. ~DeliveredAt(r, <<r, x>>)
      BY <3>2, <3>3 DEF DeliveryInv
    <3>5. Counted(r, x)
      BY <3>1, <3>3, <3>4 DEF Counted
    <3>6. ASSUME NEW s \in 1..MsgCount[r] PROVE Counted(r, s)' <=> Counted(r, s) /\ s # x
      <4>1. DeliveredAt(r, <<r, s>>)' <=> DeliveredAt(r, <<r, s>>)
        BY <3>1 DEF DeliveredAt
      <4>2. dlvId[r] = <<r, s>> <=> s = x
        BY <3>3
      <4> QED
        BY <3>1, <4>1, <4>2 DEF Counted
    <3> QED
      BY <1>2, <3>1, <3>5, <3>6, AccountLeave
  <2> QED
    BY <2>1, <2>2
<1>17. ASSUME NEW p \in Proc, NEW id \in Ids, DeliverInsertDoes(p, id) PROVE Goal
  <2>1. nOwn' = nOwn /\ pending' = pending
    BY <1>17 DEF DeliverInsertDoes
  <2>2. ASSUME NEW s \in 1..MsgCount[r] PROVE Counted(r, s)' <=> Counted(r, s)
    <3>1. DeliveredAt(r, <<r, s>>)' <=> DeliveredAt(r, <<r, s>>) \/ (r = p /\ <<r, s>> = id)
      BY <1>3, <1>17, InsertDelivers
    <3>2. CASE r # p
      <4>1. dlvId'[r] = dlvId[r] /\ pc'[r]["dlv"] = pc[r]["dlv"]
        BY <1>0, <1>17, <3>2 DEF DeliverInsertDoes
      <4> QED
        BY <2>1, <3>1, <3>2, <4>1 DEF Counted
    <3>3. CASE r = p
      <4>1. dlvId'[r] = NoId /\ dlvId[r] = id /\ pc[r]["dlv"] = "insert"
        BY <1>0, <1>17, <3>3 DEF DeliverInsertDoes
      <4>2. <<r, s>> # NoId
        BY <1>3
      <4> QED
        BY <2>1, <3>1, <3>3, <4>1, <4>2 DEF Counted
    <3> QED
      BY <3>2, <3>3
  <2> QED
    BY <1>2, <2>1, <2>2, AccountSame
<1>18. CASE UNCHANGED vars
  BY <1>4, <1>18 DEF vars
<1> QED
  BY <1>0, <1>5, <1>6, <1>7, <1>8, <1>9, <1>10, <1>12, <1>13, <1>14, <1>15, <1>16, <1>17, <1>18
     DEF AnyStep

\* main and DeliverPending move n_own_pending_for_delivery_ together with the
\* messages in the window, so the unsigned counter never wraps below 0, unless
\* a push reuses the storage of a popped element.
THEOREM OwnAccountingHolds == ~SlotReuse /\ Spec => []OwnAccounting
BY WindowInvariants, AccountInit, AccountStep, PTL DEF Spec

\* Types: of the counters, the queue, the sets and the links, and of every
\* thread's local variables at every place where the thread can be.
THEOREM TypesHold == ~SlotReuse /\ Spec => []TypeOK
<1>1. BaseInv /\ OwnAccounting => TypeOK
  <2> SUFFICES ASSUME BaseInv, OwnAccounting, NEW p \in Proc, p \notin crashed
               PROVE  /\ nOwn[p] \in 0..MsgCount[p]
                      /\ pending[p] \subseteq Ids
                      /\ \A id \in Ids : acks[p][id] \subseteq Peers(p)
                      /\ \A q \in Proc : link[p][q] \subseteq Ids
    BY DEF BaseInv, Types, TypeOK, Sending, MainOK, RecvOK, DlvOK, NotToSelf, Numbers,
           MainLabel, RecvLabel, DlvLabel
  <2>1. nOwn[p] \in 0..MsgCount[p]
    BY WindowSize DEF OwnAccounting
  <2>2. \A id \in Ids : acks[p][id] \subseteq Proc /\ p \notin acks[p][id]
    BY DEF BaseInv, Types, NotToSelf
  <2>3. pending[p] \subseteq Ids /\ \A q \in Proc : link[p][q] \subseteq Ids
    BY DEF BaseInv, Types
  <2> QED
    BY <2>1, <2>2, <2>3 DEF Peers
<1> QED
  BY <1>1, OwnAccountingHolds, BaseCorrect, PTL
=============================================================================
