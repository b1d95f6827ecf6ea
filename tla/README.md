# TLA+ models of the distributed algorithms project

A verification project for the C++ program in `src/src/src`: perfect links over
UDP, best-effort and uniform reliable broadcast on top of them, and FIFO
broadcast on top of that, from the command line to the exit. TLC checks the
models on small instances, TLAPS proves every safety property of the passing runs
for every instance. `PROJECT.json` lists the components, the runs, the source
lines behind every definition, the hazards and the theorems; this file explains
them.

## 1. The system

| Component | State | Operations | Hard behaviour |
|---|---|---|---|
| `PerfectLink` | `n_messages_sent_`, `messages_to_send_`, `acks_to_send_`, `messages_delivered_` (last time a copy came), `managers_` | `Send`, `SendMessages`, `SendAcks`, `CleanAcks`, `Notify` | four threads on one object; every step releases its lock; acks and deliveries time out |
| `PerfectLink::Manager`, `BasicManager` | the links, `on_`, the send and the ack thread | `Add`, `Start`, `Stop`, thread loops, `Notify` | subscription races reception |
| `UDPServer`, `UDPClient` | socket, observers per address, receive thread | `Start`, `Stop`, `Attach`, `Receive`, `NotifyAll`, `Send` | loss, duplication, reordering |
| `Broadcast`, `BestEffortBroadcast` | `n_messages_sent_` | `Send`, `Notify`, `SendInternal` (one `Send` per link) | a crash in the middle of the loop |
| `UniformReliableBroadcast` | `pending_for_delivery_`, `acks_`, `delivered_`, the window (`n_own_pending_for_delivery_`, `own_pending_for_broadcast_`) | `Send`, `SendInternal`, `NotifyInternal`, `DeliverPending` | three threads; check-then-act on four separately locked structures |
| `DeliveredSet::PeerState` | bottom and explicit set | `Contains`, `Insert` | compaction in every order |
| `UniformFIFOBroadcast`, `ReliableFIFOBroadcast` | per author `next` and `pending` | `DeliverInternal` | gaps, repetitions |
| `drivers`, `main` | globals | start order, broadcast loop, signal handler | the handler joins threads from the main thread |
| `Logger` | output stream | `<<`, `Flush` | two writers, no lock |
| `Parser` | arguments, hosts | `Parse` and its checks | validation of the `HOSTS` file |

How they interact: `drivers` builds the links, the manager and the server. The
receive thread runs `UDPServer::Receive` -> `NotifyAll` -> `PerfectLink::Notify`
-> `Manager::Notify` -> `NotifyInternal`, which may call `SendInternal` and so
`PerfectLink::Send` of every link. The main thread calls `Send`; the deliver
thread runs `DeliverPending`, which also sends (the next own message) and logs.
The send and the ack thread of the manager walk over all links every 100 ms.

What makes each part correct: a link loses nothing that it acknowledges,
delivers everything, and delivers it once (PL1, PL2); URB1 to URB4 of
`uniform_reliable_broadcast.hpp`; the window is respected and nothing is dropped
in it; per author, the log is the sequence 1, 2, 3, ...; processes that read one
`HOSTS` file agree on numbers, addresses and majorities; when the process is told
to end it does, handles no more packets, and leaves a complete log with one line
for each event.

## 2. Modules

| Module | Models |
|---|---|
| `PerfectLink` | one direction of one link: sender, network, receiver, clock, start order |
| `MCPerfectLink` | its TLC instance |
| `PerfectLinkProofs` | its theorems |
| `ReliableLink` | what a link promises its user: accepted messages are handed over. `PerfectLink` implements it |
| `DeliveredSet` | `DeliveredSet::PeerState` as operators |
| `FifoDelivery` | `DeliverInternal` of the two FIFO classes as operators |
| `PeerStates` | both structures under every arrival order |
| `DeliveryLemmas` | what the operators of `DeliveredSet` and `FifoDelivery` do, for every state and number |
| `PeerStatesProofs` | theorems about `PeerStates`, from `DeliveryLemmas` |
| `UniformReliableBroadcast` | n processes with the threads of `drivers::FIFOBroadcast`: best-effort broadcast, URB, FIFO delivery, crashes. Uses `DeliveredSet` and `FifoDelivery` |
| `MCUniformReliableBroadcast` | its TLC instances |
| `FifoUniformBroadcast` | what the broadcast promises its user: the lines of the log files. `UniformReliableBroadcast` implements it |
| `BroadcastProofs` | theorems about `UniformReliableBroadcast`: order, no creation, window, refinement |
| `BroadcastAgreementProofs` | extends it: majorities, relays, agreement |
| `BroadcastWindowProofs` | extends it: no message is lost in the window, the counter, the types |
| `Parser` | the checks and results of `Parser::Parse` as operators |
| `Startup` | several processes from the command line to their links: `Parse`, bind, `Attach`, `Add`. Uses `Parser` |
| `MCStartup` | its TLC instance |
| `StartupProofs` | theorems about `Startup` |
| `Shutdown` | one process from the start of its threads to its end: both drivers, the loops of the threads, mutexes, the logger, the signal handler |
| `ShutdownProofs` | theorems about `Shutdown` |

### PerfectLink

Sequence numbers stand for messages. An action is one critical section:
`Send` is `SendReserve` (the atomic increment) and `SendInsert`; `Notify` on a
message is `ReceiveMsg` (with `NotifyInsertAck`), `NotifyLookup`,
`NotifyManagers`, `NotifyStamp`; on an ack `ReceiveAck`; the ack thread runs
`SendAcks`, `CleanAcksCollect`, `CleanAcksErase`. A pass of `SendMessages` or
`SendAcks` holds its lock throughout and is one action, and packets are lost one
by one afterwards, which covers a `sendto` that fails in the middle.

The network `net` is a set: sending again a packet that is in flight changes
nothing, a reception either consumes the packet or leaves it (a duplicate), and
`Lose` drops it. `std::time` counts whole seconds, so the timeouts 0.45 s and
9 s are 1 and 9 ticks; `age` counts ticks since the last stamp and saturates at
`ForgetAfter`, above which the code makes no distinction.

`Strong` is the macro `PERFECT_LINKS_STRONG`. Nothing in the repository defines
it: the shipped build is `Strong = FALSE`. `ServerFirst` chooses the start order
of `drivers::PerfectLinks` (the server runs before the links exist) or of
`drivers::FIFOBroadcast` (the server starts last). `notified` is a history
variable, what the manager was told, saturating at 2.

The module instantiates `ReliableLink` with `accepted <- nSent - 1` (a message is
accepted when its number is taken) and `given <- notified`. `RefinesLink` is its
safety part: only accepted messages are handed over, and again only in the
forgetting build. `ImplementsLink` adds that none is left behind.

### DeliveredSet, FifoDelivery, PeerStates

The two per-author structures are operators, so that they can be used in
`UniformReliableBroadcast` and also be driven alone. `PeerStates` sends the
messages of one author with `Broadcast::Send` (number, then the loop of
`BestEffortBroadcast`, abstracted to "may arrive from now on") and lets them
arrive in every order and repeatedly; this is also all there is to
`ReliableFIFOBroadcast`.

### UniformReliableBroadcast

Per process, `pc` holds the place of the threads main, recv and dlv. The module
comment says which consecutive critical sections are one action and why no other
thread can tell. Kept apart are the tests that the code makes under one lock and
uses after another: `Receive` (reads `not_pending` and `not_delivered`) and
`NotifyAck` (acts on them); `Send` (tests the window), then `SendQueue` or
`SendInternal`; `DeliverErase`, `DeliverUncount`, `DeliverPop`,
`DeliverSendNext`, `DeliverInsert`. `SendOnLink` is one iteration of the loop of
`BestEffortBroadcast::SendInternal`, so a process may crash between two links.

The links are abstracted to what `PerfectLink` guarantees: a message stays on
the link until the receiver's manager is notified (`AckedNotLost`), and the
forgetting build may notify again. Processes crash by stopping, at most
`MaxCrashes < n/2` of them, as the repository's README assumes. The network
window is `Ideal`, computed as `Add` does from `URB_MAX_MSGS_IN_NETWORK`.

`SlotReuse`: `DeliverPending` reads the popped queue element through a dangling
reference. `std::deque` of libstdc++ keeps messages in nodes of `NodeSize` places
(12 there) and frees a node when its last message is popped. With FALSE the queue
never gets that memory back and the popped message stays readable. With TRUE it may
get it back for the next node it allocates: `place` is the place of the last pushed
message in its node, `reuse` counts the pushes until the place of the popped one is
filled again (`ReusedBy`, never fewer than `NodeSize + 1`), and the push that fills
it constructs another message there (`PoppedAfterPush`). What else the allocator
could do with the memory is left out.

`FifoUniformBroadcast` knows what a user can see: how many messages a process has
broadcast, its log per author, who crashed. The refinement mapping takes the log
and the crashes as they are and `nSent - 1` for the number of broadcasts.

### Parser and Startup

`Parser` keeps every test of `parser.cpp` and its order; a text is what the test
tells apart (a flag is where it should be or not, `--id` is no number, one that
is no `int`, or a number; a line of the `HOSTS` file is blank, malformed,
unresolvable or a host; and so on). `Sorted` is a set, because `std::sort` is not
stable. `HostsAfter` is the loop over the lines. `Index` is the unsigned `id - 1`: the
number 0 wraps around, and the
access throws. `IpLookup` frees a pointer that it has not initialised when the
name does not resolve: the outcome is an exit or a crash.

`Startup` runs `Launch` (`main` up to the switch) and `Drive` (the driver up to
the start of its threads) of several processes on one `HOSTS` and one config
file, each with any command line, so that two may be given the same number, a
wrong mode or a wrong target. `observers` is the server's map from addresses,
`links` the manager's map from numbers: a second host of the same number replaces
the first in the one and not in the other.

### Shutdown

`role` is the driver and, for perfect links, whether the process is the target.
`boot` is what the driver has still to start, step by step, because a signal may
come between `on_.store(true)` and the creation of a thread. `plan[t]` is what
thread `t` has still to do in its call of `Send` or in its pass: the mutexes it
takes and the lines it logs; `owner` says who holds a mutex, and the module
comment which mutexes matter and why. A pass of `DeliverPending` copies what is
pending and then delivers up to `MaxVisits` messages of the copy (`visits`,
`DeliverNext`), each with up to `MaxLines` lines, as `DeliverInternal` also logs what
waited for the message. The pass of the ack thread takes none of the mutexes and logs
nothing, so it is no step. A line is logged in two steps, its text and its end, as
`operator<<` of `Logger` does it without a lock; `writing` holds the threads between
the two. A thread that starts a line while another is in one races with it on the
buffer of the stream, which may destroy bytes (`mangled`).

`handler` is what `stop_execution` has still to do: `Stop` of the manager and of the
server put the threads they join in front of the rest. From the first signal on main only runs the handler, and keeps its mutex.
`buffered` says whether the logger's stream holds text that is not in the file,
which `_Exit` would drop. Taken from the platform: the signal goes to the main
thread, `recvfrom` returns after `shutdown`, and `join` without a thread throws,
which `noexcept` turns into an abort.

## 3. Runs

| Run | Instance | Shows |
|---|---|---|
| `PL_weak` | 2 messages, timeouts 1 and 2, shipped build, server last | `TypeOK`, `AckedIsDelivered`, `RedeliveryNeedsSilence`, `RefinesLink` |
| `PL_live` | 1 message, shipped build, fairness | `ImplementsLink`, `EventuallyAcked`, `AcksStop` |
| `PL_boot` | 1 message, server first | `AckedIsDelivered` is violated |
| `PeerStates` | 8 numbers, every order, repetitions | `ContainsExactly`, `Compacted`, `LogIsPrefix` |
| `URB_pair` | 2 processes, shipped links, 2 messages, window 1 | `FifoOrder`, `RelayComplete`, `OwnAccounting` |
| `URB_window` | 2 processes, 3 messages and 1, windows of 1, fairness | `TypeOK`, `NoCreation`, `WindowBound`, `OwnNotLost`, `DeliveredOrStranded`, `UniformAgreement`, `ImplementsBroadcast` |
| `URB_three` | 3 processes, 1 message, 1 crash | `RelayComplete`, `UniformQuorum`, `AgreementWhenQuiet` |
| `URB_wakeup` | 2 processes, 2 messages, window 1, fairness | `Validity` is violated |
| `URB_slot` | 2 processes, 5 messages, window 1, nodes of 1 message, `SlotReuse` | `OwnNotLost` is violated |
| `Startup` | 2 processes, `HOSTS` files of up to 3 lines, numbers up to 4 | `Wired`, `SameMajority` |
| `Shutdown` | both drivers, at most 1 send and 2 signals, passes of up to 1 message with up to 2 lines, fairness | `TypeOK`, `OutputComplete`, `AbortOnlyInStartup`, `OneLogger`, `IdleTerminates` |
| `Shutdown_hang` | 1 send, 1 signal, passes of up to 2 messages with up to 1 line each, fairness | `EndsOrFallsSilent` is violated |

Why the bounds are enough. The messages of a link share only the threads that
handle them: two are enough for a message to be handled while another is due,
and for numbers to be inserted out of order. Timeouts 1 and 2 keep the order of
the shipped 1 and 9. In `URB_pair` and `URB_window` the queue fills, is popped
and refilled, and the counter reaches the window plus one; with three messages
the author strands one, or strands none, or delivers one while it queues another.
Three processes and one crash are the smallest system in which a majority
excludes somebody; with one message the FIFO layer is idle, which is why the runs
with two processes have more. There `MaxInNetwork` is chosen so that the window
of three processes is rounded to zero and clamped to one. The processes that
broadcast nothing are symmetric, used in the safety run `URB_three` only.
Redelivery by the forgetting links is part of `URB_pair`; the other URB runs use
strong links, because redeliveries multiply the states and no liveness of the
broadcast hangs on them. Three lines are enough in `Startup` for every way in
which least and greatest number can be right with a number missing between them;
two processes are a pair of peers, and the third host is a peer of both.

`AgreementWhenQuiet` stands in for the liveness of agreement under crashes, which
is too large for TLC with three processes. With strong links no process can run
for ever (each step brings a message nearer to its delivery), so every run ends,
under the fairness below, in a quiet state, and in those the property asks for
agreement.

Deadlock is not checked in the URB runs: when everything is delivered the threads
only poll; nor in the `Startup` and `Shutdown` runs, which end. In `Shutdown` one
send is enough for main to be found in every critical section of `Send`, and one
link stands for all, as a thread holds one mutex at a time. A signal or another
thread comes before, between and after the two lines of a message; longer passes
repeat the same steps, and the theorems allow passes of any length.

`NodeSize` is 1 where the library has 12, so that a node is freed by every pop: the
push that overwrites is then the second after the pop, instead of the thirteenth or
later. It matters in `URB_slot` only; the other runs have `SlotReuse = FALSE`, and
that `NoCreation` holds with TRUE as well is the theorem's part. `URB_window` has no
crash: the uniform part of agreement rests on `AgreementWhenQuiet`.

Fairness. Threads of a process that does not crash keep running (weak fairness
of each thread's steps; their loops have no other exit than `on_`), time
passes, and the network is fair-lossy: what is sent again and again is received
(strong fairness of the receptions, for which every copy counts). For
`EventuallyAcked` the code needs a little more. `CleanAcks` may erase an ack that
was re-inserted after it collected its list, unsent; the next copy re-inserts it.
Only a network that lets every copy arrive exactly in that gap could keep the
sender retrying, so a copy is assumed to arrive now and then while the ack thread
sleeps (`ReceiveMsgAsleep`). In `Shutdown` a mutex that is free again and again
is taken in the end (strong fairness of `Lock`: every holder but the frozen main
releases it, and the loops sleep between passes); nothing is assumed of main before
the signal, and neither packets nor signals need come.

### What the violations show

* `PL_boot`. In `drivers::PerfectLinks` a message may come between `Attach`
  (in the constructor of the link) and `Subscribe` (in `Manager::Add`). It is
  acknowledged and entered in `messages_delivered_`, and no manager hears of it.
* `URB_wakeup`. `Send` sees a full window; before it pushes, `DeliverPending`
  delivers the last own message and finds the queue empty. The pushed message
  waits for a delivery of an own message that never comes, unless `Send` is
  called again. `DeliveredOrStranded` (`URB_window`) shows that this is the only
  way in which a message of a running process stays undelivered.
* `URB_slot`. See `SlotReuse` above: main pushes until the freed node is in use
  again before `DeliverPending` reads the reference. The message that was popped is
  lost, and the one in its place is sent twice.
* `Shutdown_hang`. The handler joins the threads while the interrupted main holds
  the mutex of `messages_to_send_`, `pending_for_delivery_` or
  `own_pending_for_broadcast_`; the joined thread waits for it. As
  `StopExecution` stops the server last, the receive thread then takes packets and
  handles them for ever; without the hang it does so until the joins are done. `src/README.md`, line 128, forbids both. `OutputComplete` shows that what
  is logged meanwhile is kept.

### What else the models show

* The shipped build forgets a delivery after 9 s without a copy and delivers a
  later copy again; `RedeliveryNeedsSilence` says exactly when, the URB layer is
  immune to it (`URB_pair`), `BasicManager` logs a second delivery.
* `src/README.md`, line 111, has one terminated line for each event. The broadcast mode
  does not keep to it: main and the deliver thread write to one stream without a lock,
  so two events can share a line or lose bytes (`mangled`); and in both modes main can
  be interrupted before the end of its line, which is then never written. What can be
  shown is that the perfect links mode has no such race, as only one thread ever logs,
  the receive thread at the target and main elsewhere (`OneLogger`).
* The `HOSTS` check compares the least number with 1 and the greatest with the
  number of hosts, so it accepts 1, 1, 3. The processes of such a file count
  different majorities and the server keeps a pointer to a destroyed link.
  `src/README.md`, line 100, excludes the file (numbers are 1 to n, unique), and
  `DistinctIds` is the same assumption; under it the check implies that
  `hosts_[id - 1]` is the host `id`. Equal addresses are excluded likewise
  (`DistinctAddresses`): the server would notify both links of every packet.

## 4. Proofs

Every invariant and every safety property of a passing run is a theorem, for all
values of the constants that satisfy the assumption of its module. The invariants of
the link, `StartInv` and `ShutdownInv` were also checked with TLC, on the instances
of the runs.

### The link: `PerfectLinkProofs`, from `LinkAssumption`

* `TypeCorrect`: `TypeOK` is inductive as it stands.
* `StrongNoDuplication`: with `Strong`, `[]NoDuplication`. Not inductive alone;
  `StrongInv` adds that a notified message is in `messages_delivered_` except
  between `NotifyManagers` and `NotifyStamp`, and that a message at `NotifyManagers`
  was never notified.
* `AckedNotLost`: with `~ServerFirst`, `[]AckedIsDelivered`. `AckInv` says it of
  every trace of an acknowledgement (ack due, ack in flight, entry of
  `messages_delivered_`, retry given up), and that no packet is handled before the
  subscription. `~ServerFirst` is needed: see the run `PL_boot`.
* `RedeliveryAfterSilence`: the action property, from `SilenceInv`: a notified
  message that is no longer in `messages_delivered_` has the full age.
* `LinkRefinement`: `Spec => RefinesLink`. `HandedInv` says that the message in the
  hands of `Notify` is one whose number was taken (`TypeOK` says it of those in
  flight), and for the strong build it includes `StrongInv`; `LinkStep` then maps
  each step to a step of `ReliableLink` or a stutter.

### The per-author structures: `DeliveryLemmas`, `PeerStatesProofs`

The loops of `Insert` and of `DeliverInternal` are modelled by counting (an element
is consumed if its rank says that nothing is missing below it), so no induction is
needed: `ClosedIsInterval` and `PlaceOf` turn cardinalities into intervals, and from
them follow what `Insert` and `DeliverInternal` add, for every state and number.
`StatesInv` says that both structures hold exactly what arrived and that the log is
1, ..., next - 1. It implies `ContainsExactly`, `Compacted` and `LogIsPrefix`, for
any number of messages. The same lemmas carry the broadcast's proofs.

### The broadcast: `BroadcastProofs` and its two extensions, from `SystemAssumption`

Any number of processes, any number of messages each, any window, a minority of
crashes, strong or forgetting links. Each action is first replaced by its effect on
each process (`SendDoes`, ...); a step is one of these effects (`Steps`).

* `BaseInv`: types, where the threads can be, and what a thread has in its hands
  there. Everything else rests on it.
* `FifoOrderHolds` from `DeliveryInv`: `delivered_` and the FIFO state of an author
  hold the same messages, the log is the numbers below `next`, and what
  `DeliverPending` has taken out of `pending_for_delivery_` is not delivered yet.
  The last part is what makes a message that became pending twice harmless.
* `NoCreationHolds` from `SentInv`, which follows a message through `pending`, the
  loops over the links, the links and the receive thread. It does not depend on
  `SlotReuse`: what is read through the dangling reference was broadcast too.
* `WindowBoundHolds` from `WindowInv`: the counter plus one place for each thread
  between its test and its increment stays below `Ideal + 2`.
* `BroadcastRefinement`: `Spec => ImplementsBroadcast`, from these invariants.
* `UniformQuorumHolds` from `KeepInv` (a process that left any trace of a message,
  on a link, in an ack, in a thread, keeps it) and `QuorumInv` (what
  `DeliverPending` has decided to deliver is kept by a majority).
* `RelayCompleteHolds` from `RelayInv`, which also names the ack that a peer has
  from the process: the invariant of the run forgets who sent what, and so is not
  inductive.
* `AgreementHolds` from these: in a quiet state a majority keeps what anybody
  logged, more than may crash (`2 * MaxCrashes < N`), and from one that runs it was
  relayed to all that run, so that all have their majorities of acks.
* `OwnNotLostHolds` and `OwnAccountingHolds` assume `~SlotReuse`, as the run
  `URB_slot` shows that they fail otherwise. `AuthorInv`: whoever keeps a message,
  its author does, so nobody's relay can bring an own message back before it was
  sent. `OwnInv`: an own message that is not sent yet is in one place only, with
  main, once in the queue or with `DeliverPending`. `PlacedInv`: it is in one. Then
  increments and decrements of the counter match insertions in and removals from
  `InWindow`.
* `TypesHold`: `TypeOK`, whose bound on the counter needs `OwnAccounting`.

### The start: `StartupProofs`, from `StartupAssumption`

`HostsAreLines` shows that the loop over the lines is well defined and leaves a
sequence of lines. The provers have no induction over data, but the library says
that the strict subset order on finite sets is well founded: `LeastNumber` gets from
it the least element of a set of numbers, and inductions are proofs about the least
counterexample. `SortedIsNumbered`: with distinct numbers, least 1 and greatest n,
the sorted list has host k at place k (`GrowingIsCounting`). `StartInv`: a process
that is up was parsed from the checked file and linked accordingly, and addresses
that are bound are distinct. `SameMajorityHolds` and `WiredHolds` follow, for any
number of processes and lines.

### The end: `ShutdownProofs`, from `ShutdownAssumption`

Any number of sends, signals, messages in a pass and lines. `ShutdownInv` is the
conjunction of `TypeOK`; `HandlerInv`, the places the handler can be at; `BootInv`,
which threads exist and which `on_` are set at each step of the driver; `LogInv`, who
logs at all, and that bytes are destroyed in the broadcast mode only; `WorkerInv`, that a worker whose join the handler is past is over, that one whose
join is ahead is joinable, and that nothing is buffered when only `_Exit` is left;
`EndInv`, what the process leaves behind. `OneLogger` follows from `LogInv`.
`OutputComplete` and `AbortOnlyInStartup` speak of the end, so that each needs what
was true on the way there: the flush comes after the joins, a joined thread is not in
the middle of a line, and a join fails only if the thread was never created.

### Only model-checked

Liveness and the fairness it needs (`ImplementsLink`, `EventuallyAcked`, `AcksStop`,
`DeliveredOrStranded`, `UniformAgreement`, `IdleTerminates`) are out of the prover's
reach; so is, for the same reason, that a broadcast without redelivery ends in a
quiet state, which `AgreementWhenQuiet` takes for granted.

## 5. Not modelled

`info_display` prints what was parsed and takes no decision; `tools/` holds test
scripts. Payloads are empty in both drivers and carry nothing; the byte layout of a packet
(type, number, and for a broadcast the author) is fixed and left out, and with it the
branch of `Broadcast::Parse` for a packet shorter than its prefix, which `Serialize`
always writes. Socket options and the `noexcept` aborts on failing system calls other than `bind` are left out.
`Logger::Open` and the destructors of the managers and of the server are never
reached, as the process ends in `_Exit`. What stale entries of `acks_` and
`pending_for_delivery_` cost in memory is no property; what they could do wrong is
(`FifoOrder`, `OwnAccounting`).

## 6. Plan

All components but the two above are modelled, and all safety properties of the
passing runs are proved. What is left:

1. what `DeliveredOrStranded` says of a state, as a safety invariant: a message in the
   queue of a process whose window is empty was pushed after the last pop;
2. of `Shutdown`, who can wait for whom: a joined thread that waits for a mutex
   waits for main or for a thread that does not wait;
3. the strong build of the link under both start orders.
