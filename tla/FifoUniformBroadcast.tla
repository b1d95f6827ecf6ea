------------------------ MODULE FifoUniformBroadcast ------------------------
(***************************************************************************)
(* What the FIFO broadcast promises its user, whatever the processes hold, *)
(* relay and count to keep the promise: the lines "b seq" and "d author    *)
(* seq" of the log files, and which processes are still alive.             *)
(***************************************************************************)
EXTENDS Naturals, Sequences

CONSTANTS
  Proc,      \* the processes of the HOSTS file
  MsgCount   \* MsgCount[p]: how many messages the driver of p broadcasts

VARIABLES
  sent,      \* sent[p]: the messages 1..sent[p] of p were broadcast
  log,       \* log[p][a]: the messages of a that p delivered, in order
  crashed    \* the processes that stopped

vars == <<sent, log, crashed>>

Init ==
  /\ sent = [p \in Proc |-> 0]
  /\ log = [p \in Proc |-> [a \in Proc |-> << >>]]
  /\ crashed = {}

\* A process broadcasts its next message.
Broadcast(p) ==
  /\ p \notin crashed
  /\ sent[p] < MsgCount[p]
  /\ sent' = [sent EXCEPT ![p] = @ + 1]
  /\ UNCHANGED <<log, crashed>>

\* A process delivers the next message of an author, or a run of them, of
\* those that the author has broadcast.
Deliver(p, a) ==
  /\ p \notin crashed
  /\ \E n \in (Len(log[p][a]) + 1)..sent[a] :
       log' = [log EXCEPT ![p][a] = [i \in 1..n |-> i]]
  /\ UNCHANGED <<sent, crashed>>

Crash(p) ==
  /\ p \notin crashed
  /\ crashed' = crashed \union {p}
  /\ UNCHANGED <<sent, log>>

Next == \E p \in Proc : \/ Broadcast(p)
                        \/ \E a \in Proc : Deliver(p, a)
                        \/ Crash(p)

Spec == Init /\ [][Next]_vars
=============================================================================
