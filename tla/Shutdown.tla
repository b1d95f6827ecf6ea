------------------------------ MODULE Shutdown ------------------------------
(***************************************************************************)
(* Start and end of one process: the drivers start the threads and call    *)
(* Send, the threads loop on the flags on_, and on a signal stop_execution *)
(* (main.cpp) runs StopExecution (drivers.cpp), which joins the threads    *)
(* and flushes the log.                                                    *)
(*                                                                         *)
(* The handler runs on the main thread (Linux gives a signal that is sent  *)
(* to the process to the main thread when it does not block it).  Whatever *)
(* main was doing is frozen there, with the mutex it holds.                *)
(*                                                                         *)
(* Of the shared structures only the mutexes matter that main may hold     *)
(* while another thread runs:                                              *)
(*   "O"  observers_            UDPServer::Attach, NotifyAll               *)
(*   "M"  messages_to_send_     PerfectLink::Send, SendMessages, Notify    *)
(*   "P"  pending_for_delivery_                                            *)
(*   "Q"  own_pending_for_broadcast_                                       *)
(* One link stands for all.  They are shared_mutexes; in each pair of main *)
(* and another thread one of the two locks it exclusively, so they are     *)
(* exclusive here.  perfect_links_ is left out: after the links are added  *)
(* everybody takes it shared, and while they are added no thread that      *)
(* takes it runs.  No thread holds two of the four at once, so a thread's  *)
(* pass is the sequence of those it locks and unlocks, and of the lines it *)
(* logs: operator<< of Logger writes the text and the end of a line one    *)
(* after the other, and no mutex guards the stream.  When two threads are  *)
(* in operator<< at once, that is a data race on the stream's buffer: one  *)
(* line may end up inside the other, or bytes of a line may be lost.       *)
(***************************************************************************)
EXTENDS Naturals, Sequences, FiniteSets

CONSTANTS
  MaxSends,    \* bound: how many messages the driver sends
  MaxSignals,  \* bound: how many times SIGINT or SIGTERM is sent
  MaxVisits,   \* bound: how many messages a pass of DeliverPending delivers
  MaxLines     \* bound: how many lines DeliverInternal logs for one of them

ASSUME ShutdownAssumption ==
  MaxSends \in Nat /\ MaxSignals \in Nat /\ MaxVisits \in Nat /\ MaxLines \in Nat

VARIABLES
  role,       \* "fifo" (broadcast), or "sender" or "target" (perfect links)
  boot,       \* what the driver has still to do before it sends
  sends,      \* how many messages it has still to send
  loc,        \* loc[w]: where worker w is
  plan,       \* plan[t]: what t has still to do in this call or pass: mutexes
              \* to lock and unlock, and lines to log
  visits,     \* how many messages DeliverPending has still to deliver in its pass
  owner,      \* owner[m]: the thread that holds m, or "free"
  on,         \* on_ of the manager and of the server
  shut,       \* was the socket shut down?
  joinable,   \* the workers that were created and not yet joined
  handler,    \* what stop_execution has still to do
  signals,    \* how many signals came
  writing,    \* the threads that wrote the text of a line and not its end
  mangled,    \* did threads that wrote at once destroy bytes of a line?
  buffered,   \* is there text in the logger's stream that is not in the file?
  status      \* of the process

logVars == <<writing, mangled, buffered>>
vars == <<role, boot, sends, loc, plan, visits, owner, on, shut, joinable, handler,
          signals, logVars, status>>

Worker == {"ack", "send", "dlv", "recv"}
Thread == Worker \cup {"main"}
Mutex  == {"O", "M", "P", "Q"}
Fifo   == role = "fifo"

\* The drivers up to their send loops.  PerfectLinks starts the server before
\* it attaches the links, FIFOBroadcast after.
Boot ==
  IF Fifo
    THEN <<"attach", "server", "recv", "manager", "ack", "send", "dlv">>
    ELSE <<"server", "recv", "attach", "manager", "ack", "send">>

\* The locks of a call of Send by the driver: UniformReliableBroadcast::Send
\* queues the message, or makes it pending and sends it on the link.
SendPlans == IF Fifo THEN {<<"log", "Q">>, <<"log", "P", "M">>} ELSE {<<"M", "log">>}

\* Mutant of PassPlans: the receive thread logs acks.
PassPlans_LogsAcks(w) == IF w = "recv" THEN {<<"O">>, <<"O", "M", "log">>} ELSE {<<>>}

\* One iteration of a worker's loop; that of DeliverPending first copies the
\* pending messages.  The receive thread takes no lock but "O" for a packet it
\* ignores; acks come to those who send, and messages to the target and the
\* broadcast.
PassPlans(w) ==
  CASE w = "ack"  -> {<<>>}
    [] w = "send" -> {<<"M">>}
    [] w = "dlv"  -> {<<"P">>}
    [] w = "recv" -> {<<"O">>} \cup
                     (CASE role = "sender" -> {<<"O", "M">>}
                        [] role = "target" -> {<<"O", "log">>}
                        [] Fifo -> {<<"O", "M">>, <<"O", "P">>, <<"O", "P", "P", "M">>})

\* DeliverInternal of the FIFO layer holds the message back, or logs it and those
\* that waited for it.
Lines == UNION {[1..n -> {"log"}] : n \in 0..MaxLines}

\* The locks of DeliverPending when it delivers a message of its copy: one of
\* another process, or one of its own with or without another to send next.
DeliverLocks == {<<"P">>, <<"P", "Q">>, <<"P", "Q", "P", "M">>}
DeliverPlans == {locks \o lines : locks \in DeliverLocks, lines \in Lines}

Init ==
  /\ role \in {"fifo", "sender", "target"}
  /\ boot = Boot
  /\ sends = IF role = "target" THEN 0 ELSE MaxSends
  /\ loc = [w \in Worker |-> "none"]
  /\ plan = [t \in Thread |-> <<>>]
  /\ visits = 0
  /\ owner = [m \in Mutex |-> "free"]
  /\ on = [manager |-> FALSE, server |-> FALSE]
  /\ shut = FALSE
  /\ joinable = {}
  /\ handler = <<>>
  /\ signals = 0
  /\ writing = {}
  /\ mangled = FALSE
  /\ buffered = FALSE
  /\ status = "running"

-----------------------------------------------------------------------------
(* Mutexes and the log                                                     *)

DoesNext(t, what) == plan[t] # <<>> /\ Head(plan[t]) \in what

Lock(t) ==
  /\ DoesNext(t, Mutex)
  /\ owner[Head(plan[t])] = "free"
  /\ owner' = [owner EXCEPT ![Head(plan[t])] = t]
  /\ UNCHANGED <<role, boot, sends, loc, plan, visits, on, shut, joinable,
                 handler, signals, logVars, status>>

Unlock(t) ==
  /\ DoesNext(t, Mutex)
  /\ owner[Head(plan[t])] = t
  /\ owner' = [owner EXCEPT ![Head(plan[t])] = "free"]
  /\ plan' = [plan EXCEPT ![t] = Tail(@)]
  /\ UNCHANGED <<role, boot, sends, loc, visits, on, shut, joinable, handler,
                 signals, logVars, status>>

\* operator<< of Logger, the text of the line.  If another thread has begun a
\* line and not ended it, the two may write to the same place in the buffer ...
WriteText(t) ==
  /\ DoesNext(t, {"log"})
  /\ t \notin writing
  /\ writing' = writing \cup {t}
  /\ mangled' \in {mangled, mangled \/ writing # {}}
  /\ buffered' = TRUE
  /\ UNCHANGED <<role, boot, sends, loc, plan, visits, owner, on, shut, joinable,
                 handler, signals, status>>

\* ... and its end.
WriteEnd(t) ==
  /\ DoesNext(t, {"log"})
  /\ t \in writing
  /\ writing' = writing \ {t}
  /\ buffered' = TRUE
  /\ plan' = [plan EXCEPT ![t] = Tail(@)]
  /\ UNCHANGED <<role, boot, sends, loc, visits, owner, on, shut, joinable,
                 handler, signals, mangled, status>>

-----------------------------------------------------------------------------
(* The main thread: the drivers                                            *)

BootNext(step) ==
  /\ plan["main"] = <<>>
  /\ boot # <<>>
  /\ Head(boot) = step
  /\ boot' = Tail(boot)
  /\ UNCHANGED <<role, sends, visits, owner, shut, handler, signals, logVars, status>>

Attach ==
  /\ BootNext("attach")
  /\ plan' = [plan EXCEPT !["main"] = <<"O">>]
  /\ UNCHANGED <<loc, on, joinable>>

\* UDPServer::Start and Manager::Start first set on_ ...
TurnOn(part) ==
  /\ BootNext(part)
  /\ on' = [on EXCEPT ![part] = TRUE]
  /\ UNCHANGED <<loc, plan, joinable>>

\* ... and then create their threads.
CreateThread(w) ==
  /\ BootNext(w)
  /\ loc' = [loc EXCEPT ![w] = "top"]
  /\ joinable' = joinable \cup {w}
  /\ UNCHANGED <<plan, on>>

\* Mutant: the send loop runs once too often.
Send_OneMore ==
  /\ boot = <<>>
  /\ plan["main"] = <<>>
  /\ sends' = sends - 1
  /\ \E p \in SendPlans : plan' = [plan EXCEPT !["main"] = p]
  /\ UNCHANGED <<role, boot, loc, visits, owner, on, shut, joinable, handler,
                 signals, logVars, status>>

Send ==
  /\ boot = <<>>
  /\ plan["main"] = <<>>
  /\ sends > 0
  /\ sends' = sends - 1
  /\ \E p \in SendPlans : plan' = [plan EXCEPT !["main"] = p]
  /\ UNCHANGED <<role, boot, loc, visits, owner, on, shut, joinable, handler,
                 signals, logVars, status>>

MainStep ==
  /\ status = "running"
  /\ signals = 0
  /\ \/ Attach
     \/ \E part \in {"manager", "server"} : TurnOn(part)
     \/ \E w \in Worker : CreateThread(w)
     \/ Send
     \/ Unlock("main")
     \/ WriteText("main")
     \/ WriteEnd("main")

MainLock == status = "running" /\ signals = 0 /\ Lock("main")

-----------------------------------------------------------------------------
(* The workers                                                             *)

\* The head of the loop of a worker tests on_.  The receive thread goes on to
\* recvfrom, the others to their pass; one that neither locks nor logs, as that
\* of the ack thread, is over at once and changes nothing.
LoopTest(w) ==
  LET running == IF w = "recv" THEN on.server ELSE on.manager
  IN
  /\ loc[w] = "top"
  /\ \/ /\ ~running
        /\ loc' = [loc EXCEPT ![w] = "done"]
        /\ UNCHANGED <<plan, visits>>
     \/ /\ running
        /\ w = "recv"
        /\ loc' = [loc EXCEPT ![w] = "recvfrom"]
        /\ UNCHANGED <<plan, visits>>
     \/ /\ running
        /\ w # "recv" /\ PassPlans(w) # {<<>>}
        /\ loc' = [loc EXCEPT ![w] = "pass"]
        /\ \E p \in PassPlans(w) : plan' = [plan EXCEPT ![w] = p]
        /\ visits' \in IF w = "dlv" THEN 0..MaxVisits ELSE {visits}
  /\ UNCHANGED <<role, boot, sends, owner, on, shut, joinable, handler,
                 signals, logVars, status>>

\* DeliverPending goes on to the next message of its copy that it delivers.
DeliverNext ==
  /\ loc["dlv"] = "pass"
  /\ plan["dlv"] = <<>>
  /\ visits > 0
  /\ visits' = visits - 1
  /\ \E p \in DeliverPlans : plan' = [plan EXCEPT !["dlv"] = p]
  /\ UNCHANGED <<role, boot, sends, loc, owner, on, shut, joinable, handler,
                 signals, logVars, status>>

\* recvfrom returns a packet, and NotifyAll handles it.
ReceivePacket ==
  /\ status = "running"
  /\ loc["recv"] = "recvfrom"
  /\ loc' = [loc EXCEPT !["recv"] = "pass"]
  /\ \E p \in PassPlans("recv") : plan' = [plan EXCEPT !["recv"] = p]
  /\ UNCHANGED <<role, boot, sends, visits, owner, on, shut, joinable, handler,
                 signals, logVars, status>>

\* recvfrom on a socket that was shut down returns nothing.
ReceiveNothing ==
  /\ loc["recv"] = "recvfrom"
  /\ shut
  /\ loc' = [loc EXCEPT !["recv"] = "top"]
  /\ UNCHANGED <<role, boot, sends, plan, visits, owner, on, shut, joinable,
                 handler, signals, logVars, status>>

\* The end of a pass.
PassEnd(w) ==
  /\ loc[w] = "pass"
  /\ plan[w] = <<>>
  /\ w = "dlv" => visits = 0
  /\ loc' = [loc EXCEPT ![w] = "top"]
  /\ UNCHANGED <<role, boot, sends, plan, visits, owner, on, shut, joinable,
                 handler, signals, logVars, status>>

WorkerStep(w) ==
  /\ status = "running"
  /\ \/ LoopTest(w)
     \/ w = "recv" /\ ReceiveNothing
     \/ w = "dlv" /\ DeliverNext
     \/ PassEnd(w)
     \/ Unlock(w)
     \/ WriteText(w)
     \/ WriteEnd(w)

WorkerLock(w) == status = "running" /\ Lock(w)

-----------------------------------------------------------------------------
(* The signal handler                                                      *)

\* Mutant: the log is flushed before the server stops.
StopExecution_FlushFirst == <<"manager", "flush", "server", "exit">>

\* What StopExecution does, in order, and then stop_execution.
StopExecution == <<"manager", "server", "flush", "exit">>

\* The process is gone; what its threads were doing is not kept.
Gone(how) ==
  /\ status' = how
  /\ loc' = [w \in Worker |-> "none"]
  /\ plan' = [t \in Thread |-> <<>>]
  /\ visits' = 0
  /\ owner' = [m \in Mutex |-> "free"]
  /\ handler' = <<>>

\* SIGINT or SIGTERM.  The handler resets both to the default action first,
\* so that a second one kills the process.
Signal ==
  /\ status = "running"
  /\ signals < MaxSignals
  /\ signals' = signals + 1
  /\ IF signals = 0
       THEN handler' = StopExecution /\ UNCHANGED <<loc, plan, visits, owner, status>>
       ELSE Gone("killed")
  /\ UNCHANGED <<role, boot, sends, on, shut, joinable, logVars>>

HandlerAt(step) ==
  /\ status = "running"
  /\ handler # <<>>
  /\ Head(handler) = step
  /\ UNCHANGED <<role, boot, sends, signals>>

\* Mutant: the base class joins the deliver thread as well.
ManagerThreads_Always == <<"ack", "send", "dlv">>

\* The threads that Stop of the manager joins.
ManagerThreads == IF Fifo THEN <<"ack", "send", "dlv">> ELSE <<"ack", "send">>

StopManager ==
  /\ HandlerAt("manager")
  /\ handler' = (IF on.manager THEN ManagerThreads ELSE <<>>) \o Tail(handler)
  /\ on' = [on EXCEPT !.manager = FALSE]
  /\ UNCHANGED <<loc, plan, visits, owner, shut, joinable, logVars, status>>

\* Mutant: the socket is not shut down.
StopServer_NoShutdown ==
  /\ HandlerAt("server")
  /\ handler' = (IF on.server THEN <<"recv">> ELSE <<>>) \o Tail(handler)
  /\ on' = [on EXCEPT !.server = FALSE]
  /\ UNCHANGED <<loc, plan, visits, owner, shut, joinable, logVars, status>>

StopServer ==
  /\ HandlerAt("server")
  /\ handler' = (IF on.server THEN <<"recv">> ELSE <<>>) \o Tail(handler)
  /\ on' = [on EXCEPT !.server = FALSE]
  /\ shut' = (shut \/ on.server)
  /\ UNCHANGED <<loc, plan, visits, owner, joinable, logVars, status>>

\* join waits for the thread to end.  Without a thread it throws, and as Stop
\* is noexcept the process is aborted.
Join(w) ==
  /\ HandlerAt(w)
  /\ UNCHANGED <<on, shut, logVars>>
  /\ \/ /\ w \in joinable
        /\ loc[w] = "done"
        /\ joinable' = joinable \ {w}
        /\ handler' = Tail(handler)
        /\ UNCHANGED <<loc, plan, visits, owner, status>>
     \/ /\ w \notin joinable
        /\ Gone("aborted")
        /\ UNCHANGED joinable

Flush ==
  /\ HandlerAt("flush")
  /\ buffered' = FALSE
  /\ handler' = Tail(handler)
  /\ UNCHANGED <<loc, plan, visits, owner, on, shut, joinable, writing, mangled, status>>

\* std::_Exit: nothing else is written.
Exit ==
  /\ HandlerAt("exit")
  /\ Gone("exited")
  /\ UNCHANGED <<on, shut, joinable, logVars>>

HandlerStep ==
  \/ StopManager
  \/ StopServer
  \/ \E w \in Worker : Join(w)
  \/ Flush
  \/ Exit

Next ==
  \/ MainStep
  \/ MainLock
  \/ \E w \in Worker : WorkerStep(w) \/ WorkerLock(w)
  \/ ReceivePacket
  \/ Signal
  \/ HandlerStep

Spec == Init /\ [][Next]_vars

\* The workers and the handler keep running, and a mutex that is free again and
\* again is locked in the end (the ack thread takes none of them).  Nothing is
\* assumed of main before the signal, and no packet and no signal need ever come.
FairSpec ==
  /\ Spec
  /\ \A w \in Worker : WF_vars(WorkerStep(w))
  /\ \A w \in Worker \ {"ack"} : SF_vars(WorkerLock(w))
  /\ WF_vars(HandlerStep)

-----------------------------------------------------------------------------
(* Properties                                                              *)

\* The state has its type: in particular the driver sends no more messages
\* than it was told to, and what a handler has still to do is made of the
\* steps and joins of StopExecution and the two Stops.
TypeOK ==
  /\ role \in {"fifo", "sender", "target"}
  /\ boot \in Seq({"attach", "server", "manager"} \cup Worker)
  /\ sends \in 0..MaxSends
  /\ loc \in [Worker -> {"none", "top", "recvfrom", "pass", "done"}]
  /\ plan \in [Thread -> Seq(Mutex \cup {"log"})]
  /\ visits \in 0..MaxVisits
  /\ owner \in [Mutex -> Thread \cup {"free"}]
  /\ on \in [manager : BOOLEAN, server : BOOLEAN]
  /\ shut \in BOOLEAN
  /\ joinable \subseteq Worker
  /\ handler \in Seq({"manager", "server", "flush", "exit"} \cup Worker)
  /\ signals \in 0..MaxSignals
  /\ writing \subseteq Thread
  /\ mangled \in BOOLEAN
  /\ buffered \in BOOLEAN
  /\ status \in {"running", "exited", "aborted", "killed"}

\* When stop_execution calls std::_Exit, everything that is in the logger's stream
\* (what a race there destroyed is not) is in the file, and no thread but the
\* interrupted main is cut off in the middle of a line: no thread that logs
\* outlives the flush, although the threads finish their passes, and log, after
\* the signal.
OutputComplete == status = "exited" => ~buffered /\ writing \subseteq {"main"}

\* In the perfect links mode the unsynchronised stream is never used by two
\* threads at once, also not by the receive thread and the main thread of one
\* process, so that no line is mixed with another and nothing of it is lost: the
\* target logs in its receive thread and sends nothing, the others log in main.
\* Only so is each event a line of its own, as line 111 of README.md has it; in
\* the broadcast mode main and DeliverPending do write at once.
OneLogger == ~Fifo => Cardinality(writing) <= 1 /\ ~mangled

\* Stop joins a thread that does not exist, and so aborts the process with its
\* log unwritten, only if the signal came before the driver had started all
\* threads: on_ is set before the threads are created.
AbortOnlyInStartup == status = "aborted" => boot # <<>>

\* A signal that finds the driver between two calls of Send, or waiting after
\* the last one, ends the process: every thread that StopExecution joins leaves
\* its loop, the receive thread out of recvfrom too.
IdleTerminates ==
  (signals > 0 /\ boot = <<>> /\ plan["main"] = <<>>)
    ~> status \in {"exited", "killed"}

\* README.md, line 128: a process that receives a signal must stop, and must not
\* handle any received packets.  Here only that it does one of the two: it ends,
\* or handles packets no more from some time on.  If main was interrupted in Send
\* with a mutex that a joined thread waits for, it does neither: StopExecution
\* never gets to the server, and the receive thread runs on for ever.
EndsOrFallsSilent ==
  \/ (signals > 0 /\ boot = <<>>) ~> status # "running"
  \/ <>[][~ReceivePacket]_vars

=============================================================================
