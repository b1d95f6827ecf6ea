--------------------------- MODULE ShutdownProofs ---------------------------
(***************************************************************************)
(* Proofs about Shutdown: what the log file holds when the process ends,   *)
(* and when a join can fail.                                               *)
(***************************************************************************)
EXTENDS Shutdown, FiniteSetTheorems, SequenceTheorems, TLAPS

(***************************************************************************)
(* The handler.                                                            *)
(***************************************************************************)
HandlerSteps == {"manager", "ack", "send", "dlv", "server", "recv", "flush", "exit"}

\* What the handler has still to do when its next step is the given one.
From(step) ==
  CASE step = "manager" -> <<"manager", "server", "flush", "exit">>
    [] step = "ack"     -> IF Fifo THEN <<"ack", "send", "dlv", "server", "flush", "exit">>
                                   ELSE <<"ack", "send", "server", "flush", "exit">>
    [] step = "send"    -> IF Fifo THEN <<"send", "dlv", "server", "flush", "exit">>
                                   ELSE <<"send", "server", "flush", "exit">>
    [] step = "dlv"     -> <<"dlv", "server", "flush", "exit">>
    [] step = "server"  -> <<"server", "flush", "exit">>
    [] step = "recv"    -> <<"recv", "flush", "exit">>
    [] step = "flush"   -> <<"flush", "exit">>
    [] step = "exit"    -> <<"exit">>

\* The next step of the handler.
At(step) == handler # <<>> /\ Head(handler) = step

\* The steps of the handler after the join of worker w.
Beyond(w) ==
  CASE w = "ack"  -> {"send", "dlv", "server", "recv", "flush", "exit"}
    [] w = "send" -> {"dlv", "server", "recv", "flush", "exit"}
    [] w = "dlv"  -> {"server", "recv", "flush", "exit"}
    [] w = "recv" -> {"flush", "exit"}

\* The handler is past the join of worker w.
Passed(w) == \E h \in Beyond(w) : At(h)

\* While the process runs, a handler that was started is at one of its steps.
HandlerInv ==
  status = "running" =>
    /\ (signals = 0) <=> (handler = <<>>)
    /\ handler # <<>> => \E h \in HandlerSteps : handler = From(h) /\ (h = "dlv" => Fifo)

(***************************************************************************)
(* The driver.                                                             *)
(***************************************************************************)
\* The driver is at b, with these threads created and these parts turned on.
\* on_ of a part tells so until the handler stops the part.
BootAt(b, threads, parts) ==
  /\ boot = b
  /\ \A w \in Worker : loc[w] # "none" <=> w \in threads
  /\ handler = <<>> \/ At("manager") => (on.manager <=> "manager" \in parts)
  /\ ~Passed("recv") /\ ~At("recv") => (on.server <=> "server" \in parts)

BootInv ==
  status = "running" =>
    IF Fifo
    THEN \/ BootAt(<<"attach", "server", "recv", "manager", "ack", "send", "dlv">>, {}, {})
         \/ BootAt(<<"server", "recv", "manager", "ack", "send", "dlv">>, {}, {})
         \/ BootAt(<<"recv", "manager", "ack", "send", "dlv">>, {}, {"server"})
         \/ BootAt(<<"manager", "ack", "send", "dlv">>, {"recv"}, {"server"})
         \/ BootAt(<<"ack", "send", "dlv">>, {"recv"}, {"server", "manager"})
         \/ BootAt(<<"send", "dlv">>, {"recv", "ack"}, {"server", "manager"})
         \/ BootAt(<<"dlv">>, {"recv", "ack", "send"}, {"server", "manager"})
         \/ BootAt(<<>>, {"recv", "ack", "send", "dlv"}, {"server", "manager"})
    ELSE \/ BootAt(<<"server", "recv", "attach", "manager", "ack", "send">>, {}, {})
         \/ BootAt(<<"recv", "attach", "manager", "ack", "send">>, {}, {"server"})
         \/ BootAt(<<"attach", "manager", "ack", "send">>, {"recv"}, {"server"})
         \/ BootAt(<<"manager", "ack", "send">>, {"recv"}, {"server"})
         \/ BootAt(<<"ack", "send">>, {"recv"}, {"server", "manager"})
         \/ BootAt(<<"send">>, {"recv", "ack"}, {"server", "manager"})
         \/ BootAt(<<>>, {"recv", "ack", "send"}, {"server", "manager"})

(***************************************************************************)
(* The threads and the log.                                                *)
(***************************************************************************)
\* In the perfect links mode one thread logs, in the broadcast several may.
Logs(t) ==
  \/ Fifo
  \/ role = "sender" /\ t = "main"
  \/ role = "target" /\ t = "recv"

LogInv ==
  /\ role = "target" => sends = 0
  /\ \A t \in Thread : plan[t] \in Seq(Mutex) \/ Logs(t)
  /\ \A t \in writing : Logs(t)
  /\ mangled => Fifo

\* A worker has something to do in its passes only, a thread in the middle of a
\* line has its end still to write, and what the handler joined is over.
WorkerInv ==
  status = "running" =>
    /\ \A w \in Worker : loc[w] # "pass" => plan[w] = <<>>
    /\ \A t \in writing : DoesNext(t, {"log"})
    /\ \A w \in Worker : Passed(w) => loc[w] \in {"none", "done"}
    /\ \A w \in Worker : loc[w] # "none" /\ ~Passed(w) => w \in joinable
    /\ At("exit") => ~buffered

\* What the process leaves behind.
EndInv ==
  /\ status = "exited" => ~buffered /\ writing \subseteq {"main"}
  /\ status = "aborted" => boot # <<>>

ShutdownInv == TypeOK /\ HandlerInv /\ BootInv /\ LogInv /\ WorkerInv /\ EndInv
-----------------------------------------------------------------------------
(***************************************************************************)
(* Facts about the steps.                                                  *)
(***************************************************************************)
\* A step of the driver, by one of the actions of MainStep that are its own.
DriverStep ==
  /\ status = "running"
  /\ signals = 0
  /\ \/ Attach
     \/ \E part \in {"manager", "server"} : TurnOn(part)
     \/ \E w \in Worker : CreateThread(w)
     \/ Send

\* A step of thread t on a mutex or on the log.
PlanStep(t) ==
  /\ status = "running"
  /\ t = "main" => signals = 0
  /\ Lock(t) \/ Unlock(t) \/ WriteText(t) \/ WriteEnd(t)

\* A step of the loop of worker w.
LoopStep(w) ==
  /\ status = "running"
  /\ \/ LoopTest(w)
     \/ w = "recv" /\ ReceiveNothing
     \/ w = "recv" /\ ReceivePacket
     \/ w = "dlv" /\ DeliverNext
     \/ PassEnd(w)

\* The steps of the specification, in these groups.
LEMMA Steps ==
  ASSUME [Next]_vars
  PROVE  \/ DriverStep
         \/ \E t \in Thread : PlanStep(t)
         \/ \E w \in Worker : LoopStep(w)
         \/ Signal
         \/ HandlerStep
         \/ UNCHANGED vars
<1>1. CASE MainStep \/ MainLock
  BY <1>1 DEF MainStep, MainLock, DriverStep, PlanStep, Thread
<1>2. CASE \E w \in Worker : WorkerStep(w) \/ WorkerLock(w)
  <2>1. PICK w \in Worker : WorkerStep(w) \/ WorkerLock(w)
    BY <1>2
  <2>2. w \in Thread /\ w # "main"
    BY DEF Thread, Worker
  <2>3. PlanStep(w) \/ LoopStep(w)
    BY <2>1, <2>2 DEF WorkerStep, WorkerLock, PlanStep, LoopStep
  <2> QED
    BY <2>2, <2>3
<1>3. CASE ReceivePacket
  <2>1. LoopStep("recv") /\ "recv" \in Worker
    BY <1>3 DEF LoopStep, Worker, ReceivePacket
  <2> QED
    BY <2>1
<1> QED
  BY <1>1, <1>2, <1>3 DEF Next

\* The mode of a process does not change, and the handler does only when a
\* signal comes or by its own steps.
LEMMA Frame ==
  /\ DriverStep => UNCHANGED <<role, handler, signals, status, shut, visits, writing, mangled,
                              buffered, owner>>
  /\ \A t : PlanStep(t)
        => UNCHANGED <<role, boot, sends, loc, visits, on, shut, joinable, handler, signals, status>>
  /\ \A w : LoopStep(w)
        => UNCHANGED <<role, boot, sends, owner, on, shut, joinable, handler, signals,
                                       writing, mangled, buffered, status>>
  /\ Signal => UNCHANGED <<role, boot, sends, on, shut, joinable, writing, mangled, buffered>>
  /\ HandlerStep => UNCHANGED <<role, boot, sends, signals, mangled>>
  /\ Signal \/ HandlerStep => visits' \in {visits, 0}
<1>1. DriverStep => UNCHANGED <<role, handler, signals, status, shut, visits, writing, mangled,
                               buffered, owner>>
  BY DEF DriverStep, Attach, TurnOn, CreateThread, BootNext, Send, logVars
<1>2. ASSUME NEW t, PlanStep(t)
      PROVE  UNCHANGED <<role, boot, sends, loc, visits, on, shut, joinable, handler, signals,
                         status>>
  BY <1>2 DEF PlanStep, Lock, Unlock, WriteText, WriteEnd
<1>3. ASSUME NEW w, LoopStep(w)
      PROVE  UNCHANGED <<role, boot, sends, owner, on, shut, joinable, handler, signals, writing,
                         mangled, buffered, status>>
  BY <1>3 DEF LoopStep, LoopTest, ReceiveNothing, ReceivePacket, DeliverNext, PassEnd, logVars
<1>4. Signal => UNCHANGED <<role, boot, sends, on, shut, joinable, writing, mangled, buffered>>
  BY DEF Signal, logVars
<1>5. HandlerStep => UNCHANGED <<role, boot, sends, signals, mangled>>
  BY DEF HandlerStep, StopManager, StopServer, Join, Flush, Exit, HandlerAt, logVars
<1>6. Signal \/ HandlerStep => visits' \in {visits, 0}
  BY DEF Signal, HandlerStep, StopManager, StopServer, Join, Flush, Exit, Gone
<1> QED
  BY <1>1, <1>2, <1>3, <1>4, <1>5, <1>6

\* The plans of calls and passes are made of mutexes and lines.
LEMMA PlanTypes ==
  ASSUME TypeOK
  PROVE  /\ SendPlans \subseteq Seq(Mutex \cup {"log"})
         /\ \A w \in Worker : PassPlans(w) \subseteq Seq(Mutex \cup {"log"})
         /\ DeliverPlans \subseteq Seq(Mutex \cup {"log"})
         /\ PassPlans("ack") \cup PassPlans("send") \subseteq Seq(Mutex)
         /\ role = "sender" => PassPlans("recv") \subseteq Seq(Mutex)
<1> DEFINE S == Mutex \cup {"log"}
<1>1. <<"log", "Q">> \in Seq(S) /\ <<"log", "P", "M">> \in Seq(S) /\ <<"M", "log">> \in Seq(S)
  BY DEF Mutex
<1>2. <<"P">> \in Seq(S) /\ <<"P", "Q">> \in Seq(S) /\ <<"P", "Q", "P", "M">> \in Seq(S)
  BY DEF Mutex
<1>3. <<>> \in Seq(Mutex) /\ <<"M">> \in Seq(Mutex) /\ <<"O">> \in Seq(Mutex)
        /\ <<"O", "M">> \in Seq(Mutex)
  BY DEF Mutex
<1>4. <<>> \in Seq(S) /\ <<"M">> \in Seq(S) /\ <<"O">> \in Seq(S) /\ <<"O", "M">> \in Seq(S)
  BY DEF Mutex
<1>5. <<"O", "log">> \in Seq(S) /\ <<"O", "P">> \in Seq(S) /\ <<"O", "P", "P", "M">> \in Seq(S)
  BY DEF Mutex
<1> HIDE DEF S
<1>6. SendPlans \subseteq Seq(S)
  BY <1>1 DEF SendPlans
<1>7. PassPlans("ack") = {<<>>} /\ PassPlans("send") = {<<"M">>}
  BY DEF PassPlans
<1>8. PassPlans("dlv") = {<<"P">>}
  BY DEF PassPlans
<1>9. role = "sender" \/ role = "target" \/ Fifo
  BY DEF TypeOK, Fifo
<1>10. /\ role = "sender" => PassPlans("recv") = {<<"O">>} \cup {<<"O", "M">>}
       /\ role = "target" => PassPlans("recv") = {<<"O">>} \cup {<<"O", "log">>}
       /\ Fifo => PassPlans("recv") = {<<"O">>} \cup {<<"O", "M">>, <<"O", "P">>,
                                                      <<"O", "P", "P", "M">>}
  BY DEF PassPlans, Fifo
<1>11. PassPlans("ack") \cup PassPlans("send") \cup PassPlans("dlv") \subseteq Seq(S)
  BY <1>2, <1>4, <1>7, <1>8
<1>12. PassPlans("recv") \subseteq Seq(S)
  BY <1>4, <1>5, <1>9, <1>10
<1>13. role = "sender" => PassPlans("recv") \subseteq Seq(Mutex)
  BY <1>3, <1>10
<1>14. Lines \subseteq Seq(S)
  <2>1. ASSUME NEW n \in 0..MaxLines, NEW l \in [1..n -> {"log"}] PROVE l \in Seq(S)
    <3>1. n \in Nat /\ l \in [1..n -> S]
      BY <2>1, ShutdownAssumption DEF S
    <3> QED
      BY <3>1
  <2> QED
    BY <2>1 DEF Lines
<1>15. DeliverPlans \subseteq Seq(S)
  <2>1. ASSUME NEW k \in Seq(S), NEW l \in Seq(S) PROVE k \o l \in Seq(S)
    OBVIOUS
  <2>2. ASSUME NEW d \in DeliverPlans PROVE d \in Seq(S)
    <3>1. PICK k \in DeliverLocks, l \in Lines : d = k \o l
      BY DEF DeliverPlans
    <3>2. k \in Seq(S) /\ l \in Seq(S)
      BY <1>2, <1>14 DEF DeliverLocks
    <3> QED
      BY <2>1, <3>1, <3>2
  <2> QED
    BY <2>2
<1> QED
  BY <1>3, <1>6, <1>7, <1>11, <1>12, <1>13, <1>15 DEF S, Worker
-----------------------------------------------------------------------------
(***************************************************************************)
(* The steps of the handler.                                               *)
(***************************************************************************)
\* StopExecution and the two Stops, step by step.
LEMMA Path ==
  /\ \A h \in HandlerSteps : /\ From(h) # <<>> /\ Head(From(h)) = h
                             /\ From(h) \in Seq({"manager", "server", "flush", "exit"} \cup Worker)
  /\ StopExecution = From("manager")
  /\ ManagerThreads \o Tail(From("manager")) = From("ack")
  /\ <<>> \o Tail(From("manager")) = From("server")
  /\ Tail(From("ack")) = From("send")
  /\ Tail(From("send")) = IF Fifo THEN From("dlv") ELSE From("server")
  /\ Tail(From("dlv")) = From("server")
  /\ <<"recv">> \o Tail(From("server")) = From("recv")
  /\ <<>> \o Tail(From("server")) = From("flush")
  /\ Tail(From("recv")) = From("flush")
  /\ Tail(From("flush")) = From("exit")
<1>1. /\ From("manager") = <<"manager", "server", "flush", "exit">>
      /\ From("ack") = IF Fifo THEN <<"ack", "send", "dlv", "server", "flush", "exit">>
                               ELSE <<"ack", "send", "server", "flush", "exit">>
      /\ From("send") = IF Fifo THEN <<"send", "dlv", "server", "flush", "exit">>
                                ELSE <<"send", "server", "flush", "exit">>
      /\ From("dlv") = <<"dlv", "server", "flush", "exit">>
      /\ From("server") = <<"server", "flush", "exit">>
      /\ From("recv") = <<"recv", "flush", "exit">>
      /\ From("flush") = <<"flush", "exit">>
      /\ From("exit") = <<"exit">>
  BY DEF From
<1>2. ASSUME NEW h \in HandlerSteps PROVE From(h) # <<>> /\ Head(From(h)) = h
  BY <1>1 DEF HandlerSteps
<1>3. ASSUME NEW h \in HandlerSteps
      PROVE  From(h) \in Seq({"manager", "server", "flush", "exit"} \cup Worker)
  <2> DEFINE S == {"manager", "server", "flush", "exit"} \cup Worker
  <2>1. "manager" \in S /\ "ack" \in S /\ "send" \in S /\ "dlv" \in S /\ "server" \in S
        /\ "recv" \in S /\ "flush" \in S /\ "exit" \in S
    BY DEF Worker
  <2> HIDE DEF S
  <2>2. <<"manager", "server", "flush", "exit">> \in Seq(S)
          /\ <<"dlv", "server", "flush", "exit">> \in Seq(S)
    BY <2>1
  <2>3. <<"server", "flush", "exit">> \in Seq(S) /\ <<"recv", "flush", "exit">> \in Seq(S)
    BY <2>1
  <2>4. <<"flush", "exit">> \in Seq(S) /\ <<"exit">> \in Seq(S)
    BY <2>1
  <2>5. From("ack") \in Seq(S)
    <3>1. <<"ack", "send", "dlv", "server", "flush", "exit">> \in Seq(S)
      BY <2>1
    <3>2. <<"ack", "send", "server", "flush", "exit">> \in Seq(S)
      BY <2>1
    <3> QED
      BY <1>1, <3>1, <3>2
  <2>6. From("send") \in Seq(S)
    <3>1. <<"send", "dlv", "server", "flush", "exit">> \in Seq(S)
      BY <2>1
    <3>2. <<"send", "server", "flush", "exit">> \in Seq(S)
      BY <2>1
    <3> QED
      BY <1>1, <3>1, <3>2
  <2> QED
    BY <1>1, <2>2, <2>3, <2>4, <2>5, <2>6 DEF S, HandlerSteps
<1>4. /\ Tail(<<"manager", "server", "flush", "exit">>) = <<"server", "flush", "exit">>
      /\ Tail(<<"dlv", "server", "flush", "exit">>) = <<"server", "flush", "exit">>
  OBVIOUS
<1>5. /\ Tail(<<"server", "flush", "exit">>) = <<"flush", "exit">>
      /\ Tail(<<"recv", "flush", "exit">>) = <<"flush", "exit">>
      /\ Tail(<<"flush", "exit">>) = <<"exit">>
  OBVIOUS
<1>6. Tail(<<"ack", "send", "dlv", "server", "flush", "exit">>)
        = <<"send", "dlv", "server", "flush", "exit">>
  OBVIOUS
<1>7. Tail(<<"ack", "send", "server", "flush", "exit">>) = <<"send", "server", "flush", "exit">>
  OBVIOUS
<1>8. /\ Tail(<<"send", "dlv", "server", "flush", "exit">>) = <<"dlv", "server", "flush", "exit">>
      /\ Tail(<<"send", "server", "flush", "exit">>) = <<"server", "flush", "exit">>
  OBVIOUS
<1>9. <<"ack", "send", "dlv">> \o <<"server", "flush", "exit">>
        = <<"ack", "send", "dlv", "server", "flush", "exit">>
  <2> DEFINE c == <<"ack", "send", "dlv">> \o <<"server", "flush", "exit">>
             d == <<"ack", "send", "dlv", "server", "flush", "exit">>
  <2>1. c \in Seq(HandlerSteps) /\ d \in Seq(HandlerSteps)
    BY DEF HandlerSteps
  <2>2. Len(c) = 6 /\ Len(d) = 6
    OBVIOUS
  <2>3. c[1] = d[1] /\ c[2] = d[2] /\ c[3] = d[3] /\ c[4] = d[4] /\ c[5] = d[5] /\ c[6] = d[6]
    OBVIOUS
  <2> HIDE DEF c, d
  <2>4. \A i \in 1..6 : c[i] = d[i]
    BY <2>3
  <2>5. c = d
    BY <2>1, <2>2, <2>4, SeqEqual
  <2> QED
    BY <2>5 DEF c, d
<1>10. <<"ack", "send">> \o <<"server", "flush", "exit">>
         = <<"ack", "send", "server", "flush", "exit">>
  <2> DEFINE c == <<"ack", "send">> \o <<"server", "flush", "exit">>
             d == <<"ack", "send", "server", "flush", "exit">>
  <2>1. c \in Seq(HandlerSteps) /\ d \in Seq(HandlerSteps)
    BY DEF HandlerSteps
  <2>2. Len(c) = 5 /\ Len(d) = 5
    OBVIOUS
  <2>3. c[1] = d[1] /\ c[2] = d[2] /\ c[3] = d[3] /\ c[4] = d[4] /\ c[5] = d[5]
    OBVIOUS
  <2> HIDE DEF c, d
  <2>4. \A i \in 1..5 : c[i] = d[i]
    BY <2>3
  <2>5. c = d
    BY <2>1, <2>2, <2>4, SeqEqual
  <2> QED
    BY <2>5 DEF c, d
<1>11. /\ <<>> \o <<"server", "flush", "exit">> = <<"server", "flush", "exit">>
       /\ <<>> \o <<"flush", "exit">> = <<"flush", "exit">>
       /\ <<"recv">> \o <<"flush", "exit">> = <<"recv", "flush", "exit">>
  <2>1. <<>> \o <<"server", "flush", "exit">> = <<"server", "flush", "exit">>
    OBVIOUS
  <2>2. <<>> \o <<"flush", "exit">> = <<"flush", "exit">>
    OBVIOUS
  <2>3. <<"recv">> \o <<"flush", "exit">> = <<"recv", "flush", "exit">>
    <3> DEFINE c == <<"recv">> \o <<"flush", "exit">>
               d == <<"recv", "flush", "exit">>
    <3>1. c \in Seq(HandlerSteps) /\ d \in Seq(HandlerSteps)
      BY DEF HandlerSteps
    <3>2. Len(c) = 3 /\ Len(d) = 3
      OBVIOUS
    <3>3. c[1] = d[1] /\ c[2] = d[2] /\ c[3] = d[3]
      OBVIOUS
    <3> HIDE DEF c, d
    <3>4. \A i \in 1..3 : c[i] = d[i]
      BY <3>3
    <3>5. c = d
      BY <3>1, <3>2, <3>4, SeqEqual
    <3> QED
      BY <3>5 DEF c, d
  <2> QED
    BY <2>1, <2>2, <2>3
<1>12. /\ StopExecution = <<"manager", "server", "flush", "exit">>
       /\ ManagerThreads = IF Fifo THEN <<"ack", "send", "dlv">> ELSE <<"ack", "send">>
  BY DEF StopExecution, ManagerThreads
<1>13. /\ \A h \in HandlerSteps : /\ From(h) # <<>> /\ Head(From(h)) = h
                                  /\ From(h) \in Seq({"manager", "server", "flush", "exit"} \cup Worker)
  BY <1>2, <1>3
<1>14. StopExecution = From("manager")
  BY <1>1, <1>12
<1>15. ManagerThreads \o Tail(From("manager")) = From("ack")
  <2>1. Tail(From("manager")) = <<"server", "flush", "exit">>
    BY <1>1, <1>4
  <2> QED
    BY <1>1, <1>9, <1>10, <1>12, <2>1
<1>16. <<>> \o Tail(From("manager")) = From("server")
  BY <1>1, <1>4, <1>11
<1>17. Tail(From("ack")) = From("send")
  BY <1>1, <1>6, <1>7
<1>18. Tail(From("send")) = IF Fifo THEN From("dlv") ELSE From("server")
  BY <1>1, <1>8
<1>19. Tail(From("dlv")) = From("server") /\ Tail(From("recv")) = From("flush")
       /\ Tail(From("flush")) = From("exit")
  BY <1>1, <1>4, <1>5
<1>20. <<"recv">> \o Tail(From("server")) = From("recv")
         /\ <<>> \o Tail(From("server")) = From("flush")
  BY <1>1, <1>5, <1>11
<1> QED
  BY <1>13, <1>14, <1>15, <1>16, <1>17, <1>18, <1>19, <1>20

\* The handler goes from step h to step k, and the process runs on.
Moves(h, k) ==
  /\ status = "running" /\ status' = "running"
  /\ At(h) /\ handler = From(h)
  /\ handler' = From(k) /\ (k = "dlv" => Fifo)

\* Where the handler goes after it joined w.
AfterJoin(w) ==
  CASE w = "ack"  -> "send"
    [] w = "send" -> IF Fifo THEN "dlv" ELSE "server"
    [] w = "dlv"  -> "server"
    [] w = "recv" -> "flush"

\* The steps of the handler, along this path.
HandlerDoes ==
  \/ /\ Moves("manager", IF on.manager THEN "ack" ELSE "server")
     /\ on' = [on EXCEPT !.manager = FALSE]
     /\ UNCHANGED <<loc, plan, owner, shut, joinable, writing, buffered>>
  \/ /\ Moves("server", IF on.server THEN "recv" ELSE "flush")
     /\ on' = [on EXCEPT !.server = FALSE]
     /\ shut' = (shut \/ on.server)
     /\ UNCHANGED <<loc, plan, owner, joinable, writing, buffered>>
  \/ \E w \in Worker :
       /\ Moves(w, AfterJoin(w))
       /\ loc[w] = "done"
       /\ joinable' = joinable \ {w}
       /\ UNCHANGED <<loc, plan, owner, on, shut, writing, buffered>>
  \/ /\ Moves("flush", "exit")
     /\ buffered' = FALSE
     /\ UNCHANGED <<loc, plan, owner, on, shut, joinable, writing>>
  \/ /\ status = "running" /\ Gone("aborted")
     /\ \E w \in Worker : At(w) /\ handler = From(w) /\ w \notin joinable /\ (w = "dlv" => Fifo)
     /\ UNCHANGED <<on, shut, joinable, writing, buffered>>
  \/ /\ status = "running" /\ Gone("exited") /\ At("exit")
     /\ UNCHANGED <<on, shut, joinable, writing, buffered>>

\* In states that satisfy the invariant the handler takes no other step.
LEMMA HandlerTakes ==
  ASSUME TypeOK, HandlerInv, HandlerStep
  PROVE  HandlerDoes
<1>1. ASSUME NEW h, HandlerAt(h)
      PROVE  status = "running" /\ At(h) /\ handler = From(h) /\ (h = "dlv" => Fifo)
  <2>1. status = "running" /\ At(h)
    BY <1>1 DEF HandlerAt, At
  <2>2. PICK g \in HandlerSteps : handler = From(g) /\ (g = "dlv" => Fifo)
    BY <2>1 DEF HandlerInv, At
  <2>3. g = h
    BY <2>1, <2>2, Path DEF At
  <2> QED
    BY <2>1, <2>2, <2>3
<1>2. CASE StopManager
  <2>1. HandlerAt("manager")
    BY <1>2 DEF StopManager
  <2>2. status = "running" /\ At("manager") /\ handler = From("manager")
    BY <1>1, <2>1
  <2>3. handler' = From(IF on.manager THEN "ack" ELSE "server")
    BY <1>2, <2>2, Path DEF StopManager
  <2>4. Moves("manager", IF on.manager THEN "ack" ELSE "server")
    BY <1>2, <2>2, <2>3 DEF Moves, StopManager
  <2> QED
    BY <1>2, <2>4 DEF StopManager, HandlerDoes, logVars
<1>3. CASE StopServer
  <2>1. HandlerAt("server")
    BY <1>3 DEF StopServer
  <2>2. status = "running" /\ At("server") /\ handler = From("server")
    BY <1>1, <2>1
  <2>3. handler' = From(IF on.server THEN "recv" ELSE "flush")
    BY <1>3, <2>2, Path DEF StopServer
  <2>4. Moves("server", IF on.server THEN "recv" ELSE "flush")
    BY <1>3, <2>2, <2>3 DEF Moves, StopServer
  <2> QED
    BY <1>3, <2>4 DEF StopServer, HandlerDoes, logVars
<1>4. ASSUME NEW w \in Worker, Join(w) PROVE HandlerDoes
  <2>1. HandlerAt(w)
    BY <1>4 DEF Join
  <2>2. status = "running" /\ At(w) /\ handler = From(w) /\ (w = "dlv" => Fifo)
    BY <1>1, <2>1
  <2>3. Tail(From(w)) = From(AfterJoin(w)) /\ (AfterJoin(w) = "dlv" => Fifo)
    BY Path DEF Worker, AfterJoin
  <2>4. CASE w \in joinable
    <3>1. Moves(w, AfterJoin(w)) /\ loc[w] = "done" /\ joinable' = joinable \ {w}
      BY <1>4, <2>2, <2>3, <2>4 DEF Join, Moves
    <3>2. UNCHANGED <<loc, plan, owner, on, shut, writing, buffered>>
      BY <1>4, <2>4 DEF Join, logVars
    <3> QED
      BY <3>1, <3>2 DEF HandlerDoes
  <2>5. CASE w \notin joinable
    <3>1. Gone("aborted") /\ UNCHANGED <<on, shut, joinable, writing, buffered>>
      BY <1>4, <2>5 DEF Join, logVars
    <3> QED
      BY <2>2, <2>5, <3>1 DEF HandlerDoes
  <2> QED
    BY <2>4, <2>5
<1>5. CASE Flush
  <2>1. HandlerAt("flush")
    BY <1>5 DEF Flush
  <2>2. status = "running" /\ At("flush") /\ handler = From("flush")
    BY <1>1, <2>1
  <2>3. Moves("flush", "exit")
    BY <1>5, <2>2, Path DEF Flush, Moves
  <2> QED
    BY <1>5, <2>3 DEF Flush, HandlerDoes
<1>6. CASE Exit
  <2>1. HandlerAt("exit")
    BY <1>6 DEF Exit
  <2>2. status = "running" /\ At("exit")
    BY <1>1, <2>1
  <2> QED
    BY <1>6, <2>2 DEF Exit, HandlerDoes, logVars
<1> QED
  BY <1>2, <1>3, <1>4, <1>5, <1>6 DEF HandlerStep

\* A handler at From(k) is at step k.
LEMMA Arrives ==
  ASSUME NEW k \in HandlerSteps, handler' = From(k)
  PROVE  At(k)' /\ \A h : At(h)' => h = k
BY Path DEF At

\* A step leaves the handler at one of its steps.
LEMMA HandlerKept == TypeOK /\ HandlerInv /\ [Next]_vars => HandlerInv'
<1> SUFFICES ASSUME TypeOK, HandlerInv, [Next]_vars PROVE HandlerInv'
  OBVIOUS
<1>1. ASSUME role' = role PROVE Fifo' = Fifo /\ \A h : From(h)' = From(h)
  BY <1>1 DEF From, Fifo
<1>2. CASE UNCHANGED <<role, handler, signals, status>>
  BY <1>1, <1>2 DEF HandlerInv
<1>3. CASE Signal
  <2>1. role' = role /\ status = "running" /\ signals \in Nat /\ signals' = signals + 1
    BY <1>3 DEF Signal, TypeOK
  <2>2. CASE signals = 0
    <3>1. handler' = From("manager") /\ status' = status
      BY <1>3, <2>2, Path DEF Signal
    <3>2. From("manager") # <<>>
      BY Path DEF HandlerSteps
    <3> QED
      BY <1>1, <2>1, <2>2, <3>1, <3>2 DEF HandlerInv, HandlerSteps
  <2>3. CASE signals # 0
    BY <1>3, <2>3 DEF Signal, Gone, HandlerInv
  <2> QED
    BY <2>2, <2>3
<1>4. CASE HandlerStep
  <2>1. HandlerDoes /\ role' = role /\ signals' = signals
    BY <1>4, HandlerTakes, Frame
  <2>2. CASE status' # "running"
    BY <2>2 DEF HandlerInv
  <2>3. CASE status' = "running"
    <3>1. PICK h \in HandlerSteps, k \in HandlerSteps : Moves(h, k)
      <4>1. \A w \in Worker : w \in HandlerSteps /\ AfterJoin(w) \in HandlerSteps
        BY DEF Worker, HandlerSteps, AfterJoin
      <4>2. {"manager", "ack", "server", "recv", "flush", "exit"} \subseteq HandlerSteps
        BY DEF HandlerSteps
      <4> QED
        BY <2>1, <2>3, <4>1, <4>2 DEF HandlerDoes, Gone
    <3>2. signals # 0
      BY <3>1 DEF Moves, At, HandlerInv
    <3>3. handler' = From(k) /\ handler' # <<>> /\ (k = "dlv" => Fifo)
      BY <3>1, Path DEF Moves
    <3> QED
      BY <1>1, <2>1, <3>2, <3>3 DEF HandlerInv
  <2> QED
    BY <2>2, <2>3
<1> QED
  BY <1>2, <1>3, <1>4, Steps, Frame DEF vars
-----------------------------------------------------------------------------
(***************************************************************************)
(* The initial states.                                                     *)
(***************************************************************************)
\* The invariant holds at the start.
LEMMA ShutdownInit == Init => ShutdownInv
<1> SUFFICES ASSUME Init PROVE ShutdownInv
  OBVIOUS
<1>1. role \in {"fifo", "sender", "target"} /\ handler = <<>> /\ signals = 0 /\ status = "running"
  BY DEF Init
<1>2. /\ MaxSends \in Nat /\ MaxSignals \in Nat /\ MaxVisits \in Nat
      /\ "none" \in {"none", "top", "recvfrom", "pass", "done"}
  BY ShutdownAssumption
<1>3. boot \in Seq({"attach", "server", "manager"} \cup Worker)
  <2> DEFINE S == {"attach", "server", "manager"} \cup Worker
  <2>1. "attach" \in S /\ "server" \in S /\ "recv" \in S /\ "manager" \in S /\ "ack" \in S
          /\ "send" \in S
        /\ "dlv" \in S
    BY DEF Worker
  <2> HIDE DEF S
  <2>2. <<"attach", "server", "recv", "manager", "ack", "send", "dlv">> \in Seq(S)
    BY <2>1
  <2>3. <<"server", "recv", "attach", "manager", "ack", "send">> \in Seq(S)
    BY <2>1
  <2> QED
    BY <2>2, <2>3 DEF Init, Boot, S
<1>4. sends \in 0..MaxSends /\ (role = "target" => sends = 0)
  BY <1>2 DEF Init
<1>5. on \in [manager : BOOLEAN, server : BOOLEAN] /\ on.manager = FALSE /\ on.server = FALSE
  BY DEF Init
<1>6. TypeOK
  <2>1. loc \in [Worker -> {"none", "top", "recvfrom", "pass", "done"}]
    BY DEF Init
  <2>2. plan \in [Thread -> Seq(Mutex \cup {"log"})]
    BY DEF Init
  <2>3. owner \in [Mutex -> Thread \cup {"free"}]
    BY DEF Init
  <2>4. handler \in Seq({"manager", "server", "flush", "exit"} \cup Worker)
    BY <1>1
  <2>5. signals \in 0..MaxSignals
    BY <1>1, <1>2
  <2>6. shut \in BOOLEAN /\ joinable \subseteq Worker /\ writing \subseteq Thread
          /\ buffered \in BOOLEAN /\ mangled \in BOOLEAN
    BY DEF Init
  <2>7. visits \in 0..MaxVisits
    BY <1>2 DEF Init
  <2> QED
    BY <1>1, <1>3, <1>4, <1>5, <2>1, <2>2, <2>3, <2>4, <2>5, <2>6, <2>7 DEF TypeOK
<1>7. HandlerInv
  BY <1>1 DEF HandlerInv
<1>8. ~Passed("recv") /\ \A w \in Worker : ~Passed(w)
  BY <1>1 DEF Passed, Beyond, At, Worker
<1>9. BootAt(Boot, {}, {})
  BY <1>1, <1>5 DEF Init, BootAt
<1>10. BootInv
  BY <1>9 DEF BootInv, Boot
<1>11. LogInv
  BY <1>4 DEF Init, LogInv
<1>12. WorkerInv
  BY <1>1, <1>8 DEF Init, WorkerInv, At, Worker, Thread
<1>13. EndInv
  BY <1>1 DEF EndInv
<1> QED
  BY <1>6, <1>7, <1>10, <1>11, <1>12, <1>13 DEF ShutdownInv
-----------------------------------------------------------------------------
(***************************************************************************)
(* Types.                                                                  *)
(***************************************************************************)
\* A step keeps the types.
LEMMA TypeKept == TypeOK /\ HandlerInv /\ [Next]_vars => TypeOK'
<1> SUFFICES ASSUME TypeOK, HandlerInv, [Next]_vars PROVE TypeOK'
  OBVIOUS
<1>1. CASE DriverStep
  <2>0. UNCHANGED <<role, handler, signals, status, shut, visits, writing, mangled, buffered, owner>>
    BY <1>1, Frame
  <2>1. CASE Attach
    <3>1. <<"O">> \in Seq(Mutex \cup {"log"}) /\ "main" \in Thread
      BY DEF Mutex, Thread
    <3>2. plan' \in [Thread -> Seq(Mutex \cup {"log"})]
      BY <2>1, <3>1 DEF Attach, TypeOK
    <3> QED
      BY <2>0, <2>1, <3>2 DEF Attach, BootNext, TypeOK
  <2>2. ASSUME NEW part \in {"manager", "server"}, TurnOn(part) PROVE TypeOK'
    <3>1. on' \in [manager : BOOLEAN, server : BOOLEAN]
      BY <2>2 DEF TurnOn, TypeOK
    <3> QED
      BY <2>0, <2>2, <3>1 DEF TurnOn, BootNext, TypeOK
  <2>3. ASSUME NEW w \in Worker, CreateThread(w) PROVE TypeOK'
    <3>1. loc' \in [Worker -> {"none", "top", "recvfrom", "pass", "done"}]
            /\ joinable' \subseteq Worker
      BY <2>3 DEF CreateThread, TypeOK
    <3> QED
      BY <2>0, <2>3, <3>1 DEF CreateThread, BootNext, TypeOK
  <2>4. CASE Send
    <3>0. PICK p \in SendPlans : plan' = [plan EXCEPT !["main"] = p]
      BY <2>4 DEF Send
    <3>1. plan' \in [Thread -> Seq(Mutex \cup {"log"})]
      <4>1. p \in Seq(Mutex \cup {"log"})
        BY PlanTypes
      <4> QED
        BY <3>0, <4>1 DEF TypeOK
    <3>2. sends' \in 0..MaxSends
      BY <2>4, ShutdownAssumption DEF Send, TypeOK
    <3> QED
      BY <2>0, <2>4, <3>1, <3>2 DEF Send, TypeOK
  <2> QED
    BY <1>1, <2>1, <2>2, <2>3, <2>4 DEF DriverStep
<1>2. ASSUME NEW t \in Thread, PlanStep(t) PROVE TypeOK'
  <2>0. UNCHANGED <<role, boot, sends, loc, visits, on, shut, joinable, handler, signals, status>>
    BY <1>2, Frame
  <2>1. plan[t] # <<>> => Tail(plan[t]) \in Seq(Mutex \cup {"log"})
    BY DEF TypeOK
  <2>2. CASE Lock(t)
    <3>1. owner' \in [Mutex -> Thread \cup {"free"}]
      BY <2>2 DEF Lock, TypeOK
    <3> QED
      BY <2>0, <2>2, <3>1 DEF Lock, TypeOK, logVars
  <2>3. CASE Unlock(t)
    <3>1. owner' \in [Mutex -> Thread \cup {"free"}]
      BY <2>3 DEF Unlock, TypeOK
    <3>2. plan' \in [Thread -> Seq(Mutex \cup {"log"})]
      BY <2>1, <2>3 DEF Unlock, DoesNext, TypeOK
    <3> QED
      BY <2>0, <2>3, <3>1, <3>2 DEF Unlock, TypeOK, logVars
  <2>4. CASE WriteText(t)
    BY <2>0, <2>4 DEF WriteText, TypeOK
  <2>5. CASE WriteEnd(t)
    <3>1. plan' = [plan EXCEPT ![t] = Tail(plan[t])] /\ plan[t] # <<>>
      BY <2>5 DEF WriteEnd, DoesNext
    <3>2. plan' \in [Thread -> Seq(Mutex \cup {"log"})]
      BY <2>1, <3>1 DEF TypeOK
    <3>3. writing' \subseteq Thread /\ buffered' \in BOOLEAN /\ owner' = owner /\ mangled' = mangled
      BY <2>5 DEF WriteEnd, TypeOK, logVars
    <3> QED
      BY <2>0, <3>2, <3>3 DEF TypeOK
  <2> QED
    BY <1>2, <2>2, <2>3, <2>4, <2>5 DEF PlanStep
<1>3. ASSUME NEW w \in Worker, LoopStep(w) PROVE TypeOK'
  <2>0. UNCHANGED <<role, boot, sends, owner, on, shut, joinable, handler, signals, writing,
                    mangled, buffered, status>>
    BY <1>3, Frame
  <2>1. loc' \in [Worker -> {"none", "top", "recvfrom", "pass", "done"}]
    BY <1>3 DEF LoopStep, LoopTest, ReceiveNothing, ReceivePacket, DeliverNext, PassEnd, TypeOK
  <2>2. plan' = plan \/ \E p \in PassPlans(w) \cup DeliverPlans : plan' = [plan EXCEPT ![w] = p]
    BY <1>3 DEF LoopStep, LoopTest, ReceiveNothing, ReceivePacket, DeliverNext, PassEnd
  <2>3. plan' \in [Thread -> Seq(Mutex \cup {"log"})]
    BY <2>2, PlanTypes DEF TypeOK
  <2>4. visits' \in 0..MaxVisits
    <3>1. visits' = visits \/ visits' \in 0..MaxVisits \/ (visits > 0 /\ visits' = visits - 1)
      BY <1>3 DEF LoopStep, LoopTest, ReceiveNothing, ReceivePacket, DeliverNext, PassEnd
    <3> QED
      BY <3>1, ShutdownAssumption DEF TypeOK
  <2> QED
    BY <2>0, <2>1, <2>3, <2>4 DEF TypeOK
<1>4. ASSUME NEW how \in {"exited", "aborted", "killed"}, Gone(how)
      PROVE  /\ loc' \in [Worker -> {"none", "top", "recvfrom", "pass", "done"}]
             /\ plan' \in [Thread -> Seq(Mutex \cup {"log"})]
             /\ owner' \in [Mutex -> Thread \cup {"free"}]
             /\ handler' \in Seq({"manager", "server", "flush", "exit"} \cup Worker)
             /\ status' \in {"running", "exited", "aborted", "killed"}
  BY <1>4 DEF Gone
<1>0. Signal \/ HandlerStep => visits' \in 0..MaxVisits
  BY Frame, ShutdownAssumption DEF TypeOK
<1>5. CASE Signal
  <2>1. signals' \in 0..MaxSignals
    BY <1>5, ShutdownAssumption DEF Signal, TypeOK
  <2>2. CASE signals = 0
    <3>1. handler' \in Seq({"manager", "server", "flush", "exit"} \cup Worker)
      BY <1>5, <2>2, Path DEF Signal, HandlerSteps
    <3> QED
      BY <1>0, <1>5, <2>1, <2>2, <3>1 DEF Signal, TypeOK, logVars
  <2>3. CASE signals # 0
    BY <1>0, <1>4, <1>5, <2>1, <2>3 DEF Signal, TypeOK, logVars
  <2> QED
    BY <2>2, <2>3
<1>6. CASE HandlerStep
  <2>1. HandlerDoes /\ UNCHANGED <<role, boot, sends, signals, mangled>> /\ visits' \in 0..MaxVisits
    BY <1>0, <1>6, HandlerTakes, Frame
  <2>2. \A w \in Worker : AfterJoin(w) \in HandlerSteps
    BY DEF Worker, HandlerSteps, AfterJoin
  <2>3. ASSUME NEW h, NEW k \in HandlerSteps, Moves(h, k)
        PROVE  handler' \in Seq({"manager", "server", "flush", "exit"} \cup Worker)
               /\ status' = status
    BY <2>3, Path DEF Moves
  <2>4. CASE Gone("aborted") \/ Gone("exited")
    <3>1. UNCHANGED <<on, shut, joinable, writing, buffered>>
      BY <2>1, <2>4 DEF HandlerDoes, Gone, Moves
    <3> QED
      BY <1>4, <2>1, <2>4, <3>1 DEF TypeOK
  <2>5. CASE ~Gone("aborted") /\ ~Gone("exited")
    <3>1. /\ handler' \in Seq({"manager", "server", "flush", "exit"} \cup Worker)
          /\ status' = status
          /\ UNCHANGED <<loc, plan, owner, writing>>
      BY <2>1, <2>2, <2>3, <2>5 DEF HandlerDoes, HandlerSteps
    <3>2. on' \in [manager : BOOLEAN, server : BOOLEAN] /\ shut' \in BOOLEAN
      BY <2>1, <2>5 DEF HandlerDoes, TypeOK
    <3>3. joinable' \subseteq Worker /\ buffered' \in BOOLEAN
      BY <2>1, <2>5 DEF HandlerDoes, TypeOK
    <3> QED
      BY <2>1, <3>1, <3>2, <3>3 DEF TypeOK
  <2> QED
    BY <2>4, <2>5
<1>7. CASE UNCHANGED vars
  BY <1>7 DEF vars, logVars, TypeOK
<1> QED
  BY <1>1, <1>2, <1>3, <1>5, <1>6, <1>7, Steps
-----------------------------------------------------------------------------
(***************************************************************************)
(* The driver.                                                             *)
(***************************************************************************)
\* What the driver has still to do tells which threads there are.
LEMMA BootTells ==
  ASSUME BootInv, status = "running"
  PROVE  /\ ~Fifo => loc["dlv"] = "none"
         /\ boot = <<>> => \A w \in Worker : (w = "dlv" => Fifo) => loc[w] # "none"
         /\ handler = <<>> \/ At("manager") =>
              (~on.manager => \A w \in {"ack", "send", "dlv"} : loc[w] = "none")
         /\ ~Passed("recv") /\ ~At("recv") => (~on.server => loc["recv"] = "none")
<1>1. {"ack", "send", "dlv"} \subseteq Worker /\ "recv" \in Worker
  BY DEF Worker
<1>2. ASSUME NEW b, NEW threads, NEW parts, BootAt(b, threads, parts)
      PROVE  /\ boot = b
             /\ \A w \in Worker : loc[w] # "none" <=> w \in threads
             /\ loc["recv"] # "none" <=> "recv" \in threads
             /\ \A w \in {"ack", "send", "dlv"} : loc[w] # "none" <=> w \in threads
             /\ handler = <<>> \/ At("manager") => (on.manager <=> "manager" \in parts)
             /\ ~Passed("recv") /\ ~At("recv") => (on.server <=> "server" \in parts)
  BY <1>1, <1>2 DEF BootAt
<1>3. ~Fifo => loc["dlv"] = "none"
  BY <1>2 DEF BootInv
<1>4. ASSUME boot = <<>>, NEW w \in Worker, w = "dlv" => Fifo PROVE loc[w] # "none"
  <2>1. CASE Fifo
    <3>1. /\ <<"attach", "server", "recv", "manager", "ack", "send", "dlv">> # <<>>
          /\ <<"server", "recv", "manager", "ack", "send", "dlv">> # <<>>
          /\ <<"recv", "manager", "ack", "send", "dlv">> # <<>>
          /\ <<"manager", "ack", "send", "dlv">> # <<>>
          /\ <<"ack", "send", "dlv">> # <<>> /\ <<"send", "dlv">> # <<>> /\ <<"dlv">> # <<>>
      OBVIOUS
    <3>2. BootAt(<<>>, {"recv", "ack", "send", "dlv"}, {"server", "manager"})
      BY <1>2, <1>4, <2>1, <3>1 DEF BootInv
    <3> QED
      BY <1>2, <3>2 DEF Worker
  <2>2. CASE ~Fifo
    <3>1. /\ <<"server", "recv", "attach", "manager", "ack", "send">> # <<>>
          /\ <<"recv", "attach", "manager", "ack", "send">> # <<>>
          /\ <<"attach", "manager", "ack", "send">> # <<>>
          /\ <<"manager", "ack", "send">> # <<>>
          /\ <<"ack", "send">> # <<>> /\ <<"send">> # <<>>
      OBVIOUS
    <3>2. BootAt(<<>>, {"recv", "ack", "send"}, {"server", "manager"})
      BY <1>2, <1>4, <2>2, <3>1 DEF BootInv
    <3> QED
      BY <1>2, <1>4, <2>2, <3>2 DEF Worker
  <2> QED
    BY <2>1, <2>2
<1>5. ASSUME handler = <<>> \/ At("manager"), ~on.manager
      PROVE  \A w \in {"ack", "send", "dlv"} : loc[w] = "none"
  <2>1. CASE Fifo
    BY <1>2, <1>5, <2>1 DEF BootInv
  <2>2. CASE ~Fifo
    BY <1>2, <1>5, <2>2 DEF BootInv
  <2> QED
    BY <2>1, <2>2
<1>6. ASSUME ~Passed("recv"), ~At("recv"), ~on.server PROVE loc["recv"] = "none"
  <2>1. CASE Fifo
    BY <1>2, <1>6, <2>1 DEF BootInv
  <2>2. CASE ~Fifo
    BY <1>2, <1>6, <2>2 DEF BootInv
  <2> QED
    BY <2>1, <2>2
<1> QED
  BY <1>3, <1>4, <1>5, <1>6

\* A thread that the driver is about to create does not exist.
LEMMA BootHead ==
  ASSUME BootInv, status = "running", boot # <<>>, Head(boot) \in Worker
  PROVE  loc[Head(boot)] = "none"
<1>1. ASSUME NEW b, NEW threads, NEW parts, BootAt(b, threads, parts), Head(b) \notin threads
      PROVE  loc[Head(boot)] = "none"
  BY <1>1 DEF BootAt
<1>2. CASE Fifo
  <2>1. /\ Head(<<"attach", "server", "recv", "manager", "ack", "send", "dlv">>) \notin {}
        /\ Head(<<"server", "recv", "manager", "ack", "send", "dlv">>) \notin {}
        /\ Head(<<"recv", "manager", "ack", "send", "dlv">>) \notin {}
        /\ Head(<<"manager", "ack", "send", "dlv">>) \notin {"recv"}
        /\ Head(<<"ack", "send", "dlv">>) \notin {"recv"}
        /\ Head(<<"send", "dlv">>) \notin {"recv", "ack"}
        /\ Head(<<"dlv">>) \notin {"recv", "ack", "send"}
    OBVIOUS
  <2>2. ~BootAt(<<>>, {"recv", "ack", "send", "dlv"}, {"server", "manager"})
    BY DEF BootAt
  <2> QED
    BY <1>1, <1>2, <2>1, <2>2 DEF BootInv
<1>3. CASE ~Fifo
  <2>1. /\ Head(<<"server", "recv", "attach", "manager", "ack", "send">>) \notin {}
        /\ Head(<<"recv", "attach", "manager", "ack", "send">>) \notin {}
        /\ Head(<<"attach", "manager", "ack", "send">>) \notin {"recv"}
        /\ Head(<<"manager", "ack", "send">>) \notin {"recv"}
        /\ Head(<<"ack", "send">>) \notin {"recv"}
        /\ Head(<<"send">>) \notin {"recv", "ack"}
    OBVIOUS
  <2>2. ~BootAt(<<>>, {"recv", "ack", "send"}, {"server", "manager"})
    BY DEF BootAt
  <2> QED
    BY <1>1, <1>3, <2>1, <2>2 DEF BootInv
<1> QED
  BY <1>2, <1>3

\* A step of the driver does what is next.
LEMMA BootMoves ==
  ASSUME TypeOK, DriverStep, handler = <<>>, NEW b, NEW threads, NEW parts, b # <<>>,
         BootAt(b, threads, parts), NEW c, NEW threads2, NEW parts2, c = Tail(b),
         threads2 = IF Head(b) \in Worker THEN threads \cup {Head(b)} ELSE threads,
         parts2 = IF Head(b) \in {"manager", "server"} THEN parts \cup {Head(b)} ELSE parts
  PROVE  BootAt(c, threads2, parts2)'
<1>1. boot = b /\ UNCHANGED <<handler, role>>
  BY Frame DEF BootAt
<1>2. /\ \A h : ~At(h) /\ ~At(h)'
      /\ ~Passed("recv") /\ ~Passed("recv")'
  BY <1>1 DEF At, Passed, Beyond
<1>3. /\ \A w \in Worker : loc[w] # "none" <=> w \in threads
      /\ on.manager <=> "manager" \in parts
      /\ on.server <=> "server" \in parts
  BY <1>2 DEF BootAt
<1>4. "attach" \notin Worker \cup {"manager", "server"} /\ Worker \cap {"manager", "server"} = {}
  BY DEF Worker
<1>5. CASE Attach
  <2>1. Head(b) = "attach" /\ boot' = Tail(b) /\ loc' = loc /\ on' = on
    BY <1>1, <1>5 DEF Attach, BootNext
  <2> QED
    BY <1>2, <1>3, <1>4, <2>1 DEF BootAt
<1>6. ASSUME NEW part \in {"manager", "server"}, TurnOn(part)
      PROVE  BootAt(c, threads2, parts2)'
  <2>1. Head(b) = part /\ boot' = Tail(b) /\ loc' = loc /\ on' = [on EXCEPT ![part] = TRUE]
    BY <1>1, <1>6 DEF TurnOn, BootNext
  <2>2. /\ on'.manager <=> part = "manager" \/ on.manager
        /\ on'.server <=> part = "server" \/ on.server
    BY <2>1 DEF TypeOK
  <2> QED
    BY <1>2, <1>3, <1>4, <2>1, <2>2 DEF BootAt
<1>7. ASSUME NEW w \in Worker, CreateThread(w)
      PROVE  BootAt(c, threads2, parts2)'
  <2>1. Head(b) = w /\ boot' = Tail(b) /\ loc' = [loc EXCEPT ![w] = "top"] /\ on' = on
    BY <1>1, <1>7 DEF CreateThread, BootNext
  <2>2. \A v \in Worker : loc'[v] = IF v = w THEN "top" ELSE loc[v]
    BY <2>1 DEF TypeOK
  <2> QED
    BY <1>2, <1>3, <1>4, <2>1, <2>2 DEF BootAt
<1>8. ~Send
  BY <1>1 DEF Send
<1> QED
  BY <1>5, <1>6, <1>7, <1>8 DEF DriverStep

\* A step that creates no thread and turns nothing on or off.
LEMMA BootStays ==
  ASSUME BootInv, status = "running", role' = role, boot' = boot,
         \A w \in Worker : loc'[w] # "none" <=> loc[w] # "none",
         handler' = <<>> \/ At("manager")'
           => (handler = <<>> \/ At("manager")) /\ on'.manager = on.manager,
         ~Passed("recv")' /\ ~At("recv")'
           => ~Passed("recv") /\ ~At("recv") /\ on'.server = on.server
  PROVE  BootInv'
<1>1. ASSUME NEW b, NEW threads, NEW parts, BootAt(b, threads, parts)
      PROVE  BootAt(b, threads, parts)'
  BY <1>1 DEF BootAt
<1>2. Fifo' <=> Fifo
  BY DEF Fifo
<1>3. CASE Fifo
  BY <1>1, <1>2, <1>3 DEF BootInv
<1>4. CASE ~Fifo
  BY <1>1, <1>2, <1>4 DEF BootInv
<1> QED
  BY <1>3, <1>4

\* A step keeps the driver on its way.
LEMMA BootKept == TypeOK /\ HandlerInv /\ BootInv /\ [Next]_vars => BootInv'
<1> SUFFICES ASSUME TypeOK, HandlerInv, BootInv, [Next]_vars PROVE BootInv'
  OBVIOUS
<1>1. ASSUME DriverStep PROVE BootInv'
  <2>0. /\ status = "running" /\ handler = <<>> /\ UNCHANGED <<role, handler, status>>
        /\ Fifo' <=> Fifo
    BY <1>1, Frame DEF DriverStep, HandlerInv, Fifo
  <2>1. ASSUME Fifo, BootAt(<<"attach", "server", "recv", "manager", "ack", "send", "dlv">>, {}, {})
        PROVE  BootInv'
    <3>1. /\ <<"attach", "server", "recv", "manager", "ack", "send", "dlv">> # <<>>
          /\ Head(<<"attach", "server", "recv", "manager", "ack", "send", "dlv">>) = "attach"
          /\ Tail(<<"attach", "server", "recv", "manager", "ack", "send", "dlv">>)
               = <<"server", "recv", "manager", "ack", "send", "dlv">>
      OBVIOUS
    <3>2. "attach" \notin Worker /\ "attach" \notin {"manager", "server"}
      BY DEF Worker
    <3>3. BootAt(<<"server", "recv", "manager", "ack", "send", "dlv">>, {}, {})'
      BY <1>1, <2>0, <2>1, <3>1, <3>2, BootMoves
    <3> QED
      BY <2>0, <2>1, <3>3 DEF BootInv
  <2>2. ASSUME Fifo, BootAt(<<"server", "recv", "manager", "ack", "send", "dlv">>, {}, {})
        PROVE  BootInv'
    <3>1. /\ <<"server", "recv", "manager", "ack", "send", "dlv">> # <<>>
          /\ Head(<<"server", "recv", "manager", "ack", "send", "dlv">>) = "server"
          /\ Tail(<<"server", "recv", "manager", "ack", "send", "dlv">>)
               = <<"recv", "manager", "ack", "send", "dlv">>
      OBVIOUS
    <3>2. "server" \notin Worker /\ "server" \in {"manager", "server"}
            /\ {"server"} = {} \cup {"server"}
      BY DEF Worker
    <3>3. BootAt(<<"recv", "manager", "ack", "send", "dlv">>, {}, {"server"})'
      BY <1>1, <2>0, <2>2, <3>1, <3>2, BootMoves
    <3> QED
      BY <2>0, <2>2, <3>3 DEF BootInv
  <2>3. ASSUME Fifo, BootAt(<<"recv", "manager", "ack", "send", "dlv">>, {}, {"server"})
        PROVE  BootInv'
    <3>1. /\ <<"recv", "manager", "ack", "send", "dlv">> # <<>>
          /\ Head(<<"recv", "manager", "ack", "send", "dlv">>) = "recv"
          /\ Tail(<<"recv", "manager", "ack", "send", "dlv">>) = <<"manager", "ack", "send", "dlv">>
      OBVIOUS
    <3>2. "recv" \in Worker /\ "recv" \notin {"manager", "server"} /\ {"recv"} = {} \cup {"recv"}
      BY DEF Worker
    <3>3. BootAt(<<"manager", "ack", "send", "dlv">>, {"recv"}, {"server"})'
      BY <1>1, <2>0, <2>3, <3>1, <3>2, BootMoves
    <3> QED
      BY <2>0, <2>3, <3>3 DEF BootInv
  <2>4. ASSUME Fifo, BootAt(<<"manager", "ack", "send", "dlv">>, {"recv"}, {"server"})
        PROVE  BootInv'
    <3>1. /\ <<"manager", "ack", "send", "dlv">> # <<>>
          /\ Head(<<"manager", "ack", "send", "dlv">>) = "manager"
          /\ Tail(<<"manager", "ack", "send", "dlv">>) = <<"ack", "send", "dlv">>
      OBVIOUS
    <3>2. "manager" \notin Worker /\ "manager" \in {"manager", "server"}
            /\ {"server", "manager"} = {"server"} \cup {"manager"}
      BY DEF Worker
    <3>3. BootAt(<<"ack", "send", "dlv">>, {"recv"}, {"server", "manager"})'
      BY <1>1, <2>0, <2>4, <3>1, <3>2, BootMoves
    <3> QED
      BY <2>0, <2>4, <3>3 DEF BootInv
  <2>5. ASSUME Fifo, BootAt(<<"ack", "send", "dlv">>, {"recv"}, {"server", "manager"})
        PROVE  BootInv'
    <3>1. /\ <<"ack", "send", "dlv">> # <<>> /\ Head(<<"ack", "send", "dlv">>) = "ack"
          /\ Tail(<<"ack", "send", "dlv">>) = <<"send", "dlv">>
      OBVIOUS
    <3>2. "ack" \in Worker /\ "ack" \notin {"manager", "server"}
            /\ {"recv", "ack"} = {"recv"} \cup {"ack"}
      BY DEF Worker
    <3>3. BootAt(<<"send", "dlv">>, {"recv", "ack"}, {"server", "manager"})'
      BY <1>1, <2>0, <2>5, <3>1, <3>2, BootMoves
    <3> QED
      BY <2>0, <2>5, <3>3 DEF BootInv
  <2>6. ASSUME Fifo, BootAt(<<"send", "dlv">>, {"recv", "ack"}, {"server", "manager"})
        PROVE  BootInv'
    <3>1. /\ <<"send", "dlv">> # <<>> /\ Head(<<"send", "dlv">>) = "send"
          /\ Tail(<<"send", "dlv">>) = <<"dlv">>
      OBVIOUS
    <3>2. "send" \in Worker /\ "send" \notin {"manager", "server"}
            /\ {"recv", "ack", "send"} = {"recv", "ack"} \cup {"send"}
      BY DEF Worker
    <3>3. BootAt(<<"dlv">>, {"recv", "ack", "send"}, {"server", "manager"})'
      BY <1>1, <2>0, <2>6, <3>1, <3>2, BootMoves
    <3> QED
      BY <2>0, <2>6, <3>3 DEF BootInv
  <2>7. ASSUME Fifo, BootAt(<<"dlv">>, {"recv", "ack", "send"}, {"server", "manager"})
        PROVE  BootInv'
    <3>1. /\ <<"dlv">> # <<>> /\ Head(<<"dlv">>) = "dlv"
          /\ Tail(<<"dlv">>) = <<>>
      OBVIOUS
    <3>2. "dlv" \in Worker /\ "dlv" \notin {"manager", "server"}
            /\ {"recv", "ack", "send", "dlv"} = {"recv", "ack", "send"} \cup {"dlv"}
      BY DEF Worker
    <3>3. BootAt(<<>>, {"recv", "ack", "send", "dlv"}, {"server", "manager"})'
      BY <1>1, <2>0, <2>7, <3>1, <3>2, BootMoves
    <3> QED
      BY <2>0, <2>7, <3>3 DEF BootInv
  <2>8. ASSUME ~Fifo, BootAt(<<"server", "recv", "attach", "manager", "ack", "send">>, {}, {})
        PROVE  BootInv'
    <3>1. /\ <<"server", "recv", "attach", "manager", "ack", "send">> # <<>>
          /\ Head(<<"server", "recv", "attach", "manager", "ack", "send">>) = "server"
          /\ Tail(<<"server", "recv", "attach", "manager", "ack", "send">>)
               = <<"recv", "attach", "manager", "ack", "send">>
      OBVIOUS
    <3>2. "server" \notin Worker /\ "server" \in {"manager", "server"}
            /\ {"server"} = {} \cup {"server"}
      BY DEF Worker
    <3>3. BootAt(<<"recv", "attach", "manager", "ack", "send">>, {}, {"server"})'
      BY <1>1, <2>0, <2>8, <3>1, <3>2, BootMoves
    <3> QED
      BY <2>0, <2>8, <3>3 DEF BootInv
  <2>9. ASSUME ~Fifo, BootAt(<<"recv", "attach", "manager", "ack", "send">>, {}, {"server"})
        PROVE  BootInv'
    <3>1. /\ <<"recv", "attach", "manager", "ack", "send">> # <<>>
          /\ Head(<<"recv", "attach", "manager", "ack", "send">>) = "recv"
          /\ Tail(<<"recv", "attach", "manager", "ack", "send">>)
               = <<"attach", "manager", "ack", "send">>
      OBVIOUS
    <3>2. "recv" \in Worker /\ "recv" \notin {"manager", "server"} /\ {"recv"} = {} \cup {"recv"}
      BY DEF Worker
    <3>3. BootAt(<<"attach", "manager", "ack", "send">>, {"recv"}, {"server"})'
      BY <1>1, <2>0, <2>9, <3>1, <3>2, BootMoves
    <3> QED
      BY <2>0, <2>9, <3>3 DEF BootInv
  <2>10. ASSUME ~Fifo, BootAt(<<"attach", "manager", "ack", "send">>, {"recv"}, {"server"})
         PROVE  BootInv'
    <3>1. /\ <<"attach", "manager", "ack", "send">> # <<>>
          /\ Head(<<"attach", "manager", "ack", "send">>) = "attach"
          /\ Tail(<<"attach", "manager", "ack", "send">>) = <<"manager", "ack", "send">>
      OBVIOUS
    <3>2. "attach" \notin Worker /\ "attach" \notin {"manager", "server"}
      BY DEF Worker
    <3>3. BootAt(<<"manager", "ack", "send">>, {"recv"}, {"server"})'
      BY <1>1, <2>0, <2>10, <3>1, <3>2, BootMoves
    <3> QED
      BY <2>0, <2>10, <3>3 DEF BootInv
  <2>11. ASSUME ~Fifo, BootAt(<<"manager", "ack", "send">>, {"recv"}, {"server"}) PROVE BootInv'
    <3>1. /\ <<"manager", "ack", "send">> # <<>> /\ Head(<<"manager", "ack", "send">>) = "manager"
          /\ Tail(<<"manager", "ack", "send">>) = <<"ack", "send">>
      OBVIOUS
    <3>2. "manager" \notin Worker /\ "manager" \in {"manager", "server"}
            /\ {"server", "manager"} = {"server"} \cup {"manager"}
      BY DEF Worker
    <3>3. BootAt(<<"ack", "send">>, {"recv"}, {"server", "manager"})'
      BY <1>1, <2>0, <2>11, <3>1, <3>2, BootMoves
    <3> QED
      BY <2>0, <2>11, <3>3 DEF BootInv
  <2>12. ASSUME ~Fifo, BootAt(<<"ack", "send">>, {"recv"}, {"server", "manager"}) PROVE BootInv'
    <3>1. /\ <<"ack", "send">> # <<>> /\ Head(<<"ack", "send">>) = "ack"
          /\ Tail(<<"ack", "send">>) = <<"send">>
      OBVIOUS
    <3>2. "ack" \in Worker /\ "ack" \notin {"manager", "server"}
            /\ {"recv", "ack"} = {"recv"} \cup {"ack"}
      BY DEF Worker
    <3>3. BootAt(<<"send">>, {"recv", "ack"}, {"server", "manager"})'
      BY <1>1, <2>0, <2>12, <3>1, <3>2, BootMoves
    <3> QED
      BY <2>0, <2>12, <3>3 DEF BootInv
  <2>13. ASSUME ~Fifo, BootAt(<<"send">>, {"recv", "ack"}, {"server", "manager"}) PROVE BootInv'
    <3>1. /\ <<"send">> # <<>> /\ Head(<<"send">>) = "send"
          /\ Tail(<<"send">>) = <<>>
      OBVIOUS
    <3>2. "send" \in Worker /\ "send" \notin {"manager", "server"}
            /\ {"recv", "ack", "send"} = {"recv", "ack"} \cup {"send"}
      BY DEF Worker
    <3>3. BootAt(<<>>, {"recv", "ack", "send"}, {"server", "manager"})'
      BY <1>1, <2>0, <2>13, <3>1, <3>2, BootMoves
    <3> QED
      BY <2>0, <2>13, <3>3 DEF BootInv
  <2>14. ASSUME boot = <<>> PROVE BootInv'
    <3>1. UNCHANGED <<boot, loc, on>>
      BY <1>1, <2>14 DEF DriverStep, Attach, TurnOn, CreateThread, BootNext, Send
    <3>2. ~Passed("recv")' /\ ~Passed("recv") /\ \A h : ~At(h) /\ ~At(h)'
      BY <2>0 DEF Passed, Beyond, At
    <3> QED
      BY <2>0, <3>1, <3>2, BootStays
  <2>15. CASE Fifo
    BY <2>0, <2>1, <2>2, <2>3, <2>4, <2>5, <2>6, <2>7, <2>14, <2>15 DEF BootInv, BootAt
  <2>16. CASE ~Fifo
    BY <2>0, <2>8, <2>9, <2>10, <2>11, <2>12, <2>13, <2>14, <2>16 DEF BootInv, BootAt
  <2> QED
    BY <2>15, <2>16
<1>2. ASSUME NEW t \in Thread, PlanStep(t) PROVE BootInv'
  <2>1. UNCHANGED <<role, boot, loc, on, handler, status>> /\ status = "running"
    BY <1>2, Frame DEF PlanStep
  <2>2. (\A h : At(h)' <=> At(h)) /\ (Passed("recv")' <=> Passed("recv"))
    BY <2>1 DEF At, Passed, Beyond
  <2> QED
    BY <2>1, <2>2, BootStays
<1>3. ASSUME NEW w \in Worker, LoopStep(w) PROVE BootInv'
  <2>1. UNCHANGED <<role, boot, on, handler, status>> /\ status = "running"
    BY <1>3, Frame DEF LoopStep
  <2>2. (\A h : At(h)' <=> At(h)) /\ (Passed("recv")' <=> Passed("recv"))
    BY <2>1 DEF At, Passed, Beyond
  <2>3. /\ \A v \in Worker : v # w => loc'[v] = loc[v]
        /\ loc[w] # "none" /\ loc'[w] # "none"
    BY <1>3 DEF LoopStep, LoopTest, ReceiveNothing, ReceivePacket, DeliverNext, PassEnd, TypeOK
  <2> QED
    BY <2>1, <2>2, <2>3, BootStays
<1>4. CASE Signal
  <2>1. CASE signals # 0
    BY <1>4, <2>1 DEF Signal, Gone, BootInv
  <2>2. CASE signals = 0
    <3>1. /\ UNCHANGED <<role, boot, loc, on, status>> /\ handler = <<>>
          /\ handler' = From("manager")
          /\ status = "running"
      BY <1>4, <2>2, Path DEF Signal, HandlerInv
    <3>2. At("manager")' /\ (\A h : At(h)' => h = "manager")
      BY <3>1, Arrives DEF HandlerSteps
    <3>3. ~Passed("recv") /\ ~At("recv") /\ ~Passed("recv")' /\ ~At("recv")'
      BY <3>1, <3>2 DEF Passed, Beyond, At
    <3> QED
      BY <3>1, <3>3, BootStays
  <2> QED
    BY <2>1, <2>2
<1>5. CASE HandlerStep
  <2>1. HandlerDoes /\ role' = role /\ boot' = boot
    BY <1>5, HandlerTakes, Frame
  <2>2. CASE status' # "running"
    BY <2>2 DEF BootInv
  <2>3. ASSUME NEW h \in HandlerSteps, NEW k \in HandlerSteps, Moves(h, k)
        PROVE  /\ handler' # <<>> /\ \A g : At(g)' <=> g = k
               /\ \A g : At(g) <=> g = h
               /\ status = "running"
    BY <2>3, Path DEF Moves, At
  <2>4. CASE Moves("manager", IF on.manager THEN "ack" ELSE "server")
    <3>1. loc' = loc /\ on' = [on EXCEPT !.manager = FALSE]
      BY <2>1, <2>3, <2>4 DEF HandlerDoes, Moves, Gone, Worker, HandlerSteps, AfterJoin
    <3>2. on'.server = on.server
      BY <3>1 DEF TypeOK
    <3>3. \A g : At(g)' => g \in {"ack", "server"}
      BY <2>3, <2>4 DEF HandlerSteps
    <3>4. handler' # <<>> /\ (\A g : At(g) <=> g = "manager") /\ status = "running"
      BY <2>3, <2>4 DEF HandlerSteps
    <3>5. ~Passed("recv") /\ ~At("recv")
      BY <3>4 DEF Passed, Beyond
    <3>6. ~At("manager")'
      BY <3>3
    <3> QED
      BY <2>1, <3>1, <3>2, <3>4, <3>5, <3>6, BootStays
  <2>5. CASE Moves("server", IF on.server THEN "recv" ELSE "flush")
    <3>1. loc' = loc
      BY <2>1, <2>3, <2>5 DEF HandlerDoes, Moves, Gone
    <3>2. (At("recv")' \/ At("flush")') /\ handler' # <<>> /\ ~At("manager")' /\ status = "running"
      BY <2>3, <2>5 DEF HandlerSteps
    <3>3. At("flush")' => Passed("recv")'
      BY DEF Passed, Beyond
    <3> QED
      BY <2>1, <3>1, <3>2, <3>3, BootStays
  <2>6. ASSUME NEW w \in Worker, Moves(w, AfterJoin(w)), UNCHANGED <<loc, on>> PROVE BootInv'
    <3>1. /\ w \in HandlerSteps /\ AfterJoin(w) \in {"send", "dlv", "server", "flush"}
          /\ AfterJoin(w) \in HandlerSteps /\ AfterJoin(w) # "manager"
      BY DEF Worker, HandlerSteps, AfterJoin
    <3>2. handler' # <<>> /\ ~At("manager")' /\ status = "running" /\ (w = "recv" => At("flush")')
          /\ (\A g : At(g) <=> g = w)
      <4>0. PICK k : k = AfterJoin(w)
        OBVIOUS
      <4>1. k \in HandlerSteps /\ k # "manager" /\ Moves(w, k) /\ w \in HandlerSteps
        BY <2>6, <3>1, <4>0
      <4>2. /\ handler' # <<>> /\ \A g : At(g)' <=> g = k
            /\ \A g : At(g) <=> g = w
            /\ status = "running"
        BY <2>3, <4>1
      <4>3. At(k)' /\ ~At("manager")'
        BY <4>1, <4>2
      <4> QED
        BY <4>0, <4>2, <4>3 DEF AfterJoin
    <3>3. CASE w = "recv"
      <4>1. Passed("recv")'
        BY <3>2, <3>3 DEF Passed, Beyond
      <4> QED
        BY <2>1, <2>6, <3>2, <4>1, BootStays
    <3>4. CASE w # "recv"
      <4>1. ~Passed("recv") /\ ~At("recv")
        BY <3>2, <3>4 DEF Passed, Beyond, Worker
      <4> QED
        BY <2>1, <2>6, <3>2, <4>1, BootStays
    <3> QED
      BY <3>3, <3>4
  <2>7. ASSUME Moves("flush", "exit"), UNCHANGED <<loc, on>> PROVE BootInv'
    <3>1. handler' # <<>> /\ ~At("manager")' /\ At("exit")' /\ status = "running"
      BY <2>3, <2>7 DEF HandlerSteps
    <3>2. Passed("recv")'
      BY <3>1 DEF Passed, Beyond
    <3> QED
      BY <2>1, <2>7, <3>1, <3>2, BootStays
  <2> QED
    BY <2>1, <2>2, <2>4, <2>5, <2>6, <2>7 DEF HandlerDoes, Gone
<1>6. CASE UNCHANGED vars
  <2>1. CASE status = "running"
    <3>1. (\A h : At(h)' <=> At(h)) /\ (Passed("recv")' <=> Passed("recv"))
      BY <1>6 DEF At, Passed, Beyond, vars
    <3> QED
      BY <1>6, <2>1, <3>1, BootStays DEF vars
  <2>2. CASE status # "running"
    BY <1>6, <2>2 DEF vars, BootInv
  <2> QED
    BY <2>1, <2>2
<1> QED
  BY <1>1, <1>2, <1>3, <1>4, <1>5, <1>6, Steps
-----------------------------------------------------------------------------
(***************************************************************************)
(* The log.                                                                *)
(***************************************************************************)
\* A step leaves the logging to the threads that log.
LEMMA LogKept == TypeOK /\ HandlerInv /\ BootInv /\ LogInv /\ WorkerInv /\ [Next]_vars => LogInv'
<1> SUFFICES ASSUME TypeOK, HandlerInv, BootInv, LogInv, WorkerInv, [Next]_vars PROVE LogInv'
  OBVIOUS
<1>1. ASSUME role' = role PROVE \A t : Logs(t)' <=> Logs(t)
  BY <1>1 DEF Logs, Fifo
<1>2. CASE UNCHANGED <<role, sends, plan, writing, mangled>>
  BY <1>1, <1>2 DEF LogInv, Fifo
<1>3. CASE DriverStep
  <2>1. UNCHANGED <<role, writing, mangled>> /\ (Fifo' <=> Fifo)
    BY <1>3, Frame DEF Fifo
  <2>2. CASE Send
    <3>1. sends > 0 /\ \A t \in Thread : t # "main" => plan'[t] = plan[t]
      BY <2>2 DEF Send, TypeOK
    <3>2. role # "target"
      BY <3>1 DEF LogInv
    <3>3. Logs("main")
      BY <3>2 DEF Logs, Fifo, TypeOK
    <3> QED
      BY <1>1, <2>1, <3>1, <3>2, <3>3 DEF LogInv
  <2>3. CASE ~Send
    <3>1. sends' = sends
      BY <1>3, <2>3 DEF DriverStep, Attach, TurnOn, CreateThread, BootNext
    <3>2. plan' = plan \/ plan' = [plan EXCEPT !["main"] = <<"O">>]
      BY <1>3, <2>3 DEF DriverStep, Attach, TurnOn, CreateThread, BootNext
    <3>3. \A t \in Thread : plan'[t] = plan[t] \/ plan'[t] = <<"O">>
      BY <3>2 DEF TypeOK
    <3>4. <<"O">> \in Seq(Mutex)
      BY DEF Mutex
    <3> QED
      BY <1>1, <2>1, <3>1, <3>3, <3>4 DEF LogInv
  <2> QED
    BY <2>2, <2>3
<1>4. ASSUME NEW t \in Thread, PlanStep(t) PROVE LogInv'
  <2>1. UNCHANGED <<role, sends>> /\ (Fifo' <=> Fifo)
    BY <1>4, Frame DEF Fifo
  <2>2. plan[t] # <<>> /\ plan[t] \in Seq(Mutex) => Head(plan[t]) \in Mutex
          /\ Tail(plan[t]) \in Seq(Mutex)
    OBVIOUS
  <2>3. plan' = plan \/ plan' = [plan EXCEPT ![t] = Tail(plan[t])]
    BY <1>4 DEF PlanStep, Lock, Unlock, WriteText, WriteEnd
  <2>4. plan[t] # <<>>
    BY <1>4 DEF PlanStep, Lock, Unlock, WriteText, WriteEnd, DoesNext
  <2>5. \A u \in Thread : plan'[u] = plan[u] \/ (u = t /\ plan'[u] = Tail(plan[t]))
    BY <2>3 DEF TypeOK
  <2>6. \A u \in Thread : plan'[u] \in Seq(Mutex) \/ Logs(u)
    BY <2>2, <2>4, <2>5 DEF LogInv
  <2>7. ASSUME NEW u \in writing', u \notin writing PROVE Logs(u)
    <3>1. WriteText(t) /\ u = t
      BY <1>4, <2>7 DEF PlanStep, Lock, Unlock, WriteText, WriteEnd, logVars
    <3>2. Head(plan[t]) = "log"
      BY <3>1 DEF WriteText, DoesNext
    <3>3. plan[t] \notin Seq(Mutex)
      BY <2>2, <2>4, <3>2 DEF Mutex
    <3> QED
      BY <3>1, <3>3 DEF LogInv
  <2>8. mangled' => Fifo
    <3>1. CASE WriteText(t)
      <4>1. t \in writing' /\ t \notin writing /\ (mangled' => mangled \/ writing # {})
        BY <3>1 DEF WriteText, TypeOK
      <4>2. Logs(t)
        BY <2>7, <4>1
      <4>3. ASSUME ~Fifo PROVE writing = {}
        BY <4>1, <4>2, <4>3 DEF LogInv, Logs
      <4> QED
        BY <4>1, <4>3 DEF LogInv
    <3>2. CASE ~WriteText(t)
      <4>1. mangled' = mangled
        BY <1>4, <3>2 DEF PlanStep, Lock, Unlock, WriteEnd, logVars
      <4> QED
        BY <4>1 DEF LogInv
    <3> QED
      BY <3>1, <3>2
  <2> QED
    BY <1>1, <2>1, <2>6, <2>7, <2>8 DEF LogInv
<1>5. ASSUME NEW w \in Worker, LoopStep(w) PROVE LogInv'
  <2>1. UNCHANGED <<role, sends, writing, mangled>> /\ status = "running" /\ (Fifo' <=> Fifo)
    BY <1>5, Frame DEF LoopStep, Fifo
  <2>2. \/ plan' = plan
        \/ \E p \in PassPlans(w) : plan' = [plan EXCEPT ![w] = p]
        \/ w = "dlv" /\ \E p \in DeliverPlans : plan' = [plan EXCEPT ![w] = p]
    BY <1>5 DEF LoopStep, LoopTest, ReceiveNothing, ReceivePacket, DeliverNext, PassEnd
  <2>3. loc[w] # "none"
    BY <1>5 DEF LoopStep, LoopTest, ReceiveNothing, ReceivePacket, DeliverNext, PassEnd
  <2>4. Logs(w) \/ (w # "dlv" /\ PassPlans(w) \subseteq Seq(Mutex))
    <3>1. CASE w = "dlv"
      BY <2>1, <2>3, <3>1, BootTells DEF Logs
    <3>2. CASE w = "recv"
      BY <3>2, PlanTypes DEF Logs, TypeOK, Fifo
    <3>3. CASE w = "ack" \/ w = "send"
      BY <3>3, PlanTypes
    <3> QED
      BY <3>1, <3>2, <3>3 DEF Worker
  <2>5. \A u \in Thread : \/ plan'[u] = plan[u]
                          \/ u = w /\ (plan'[u] \in PassPlans(w) \/ w = "dlv")
    BY <2>2 DEF TypeOK
  <2>6. \A u \in Thread : plan'[u] \in Seq(Mutex) \/ Logs(u)
    BY <2>4, <2>5 DEF LogInv
  <2> QED
    BY <1>1, <2>1, <2>6 DEF LogInv
<1>6. ASSUME UNCHANGED <<role, sends, writing, mangled>>, \A t \in Thread : plan'[t] = <<>> PROVE LogInv'
  <2>1. <<>> \in Seq(Mutex)
    OBVIOUS
  <2> QED
    BY <1>1, <1>6, <2>1 DEF LogInv, Fifo
<1>7. CASE Signal
  BY <1>2, <1>6, <1>7, Frame DEF Signal, Gone
<1>8. CASE HandlerStep
  <2>1. HandlerDoes /\ UNCHANGED <<role, sends, mangled>>
    BY <1>8, HandlerTakes, Frame
  <2>2. writing' = writing
    BY <2>1 DEF HandlerDoes
  <2>3. plan' = plan \/ plan' = [t \in Thread |-> <<>>]
    BY <2>1 DEF HandlerDoes, Gone
  <2> QED
    BY <1>2, <1>6, <2>1, <2>2, <2>3
<1> QED
  BY <1>2, <1>3, <1>4, <1>5, <1>7, <1>8, Steps DEF vars, logVars
-----------------------------------------------------------------------------
(***************************************************************************)
(* The workers and the joins.                                              *)
(***************************************************************************)
\* Which workers the handler has joined before and after one of its steps.
LEMMA PassedWhen ==
  ASSUME NEW h \in HandlerSteps, NEW k \in HandlerSteps, Moves(h, k)
  PROVE  /\ \A w : Passed(w) <=> h \in Beyond(w)
         /\ \A w : Passed(w)' <=> k \in Beyond(w)
<1>1. \A g : At(g) <=> g = h
  BY Path DEF Moves, At
<1>2. \A g : At(g)' <=> g = k
  BY Path DEF Moves, At
<1> QED
  BY <1>1, <1>2 DEF Passed

\* A step keeps the workers and the handler in step.
LEMMA WorkerKept == TypeOK /\ HandlerInv /\ BootInv /\ WorkerInv /\ [Next]_vars => WorkerInv'
<1> SUFFICES ASSUME TypeOK, HandlerInv, BootInv, WorkerInv, [Next]_vars, status' = "running"
             PROVE  WorkerInv'
  BY DEF WorkerInv
<1>1. ASSUME handler' = handler
      PROVE  (\A w : Passed(w)' <=> Passed(w)) /\ (At("exit")' <=> At("exit"))
  BY <1>1 DEF Passed, Beyond, At
<1>2. CASE DriverStep
  <2>1. UNCHANGED <<handler, writing, buffered, status>> /\ status = "running" /\ handler = <<>>
    BY <1>2, Frame DEF DriverStep, HandlerInv
  <2>2. ~At("exit") /\ \A w \in Worker : ~Passed(w)
    BY <2>1 DEF At, Passed, Beyond, Worker
  <2>3. /\ plan["main"] = <<>> => "main" \notin writing
        /\ "main" \notin Worker /\ Worker \subseteq Thread
    BY <2>1 DEF WorkerInv, DoesNext, Worker, Thread
  <2>4. plan["main"] = <<>> /\ \A t \in Thread : t # "main" => plan'[t] = plan[t]
    BY <1>2 DEF DriverStep, Attach, TurnOn, CreateThread, BootNext, Send, TypeOK
  <2>5. \A t \in writing : plan'[t] = plan[t]
    BY <2>3, <2>4 DEF TypeOK
  <2>6. \A w \in Worker : \/ loc'[w] = loc[w] /\ w \in joinable => w \in joinable'
                          \/ w \in joinable'
    BY <1>2 DEF DriverStep, Attach, TurnOn, CreateThread, BootNext, Send, TypeOK
  <2>7. \A w \in Worker : loc'[w] # "none" => loc[w] # "none" \/ w \in joinable'
    BY <1>2 DEF DriverStep, Attach, TurnOn, CreateThread, BootNext, Send, TypeOK
  <2>8. joinable \subseteq joinable'
    BY <1>2 DEF DriverStep, Attach, TurnOn, CreateThread, BootNext, Send
  <2>9. \A w \in Worker : loc'[w] = loc[w] \/ (loc[w] = "none" /\ loc'[w] = "top")
    <3>1. ASSUME NEW w \in Worker, CreateThread(w) PROVE loc[w] = "none"
      BY <2>1, <3>1, BootHead DEF CreateThread, BootNext
    <3>2. CASE \E w \in Worker : CreateThread(w)
      BY <3>1, <3>2 DEF CreateThread, TypeOK
    <3>3. CASE ~\E w \in Worker : CreateThread(w)
      BY <1>2, <3>3 DEF DriverStep, Attach, TurnOn, Send
    <3> QED
      BY <3>2, <3>3
  <2>10. \A w \in Worker : loc'[w] # "pass" => plan'[w] = <<>>
    BY <2>1, <2>3, <2>4, <2>9 DEF WorkerInv
  <2>11. \A t \in writing' : DoesNext(t, {"log"})'
    BY <2>1, <2>5 DEF WorkerInv, DoesNext
  <2> QED
    BY <1>1, <2>1, <2>2, <2>7, <2>8, <2>10, <2>11 DEF WorkerInv
<1>3. ASSUME NEW t \in Thread, PlanStep(t) PROVE WorkerInv'
  <2>1. UNCHANGED <<loc, joinable, handler, status, signals>> /\ status = "running"
    BY <1>3, Frame DEF PlanStep
  <2>2. plan[t] # <<>> /\ \A u \in Thread : u # t => plan'[u] = plan[u]
    BY <1>3 DEF PlanStep, Lock, Unlock, WriteText, WriteEnd, DoesNext, TypeOK
  <2>3. Worker \subseteq Thread
    BY DEF Thread
  <2>4. \A w \in Worker : loc'[w] # "pass" => plan'[w] = <<>>
    BY <2>1, <2>2, <2>3 DEF WorkerInv
  <2>5. \A u \in writing' : DoesNext(u, {"log"})'
    <3>1. \A u \in writing : u \in Thread /\ plan[u] # <<>> /\ Head(plan[u]) = "log"
      BY <2>1 DEF WorkerInv, DoesNext, TypeOK
    <3>2. CASE Lock(t)
      BY <3>1, <3>2 DEF Lock, DoesNext, logVars
    <3>3. CASE Unlock(t)
      <4>1. t \notin writing
        BY <3>1, <3>3 DEF Unlock, DoesNext, Mutex
      <4> QED
        BY <2>2, <3>1, <3>3, <4>1 DEF Unlock, DoesNext, logVars
    <3>4. CASE WriteText(t)
      BY <3>1, <3>4 DEF WriteText, DoesNext
    <3>5. CASE WriteEnd(t)
      BY <2>2, <3>1, <3>5 DEF WriteEnd, DoesNext
    <3> QED
      BY <1>3, <3>2, <3>3, <3>4, <3>5 DEF PlanStep
  <2>6. At("exit") => buffered' = buffered
    <3> SUFFICES ASSUME At("exit") PROVE buffered' = buffered
      OBVIOUS
    <3>1. signals # 0
      BY <2>1 DEF HandlerInv, At
    <3>2. t \in Worker
      BY <1>3, <3>1 DEF PlanStep, Thread
    <3>3. Passed(t)
      BY <3>2 DEF Passed, Beyond, Worker
    <3>4. plan[t] = <<>>
      BY <2>1, <3>2, <3>3 DEF WorkerInv
    <3> QED
      BY <2>2, <3>4
  <2> QED
    BY <1>1, <2>1, <2>4, <2>5, <2>6 DEF WorkerInv
<1>4. ASSUME NEW w \in Worker, LoopStep(w) PROVE WorkerInv'
  <2>1. UNCHANGED <<on, joinable, handler, writing, buffered, status>> /\ status = "running"
    BY <1>4, Frame DEF LoopStep
  <2>2. /\ w \in Thread /\ Worker \subseteq Thread
        /\ \A v \in Worker : v # w => loc'[v] = loc[v]
        /\ \A t \in Thread : t # w => plan'[t] = plan[t]
    BY <1>4 DEF LoopStep, LoopTest, ReceiveNothing, ReceivePacket, DeliverNext, PassEnd, TypeOK, Thread
  <2>3. loc[w] \notin {"none", "done"} /\ loc'[w] # "none"
    BY <1>4 DEF LoopStep, LoopTest, ReceiveNothing, ReceivePacket, DeliverNext, PassEnd, TypeOK
  <2>4. plan[w] = <<>>
    BY <1>4, <2>1 DEF LoopStep, LoopTest, ReceiveNothing, ReceivePacket, DeliverNext, PassEnd, WorkerInv
  <2>5. loc'[w] = "pass" \/ plan'[w] = <<>>
    BY <1>4, <2>4 DEF LoopStep, LoopTest, ReceiveNothing, ReceivePacket, DeliverNext, PassEnd, TypeOK
  <2>6. \A t \in writing : t # w /\ DoesNext(t, {"log"})
    BY <2>1, <2>4 DEF WorkerInv, DoesNext
  <2>7. \A t \in writing' : DoesNext(t, {"log"})'
    BY <2>1, <2>2, <2>6 DEF DoesNext, TypeOK
  <2>8. ~Passed(w)
    BY <2>1, <2>3 DEF WorkerInv
  <2>9. \A v \in Worker : loc'[v] # "pass" => plan'[v] = <<>>
    BY <2>1, <2>2, <2>5 DEF WorkerInv
  <2>10. \A v \in Worker : Passed(v)' => loc'[v] \in {"none", "done"}
    BY <1>1, <2>1, <2>2, <2>8 DEF WorkerInv
  <2>11. \A v \in Worker : loc'[v] # "none" /\ ~Passed(v)' => v \in joinable'
    BY <1>1, <2>1, <2>2, <2>3 DEF WorkerInv
  <2> QED
    BY <1>1, <2>1, <2>7, <2>9, <2>10, <2>11 DEF WorkerInv
<1>5. CASE Signal
  <2>1. CASE signals = 0
    <3>1. UNCHANGED <<loc, plan, joinable, writing, status>> /\ handler = <<>>
            /\ handler' = From("manager")
          /\ status = "running"
      BY <1>5, <2>1, Path DEF Signal, HandlerInv, logVars
    <3>2. \A h : At(h)' => h = "manager"
      BY <3>1, Arrives DEF HandlerSteps
    <3>3. ~At("exit")' /\ \A w \in Worker : ~Passed(w) /\ ~Passed(w)'
      BY <3>1, <3>2 DEF Passed, Beyond, At, Worker
    <3>4. \A t \in writing' : DoesNext(t, {"log"})'
      BY <3>1 DEF WorkerInv, DoesNext
    <3> QED
      BY <3>1, <3>3, <3>4 DEF WorkerInv
  <2>2. CASE signals # 0
    BY <1>5, <2>2 DEF Signal, Gone
  <2> QED
    BY <2>1, <2>2
<1>6. CASE HandlerStep
  <2>1. HandlerDoes /\ role' = role
    BY <1>6, HandlerTakes, Frame
  <2>2. ASSUME NEW h \in HandlerSteps, NEW k \in HandlerSteps, Moves(h, k),
               UNCHANGED <<loc, plan, writing>>,
               \A w \in Worker : Passed(w)' => Passed(w) \/ loc[w] \in {"none", "done"},
               \A w \in Worker : ~Passed(w)' => ~Passed(w) /\ (w \in joinable => w \in joinable'),
               k = "exit" => ~buffered'
        PROVE  WorkerInv'
    <3>1. status = "running" /\ (At("exit")' => k = "exit")
      BY <2>2, Arrives DEF Moves
    <3>2. \A t \in writing' : DoesNext(t, {"log"})'
      BY <2>2, <3>1 DEF WorkerInv, DoesNext
    <3> QED
      BY <2>2, <3>1, <3>2 DEF WorkerInv
  <2>3. ASSUME Moves("manager", IF on.manager THEN "ack" ELSE "server"),
               UNCHANGED <<loc, plan, joinable, writing>>
        PROVE  WorkerInv'
    <3>1. PICK k \in {"ack", "server"} : k = IF on.manager THEN "ack" ELSE "server"
      OBVIOUS
    <3>2. "manager" \in HandlerSteps /\ k \in HandlerSteps /\ Moves("manager", k)
      BY <2>3, <3>1 DEF HandlerSteps
    <3>3. /\ \A w \in Worker : ~Passed(w) /\ (Passed(w)' => k = "server" /\ w # "recv")
      BY <3>2, PassedWhen DEF Worker, Beyond
    <3>4. k = "server" => \A w \in {"ack", "send", "dlv"} : loc[w] = "none"
      BY <3>1, <3>2, BootTells DEF Moves
    <3>5. \A w \in Worker : w # "recv" => w \in {"ack", "send", "dlv"}
      BY DEF Worker
    <3> QED
      BY <2>2, <2>3, <3>1, <3>2, <3>3, <3>4, <3>5
  <2>4. ASSUME Moves("server", IF on.server THEN "recv" ELSE "flush"),
               UNCHANGED <<loc, plan, joinable, writing>>
        PROVE  WorkerInv'
    <3>1. PICK k \in {"recv", "flush"} : k = IF on.server THEN "recv" ELSE "flush"
      OBVIOUS
    <3>2. "server" \in HandlerSteps /\ k \in HandlerSteps /\ Moves("server", k) /\ "recv" \in Worker
      BY <2>4, <3>1 DEF HandlerSteps, Worker
    <3>3. /\ \A w \in Worker : Passed(w) <=> w # "recv"
          /\ \A w \in Worker : Passed(w)' <=> (w # "recv" \/ k = "flush")
      BY <3>2, PassedWhen DEF Worker, Beyond
    <3>4. ~At("recv") /\ status = "running"
      BY <3>2 DEF Moves, At
    <3>5. k = "flush" => loc["recv"] = "none"
      BY <3>1, <3>2, <3>3, <3>4, BootTells
    <3> QED
      BY <2>2, <2>4, <3>1, <3>2, <3>3, <3>5
  <2>5. ASSUME NEW w \in Worker, Moves(w, AfterJoin(w)), loc[w] = "done", joinable' = joinable \ {w},
               UNCHANGED <<loc, plan, writing>>
        PROVE  WorkerInv'
    <3>1. PICK k \in HandlerSteps : k = AfterJoin(w)
      BY DEF AfterJoin, Worker, HandlerSteps
    <3>2. w \in HandlerSteps /\ Moves(w, k) /\ k # "exit" /\ status = "running"
      BY <2>5, <3>1 DEF HandlerSteps, Worker, AfterJoin, Moves
    <3>3. /\ w = "ack" => k = "send"
          /\ w = "send" => k = IF Fifo THEN "dlv" ELSE "server"
          /\ w = "dlv" => k = "server"
          /\ w = "recv" => k = "flush"
      BY <3>1 DEF AfterJoin
    <3>4. Passed(w)' /\ \A v \in Worker : Passed(v)' => Passed(v) \/ v = w \/ (v = "dlv" /\ ~Fifo)
      BY <3>2, <3>3, PassedWhen DEF Worker, Beyond
    <3>5. \A v \in Worker : Passed(v) => Passed(v)'
      BY <3>2, <3>3, PassedWhen DEF Worker, Beyond
    <3>6. ~Fifo => loc["dlv"] = "none"
      BY <3>2, BootTells
    <3> QED
      BY <2>2, <2>5, <3>1, <3>2, <3>4, <3>5, <3>6
  <2>6. ASSUME Moves("flush", "exit"), ~buffered', UNCHANGED <<loc, plan, joinable, writing>>
        PROVE  WorkerInv'
    <3>1. "flush" \in HandlerSteps /\ "exit" \in HandlerSteps
      BY DEF HandlerSteps
    <3>2. \A w \in Worker : Passed(w) /\ Passed(w)'
      BY <2>6, <3>1, PassedWhen DEF Worker, Beyond
    <3> QED
      BY <2>2, <2>6, <3>1, <3>2
  <2> QED
    BY <2>1, <2>3, <2>4, <2>5, <2>6 DEF HandlerDoes, Gone
<1>7. CASE UNCHANGED vars
  <2>1. \A t : DoesNext(t, {"log"})' <=> DoesNext(t, {"log"})
    BY <1>7 DEF DoesNext, vars
  <2> QED
    BY <1>1, <1>7, <2>1 DEF vars, logVars, WorkerInv
<1> QED
  BY <1>2, <1>3, <1>4, <1>5, <1>6, <1>7, Steps
-----------------------------------------------------------------------------
(***************************************************************************)
(* The end.                                                                *)
(***************************************************************************)
\* A step leaves behind what it should.
LEMMA EndKept == TypeOK /\ HandlerInv /\ BootInv /\ WorkerInv /\ EndInv /\ [Next]_vars => EndInv'
<1> SUFFICES ASSUME TypeOK, HandlerInv, BootInv, WorkerInv, EndInv, [Next]_vars PROVE EndInv'
  OBVIOUS
<1>1. CASE status = "running" /\ status' = "running"
  BY <1>1 DEF EndInv
<1>2. CASE DriverStep
  BY <1>1, <1>2, Frame DEF DriverStep
<1>3. ASSUME NEW t \in Thread, PlanStep(t) PROVE EndInv'
  BY <1>1, <1>3, Frame DEF PlanStep
<1>4. ASSUME NEW w \in Worker, LoopStep(w) PROVE EndInv'
  BY <1>1, <1>4, Frame DEF LoopStep
<1>5. CASE Signal
  BY <1>1, <1>5 DEF Signal, Gone, EndInv
<1>6. CASE HandlerStep
  <2>1. HandlerDoes /\ boot' = boot
    BY <1>6, HandlerTakes, Frame
  <2>2. ASSUME NEW w \in Worker, status = "running", At(w), handler = From(w), w \notin joinable,
               w = "dlv" => Fifo
        PROVE  boot # <<>>
    <3>1. w \in HandlerSteps
      BY DEF Worker, HandlerSteps
    <3>2. \A h : At(h) <=> h = w
      BY <2>2 DEF At
    <3>3. ~Passed(w)
      BY <3>2 DEF Passed, Beyond, Worker
    <3>4. loc[w] = "none"
      BY <2>2, <3>3 DEF WorkerInv
    <3> QED
      BY <2>2, <3>4, BootTells
  <2>3. ASSUME status = "running", At("exit") PROVE ~buffered /\ writing \subseteq {"main"}
    <3>1. \A w \in Worker : Passed(w)
      BY <2>3 DEF Passed, Beyond, Worker
    <3>2. \A w \in Worker : plan[w] = <<>>
      BY <2>3, <3>1 DEF WorkerInv
    <3>3. \A w \in Worker : w \notin writing
      BY <2>3, <3>2 DEF WorkerInv, DoesNext
    <3> QED
      BY <2>3, <3>3 DEF WorkerInv, TypeOK, Thread
  <2>4. CASE Gone("aborted")
    BY <2>1, <2>2, <2>4 DEF HandlerDoes, Gone, Moves, EndInv
  <2>5. CASE Gone("exited")
    BY <2>1, <2>3, <2>5 DEF HandlerDoes, Gone, Moves, EndInv
  <2> QED
    BY <1>1, <2>1, <2>4, <2>5 DEF HandlerDoes, Moves
<1>7. CASE UNCHANGED vars
  BY <1>7 DEF vars, logVars, EndInv
<1> QED
  BY <1>2, <1>3, <1>4, <1>5, <1>6, <1>7, Steps

\* The invariant holds in every state that the process reaches.
THEOREM ShutdownCorrect == Spec => []ShutdownInv
<1>1. ShutdownInv /\ [Next]_vars => ShutdownInv'
  BY TypeKept, HandlerKept, BootKept, LogKept, WorkerKept, EndKept DEF ShutdownInv
<1> QED
  BY <1>1, ShutdownInit, PTL DEF Spec

\* The state has its type, with any number of messages and signals.
THEOREM TypesHold == Spec => []TypeOK
BY ShutdownCorrect, PTL DEF ShutdownInv

\* What the threads have put in the logger's stream is in the file when
\* stop_execution calls std::_Exit, and no joined thread is cut off in a line: the
\* flush comes after the last thread that logs was joined.
THEOREM OutputCompleteHolds == Spec => []OutputComplete
<1>1. ShutdownInv => OutputComplete
  BY DEF ShutdownInv, EndInv, OutputComplete
<1> QED
  BY <1>1, ShutdownCorrect, PTL

\* A join of a thread that does not exist aborts the process only when the
\* signal came before the driver had created all threads.
THEOREM AbortOnlyInStartupHolds == Spec => []AbortOnlyInStartup
<1>1. ShutdownInv => AbortOnlyInStartup
  BY DEF ShutdownInv, EndInv, AbortOnlyInStartup
<1> QED
  BY <1>1, ShutdownCorrect, PTL

\* In the perfect links mode no two threads are ever in operator<< of the logger
\* at once, and so no byte of a line is lost: LogInv says who logs.
THEOREM OneLoggerHolds == Spec => []OneLogger
<1>1. ShutdownInv => OneLogger
  <2> SUFFICES ASSUME ShutdownInv, ~Fifo PROVE Cardinality(writing) <= 1
    BY DEF ShutdownInv, LogInv, OneLogger
  <2>1. PICK t : writing \subseteq {t}
    <3>1. CASE role = "sender"
      <4>1. writing \subseteq {"main"}
        BY <3>1 DEF ShutdownInv, LogInv, Logs
      <4> QED
        BY <4>1
    <3>2. CASE role = "target"
      <4>1. writing \subseteq {"recv"}
        BY <3>2 DEF ShutdownInv, LogInv, Logs
      <4> QED
        BY <4>1
    <3> QED
      BY <3>1, <3>2 DEF ShutdownInv, TypeOK, Fifo
  <2>2. writing = {} \/ writing = {t}
    BY <2>1
  <2>3. Cardinality(writing) = 0 \/ Cardinality(writing) = 1
    BY <2>2, FS_EmptySet, FS_Singleton
  <2> QED
    BY <2>3
<1> QED
  BY <1>1, ShutdownCorrect, PTL
=============================================================================
