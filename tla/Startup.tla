------------------------------ MODULE Startup -------------------------------
(***************************************************************************)
(* Processes that are started on one HOSTS and one config file, up to the  *)
(* point where their threads start: Parser::Parse in main, then the first  *)
(* half of the driver, which binds the socket of the local host, builds a  *)
(* PerfectLink for each peer, attaches it to the server under the peer's   *)
(* address (UDPServer::Attach) and gives it to the manager (Manager::Add). *)
(* Who is linked to whom follows from the numbers and addresses in a file  *)
(* that each process reads on its own.                                     *)
(***************************************************************************)
EXTENDS Parser

CONSTANTS
  Proc,      \* bound: the processes that are started
  MaxLines,  \* bound: lines of the HOSTS file, and addresses in it
  MaxId      \* bound: numbers in the files and on the command lines

ASSUME StartupAssumption ==
  /\ IsFiniteSet(Proc)
  /\ MaxLines \in Nat
  /\ MaxId \in Nat
  /\ MaxId < UIntModulus

VARIABLES
  file,       \* the HOSTS file
  config,     \* the config file
  status,     \* status[p]: "down", "ready" (parsed), "up", or how it ended
  parsed,     \* parsed[p]: the Parser of p
  addr,       \* addr[p]: the address the socket of p is bound to, 0 if none
  observers,  \* observers[p]: the hosts whose links are attached to p's server
  links,      \* links[p]: perfect_links_, the host behind each number, 0 if none
  nProcesses  \* n_processes_

vars == <<file, config, status, parsed, addr, observers, links, nProcesses>>

\* The files and command lines that are tried.  The host in line i has address
\* i or the address of the first line.
Lines(i) == {Line(kind) : kind \in NotAHost}
            \union {Host(id, a) : id \in 0..MaxId, a \in {1, i}}
Files == UNION {{f \in [1..n -> UNION {Lines(i) : i \in 1..n}] : \A i \in 1..n : f[i] \in Lines(i)} :
                n \in 0..MaxLines}
Configs == {Config(kind, 0) : kind \in {"missing", "blank", "text", "n"}}
           \union {Config("n target", t) : t \in 0..MaxId}
CommandLines ==
  {CommandLine(argc, Flag, "number", 1, kPerfectLinks) : argc \in 1..10}
  \union {CommandLine(10, Flag \ {f}, "number", 1, kPerfectLinks) : f \in Flag}
  \union {CommandLine(10, Flag, kind, 0, kFIFOBroadcast) : kind \in {"text", "huge"}}
  \union {CommandLine(10, Flag, "number", id, mode) :
            id \in 0..MaxId, mode \in {kPerfectLinks, kFIFOBroadcast, "other"}}

Init ==
  /\ file \in Files
  /\ config \in Configs
  /\ status = [p \in Proc |-> "down"]
  /\ parsed = [p \in Proc |-> NothingParsed]
  /\ addr = [p \in Proc |-> 0]
  /\ observers = [p \in Proc |-> {}]
  /\ links = [p \in Proc |-> [id \in 0..MaxId |-> 0]]
  /\ nProcesses = [p \in Proc |-> 1]

\* main up to the switch on exec_mode.
Launch(p) ==
  /\ status[p] = "down"
  /\ \E c \in CommandLines : \E o \in Parse(c, file, config) :
       /\ status' = [status EXCEPT ![p] = o.status]
       /\ parsed' = [parsed EXCEPT ![p] = o.parsed]
  /\ UNCHANGED <<file, config, addr, observers, links, nProcesses>>

\* local_host() and, in the perfect links mode, target_host() do not throw.
Resolves(parser) ==
  /\ InList(parser.id, parser.hosts)
  /\ parser.mode = kPerfectLinks => InList(parser.target, parser.hosts)

InUse(a) == \E q \in Proc : addr[q] = a

\* The hosts, by their place in hosts_, that the driver builds links to: the
\* target for a sender of the perfect links mode, everybody else otherwise.
PeerHosts(parser) ==
  LET others == {k \in DOMAIN parser.hosts : parser.hosts[k].id # parser.id}
  IN  IF /\ parser.mode = kPerfectLinks
         /\ parser.id # HostOf(parser.target, parser.hosts).id
        THEN {Index(parser.target)}
        ELSE others

\* UDPServer::Attach and Manager::Add for one link after the other: a second
\* host of the same number replaces, and destroys, the link of the first in
\* perfect_links_, but not in observers_.
AddLinks(p, parser) ==
  LET peers == PeerHosts(parser)
  IN  /\ observers' = [observers EXCEPT ![p] = peers]
      /\ links' = [links EXCEPT ![p] = [id \in 0..MaxId |->
                     Max({0} \union {k \in peers : parser.hosts[k].id = id})]]
      /\ nProcesses' = [nProcesses EXCEPT ![p] = 1 + Cardinality(peers)]

\* The driver, which is noexcept: std::terminate if a host is not in the list;
\* exit if the address is in use; links otherwise.
Drive(p) ==
  LET parser == parsed[p]
      local  == HostOf(parser.id, parser.hosts)
  IN
  /\ status[p] = "ready"
  /\ \/ /\ ~Resolves(parser)
        /\ status' = [status EXCEPT ![p] = "aborted"]
        /\ UNCHANGED <<addr, observers, links, nProcesses>>
     \/ /\ Resolves(parser)
        /\ InUse(local.addr)
        /\ status' = [status EXCEPT ![p] = "exited"]
        /\ UNCHANGED <<addr, observers, links, nProcesses>>
     \/ /\ Resolves(parser)
        /\ ~InUse(local.addr)
        /\ status' = [status EXCEPT ![p] = "up"]
        /\ addr' = [addr EXCEPT ![p] = local.addr]
        /\ AddLinks(p, parser)
  /\ UNCHANGED <<file, config, parsed>>

Next == \E p \in Proc : Launch(p) \/ Drive(p)

Spec == Init /\ [][Next]_vars
-----------------------------------------------------------------------------
\* No two lines of the HOSTS file have the same number, or the same address.
DistinctIds ==
  \A j, k \in DOMAIN Hosts(file) : Hosts(file)[j].id = Hosts(file)[k].id => j = k
DistinctAddresses ==
  \A j, k \in DOMAIN Hosts(file) : Hosts(file)[j].addr = Hosts(file)[k].addr => j = k

Up == {p \in Proc : status[p] = "up"}

\* UDPServer::NotifyAll: the links that p notifies of a packet from address a.
Notified(p, a) == {k \in observers[p] : parsed[p].hosts[k].addr = a}

\* p has a link to the process q: it is the one link that p sends on to the
\* address of q and that p notifies of packets from there, it has the number
\* of q, and the manager still has it.
LinkedTo(p, q) ==
  \E k \in observers[p] :
    /\ Notified(p, addr[q]) = {k}
    /\ parsed[p].hosts[k].id = parsed[q].id
    /\ links[p][parsed[q].id] = k

\* The processes that exchange messages: all of the broadcast; of the perfect
\* links mode, the target with everybody else.
Exchange(p, q) ==
  /\ parsed[p].mode = parsed[q].mode
  /\ parsed[p].mode = kPerfectLinks =>
       \E r \in {p, q} : parsed[r].id = parsed[r].target

\* What the processes agree on without ever talking about it: of two processes
\* that exchange messages each has exactly one link to the other, under the
\* number that the other goes by and at the address that the other bound, so
\* that what one sends reaches the other's link and is logged under the right
\* number.  This rests on the check of the numbers and on the sort.
Wired ==
  DistinctIds /\ DistinctAddresses =>
    \A p, q \in Up : p # q /\ Exchange(p, q) => LinkedTo(p, q) /\ LinkedTo(q, p)

\* All processes of the broadcast form their majorities among the same number
\* of processes, the number of hosts: two majorities intersect.
SameMajority ==
  DistinctIds => \A p \in Up : parsed[p].mode = kFIFOBroadcast =>
                                 nProcesses[p] = Len(Hosts(file))
=============================================================================
