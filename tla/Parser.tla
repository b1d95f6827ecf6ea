------------------------------- MODULE Parser -------------------------------
(***************************************************************************)
(* Parser (parser.cpp): what main gets from the command line, the HOSTS    *)
(* file and the first line of the config file.  Texts are abstracted to    *)
(* what the parser tells apart; wording and paths are left out.            *)
(***************************************************************************)
EXTENDS Integers, Sequences, FiniteSets, FiniteSetsExt, Functions

\* A command line: how many arguments there are, which of --id, --hosts,
\* --output and --mode stand where they are expected, and the values of --id
\* (kind "text", "huge", or "number" with its value) and --mode.
Flag == {"--id", "--hosts", "--output", "--mode"}
CommandLine(argc, flags, idKind, id, mode) ==
  [argc |-> argc, flags |-> flags, idKind |-> idKind, id |-> id, mode |-> mode]

\* A line of the HOSTS file: blank, malformed, with a name that does not
\* resolve, or a host (addr stands for IP address and port).
NotAHost == {"blank", "malformed", "unresolvable"}
Line(kind) == [kind |-> kind, id |-> 0, addr |-> 0]
Host(id, addr) == [kind |-> "host", id |-> id, addr |-> addr]

\* The first line of the config file: "missing" (there is no file), "blank",
\* "text", "n" (one number) or "n target" (two).
Config(kind, target) == [kind |-> kind, target |-> target]

kPerfectLinks  == "pl"
kFIFOBroadcast == "fifo"
-----------------------------------------------------------------------------
\* std::stoi refuses a number that is no int; the number 0 is accepted.
ParseId(c) == c.argc >= 3 /\ "--id" \in c.flags /\ c.idKind = "number"

ParseHostPath(c)   == c.argc >= 5 /\ "--hosts" \in c.flags
ParseOutputPath(c) == c.argc >= 7 /\ "--output" \in c.flags
ParseConfigPath(c) == c.argc >= 8

\* The mode that ParseMode leaves in exec_mode_, or "invalid" if it throws.
ParseMode(c) ==
  IF c.argc < 10 \/ "--mode" \notin c.flags THEN kFIFOBroadcast
  ELSE IF c.mode \in {kPerfectLinks, kFIFOBroadcast} THEN c.mode
  ELSE "invalid"

ParseInternal(c) ==
  ParseId(c) /\ ParseHostPath(c) /\ ParseOutputPath(c) /\ ParseConfigPath(c)
-----------------------------------------------------------------------------
\* The loop of ParseHostsFile: hosts_ after each number of lines.
HostsAfter(file) ==
  LET hosts[i \in 0..Len(file)] ==
        IF i = 0 THEN << >>
        ELSE IF file[i].kind = "host" THEN Append(hosts[i - 1], file[i])
        ELSE hosts[i - 1]
  IN  hosts

Hosts(file) == HostsAfter(file)[Len(file)]
Ids(hosts)  == {hosts[k].id : k \in DOMAIN hosts}

\* The lines at which the loop over the HOSTS file throws.
Faults(file) == {i \in DOMAIN file : file[i].kind \in {"malformed", "unresolvable"}}

\* IpLookup frees an uninitialised pointer before it throws.
FreesGarbage(file) ==
  Faults(file) # {} /\ file[Min(Faults(file))].kind = "unresolvable"

\* Mutant of ValidHosts: the greatest number is not compared with the size.
ValidHosts_NoMax(file) ==
  /\ Faults(file) = {}
  /\ Len(Hosts(file)) >= 2
  /\ Min(Ids(Hosts(file))) = 1

\* ParseHostsFile does not throw.
ValidHosts(file) ==
  /\ Faults(file) = {}
  /\ Len(Hosts(file)) >= 2
  /\ Min(Ids(Hosts(file))) = 1
  /\ Max(Ids(Hosts(file))) = Len(Hosts(file))

\* Mutant of Sorted: the hosts stay in the order of the file.
Sorted_FileOrder(hosts) == {hosts}

\* The orders in which std::sort, which is not stable, may leave the hosts.
Sorted(hosts) ==
  {s \in {[k \in DOMAIN hosts |-> hosts[f[k]]] : f \in Bijection(DOMAIN hosts, DOMAIN hosts)} :
     \A j, k \in DOMAIN s : j < k => s[j].id <= s[k].id}

\* ParseConfigFile does not throw.
ValidConfig(mode, config) ==
  config.kind = "n target" \/ (mode = kFIFOBroadcast /\ config.kind = "n")
-----------------------------------------------------------------------------
NothingParsed == [id |-> 0, mode |-> kFIFOBroadcast, target |-> 0, hosts |-> << >>]

Outcome(status, parsed) == [status |-> status, parsed |-> parsed]

\* Parser::Parse and main's catch: the process exits, or it may crash in
\* freeaddrinfo, or it goes on with what was parsed.
Parse(c, file, config) ==
  LET mode == ParseMode(c)
  IN  IF ~ParseInternal(c) \/ mode = "invalid"
        THEN {Outcome("exited", NothingParsed)}
      ELSE IF FreesGarbage(file)
        THEN {Outcome("exited", NothingParsed), Outcome("crashed", NothingParsed)}
      ELSE IF ~ValidHosts(file) \/ ~ValidConfig(mode, config)
        THEN {Outcome("exited", NothingParsed)}
      ELSE {Outcome("ready", [id |-> c.id, mode |-> mode, hosts |-> hosts,
                              target |-> IF mode = kPerfectLinks THEN config.target ELSE 0]) :
              hosts \in Sorted(Hosts(file))}

\* 2^32 in the code; every modulus above the number of hosts acts like it.
UIntModulus == 65536

\* Where local_host and target_host look for the host of a number: hosts_ is
\* indexed from 0, a sequence from 1, and 0 - 1 wraps around.
Index(id) == ((id - 1) % UIntModulus) + 1
InList(id, hosts) == Index(id) \in DOMAIN hosts
HostOf(id, hosts) == hosts[Index(id)]
=============================================================================
