--------------------------- MODULE StartupProofs ----------------------------
(***************************************************************************)
(* Theorems about Startup: processes that read one HOSTS file agree on the *)
(* numbers, the addresses and the majority, for any number of processes    *)
(* and any files within StartupAssumption.                                 *)
(***************************************************************************)
EXTENDS Startup, FiniteSetTheorems, SequenceTheorems, WellFoundedInduction, TLAPS

\* A set of numbers that is not empty has a least element.
LEMMA LeastNumber ==
  ASSUME NEW T \in SUBSET Nat, T # {}
  PROVE  \E m \in T : \A n \in T : m <= n
<1> DEFINE Below == {0..n : n \in T}
<1>1. \A n \in T : 0..n \in FiniteSubsetsOf(Nat)
  <2>1. ASSUME NEW n \in T PROVE IsFiniteSet(0..n) /\ 0..n \in SUBSET Nat
    BY FS_Interval
  <2> QED
    BY <2>1 DEF FiniteSubsetsOf
<1>2. Below \subseteq FiniteSubsetsOf(Nat) /\ Below # {}
  BY <1>1
<1>3. PICK X \in Below : \A Y \in Below : ~(<<Y, X>> \in StrictSubsetOrdering(Nat))
  BY <1>2, WFMin, FS_StrictSubsetOrderingWellFounded
<1>4. PICK m \in T : X = 0..m
  OBVIOUS
<1>5. ASSUME NEW n \in T, n < m PROVE FALSE
  <2>1. 0..n \in SUBSET Nat /\ 0..m \in SUBSET Nat /\ 0..n \subseteq 0..m
    BY <1>5
  <2>2. m \in 0..m /\ m \notin 0..n
    BY <1>5
  <2>3. <<0..n, 0..m>> \in StrictSubsetOrdering(Nat)
    BY <2>1, <2>2 DEF StrictSubsetOrdering
  <2> QED
    BY <1>3, <1>4, <2>3
<1> QED
  BY <1>5

\* So has a set of numbers up to a bound a greatest one.
LEMMA GreatestNumber ==
  ASSUME NEW T \in SUBSET Nat, T # {}, NEW b \in Nat, \A n \in T : n <= b
  PROVE  \E m \in T : \A n \in T : n <= m
<1> DEFINE R == {b - n : n \in T}
<1>1. R \in SUBSET Nat /\ R # {}
  <2>1. ASSUME NEW n \in T PROVE b - n \in Nat
    BY n \in Nat, n <= b
  <2> QED
    BY <2>1
<1>2. PICK r \in R : \A x \in R : r <= x
  BY <1>1, LeastNumber
<1>3. PICK m \in T : r = b - m
  OBVIOUS
<1>4. ASSUME NEW n \in T PROVE n <= m
  <2>1. b - m <= b - n
    BY <1>2, <1>3
  <2> QED
    BY <2>1
<1> QED
  BY <1>4

\* The function that the loop of ParseHostsFile defines, up to line n.
LoopEq(h, lines, n) ==
  h = [i \in 0..n |-> IF i = 0 THEN << >>
                      ELSE IF lines[i].kind = "host" THEN Append(h[i - 1], lines[i])
                      ELSE h[i - 1]]

\* The loop is well defined, and appends lines of the file: what it leaves in
\* hosts_ is a sequence of them.
LEMMA LoopDefined ==
  ASSUME NEW S, NEW lines \in Seq(S), NEW n \in 0..Len(lines)
  PROVE  \E h \in [0..n -> Seq(S)] : LoopEq(h, lines, n)
<1> DEFINE Bad == {k \in 0..Len(lines) : ~\E h \in [0..k -> Seq(S)] : LoopEq(h, lines, k)}
<1>1. SUFFICES Bad = {}
  OBVIOUS
<1>2. SUFFICES ASSUME Bad # {} PROVE FALSE
  OBVIOUS
<1>3. PICK m \in Bad : \A k \in Bad : m <= k
  <2>1. Bad \in SUBSET Nat
    OBVIOUS
  <2> QED
    BY <1>2, <2>1, LeastNumber
<1>4. CASE m = 0
  <2> DEFINE h == [i \in 0..0 |-> << >>]
  <2>1. h \in [0..0 -> Seq(S)]
    OBVIOUS
  <2>2. LoopEq(h, lines, 0)
    BY DEF LoopEq
  <2> QED
    BY <1>4, <2>1, <2>2
<1>5. CASE m > 0
  <2>1. m - 1 \in 0..Len(lines) /\ m - 1 \notin Bad /\ m \in 1..Len(lines)
    BY <1>3, <1>5
  <2>2. PICK g \in [0..(m - 1) -> Seq(S)] : LoopEq(g, lines, m - 1)
    BY <2>1
  <2>3. lines[m] \in S /\ g[m - 1] \in Seq(S)
    BY <2>1
  <2>4. PICK last \in Seq(S) :
          last = IF lines[m].kind = "host" THEN Append(g[m - 1], lines[m]) ELSE g[m - 1]
    <3>1. Append(g[m - 1], lines[m]) \in Seq(S)
      BY <2>3
    <3> QED
      BY <2>3, <3>1, Zenon
  <2> DEFINE h == [i \in 0..m |-> IF i = m THEN last ELSE g[i]]
  <2>5. h \in [0..m -> Seq(S)]
    BY <2>1
  <2>6. ASSUME NEW i \in 0..m
        PROVE  h[i] = IF i = 0 THEN << >>
                      ELSE IF lines[i].kind = "host" THEN Append(h[i - 1], lines[i])
                      ELSE h[i - 1]
    <3>1. CASE i = m
      BY <1>5, <2>1, <2>4, <3>1
    <3>2. CASE i # m
      <4>1. i \in 0..(m - 1) /\ (i # 0 => i - 1 \in 0..(m - 1))
        BY <2>1, <3>2
      <4>2. g[i] = IF i = 0 THEN << >>
                   ELSE IF lines[i].kind = "host" THEN Append(g[i - 1], lines[i])
                   ELSE g[i - 1]
        BY <2>2, <4>1 DEF LoopEq
      <4>3. h[i] = g[i] /\ (i # 0 => h[i - 1] = g[i - 1])
        BY <2>1, <3>2, <4>1
      <4> QED
        BY <4>2, <4>3
    <3> QED
      BY <3>1, <3>2
  <2>7. LoopEq(h, lines, m)
    BY <2>6 DEF LoopEq
  <2> QED
    BY <1>3, <2>5, <2>7
<1> QED
  BY <1>3, <1>4, <1>5

\* Hosts is the value of that function at the last line.
LEMMA HostsAreLines ==
  ASSUME NEW S, NEW lines \in Seq(S)
  PROVE  Hosts(lines) \in Seq(S)
<1> DEFINE n == Len(lines)
<1>1. n \in Nat /\ n \in 0..n
  OBVIOUS
<1>2. PICK g \in [0..n -> Seq(S)] : LoopEq(g, lines, n)
  BY <1>1, LoopDefined
<1>3. LoopEq(HostsAfter(lines), lines, n)
  BY <1>2 DEF HostsAfter, LoopEq
<1>4. PICK h : h = HostsAfter(lines) /\ LoopEq(h, lines, n)
  BY <1>3
<1> DEFINE Bad == {i \in 0..n : h[i] # g[i]}
<1>5. SUFFICES ASSUME Bad # {} PROVE FALSE
  BY <1>1, <1>2, <1>4 DEF Hosts
<1>6. PICK m \in Bad : \A k \in Bad : m <= k
  <2>1. Bad \in SUBSET Nat
    OBVIOUS
  <2> QED
    BY <1>5, <2>1, LeastNumber
<1>7. m # 0 => m - 1 \in 0..n /\ h[m - 1] = g[m - 1]
  BY <1>1, <1>6
<1>8. /\ h[m] = IF m = 0 THEN << >>
                ELSE IF lines[m].kind = "host" THEN Append(h[m - 1], lines[m]) ELSE h[m - 1]
      /\ g[m] = IF m = 0 THEN << >>
                ELSE IF lines[m].kind = "host" THEN Append(g[m - 1], lines[m]) ELSE g[m - 1]
  BY <1>2, <1>4, <1>6 DEF LoopEq
<1>9. h[m] = g[m]
  <2>1. CASE m = 0
    BY <1>8, <2>1
  <2>2. CASE m # 0
    <3>1. h[m - 1] = g[m - 1]
      BY <1>7, <2>2
    <3>2. Append(h[m - 1], lines[m]) = Append(g[m - 1], lines[m])
      BY <3>1
    <3> QED
      BY <1>8, <2>2, <3>1, <3>2
  <2> QED
    BY <2>1, <2>2
<1> QED
  BY <1>6, <1>9
-----------------------------------------------------------------------------
\* What a line of the HOSTS file is read as.
LineRec == [kind : {"host"} \union NotAHost, id : 0..MaxId, addr : Nat]

\* No two hosts have the same number.
Unique(hosts) == \A j, k \in DOMAIN hosts : hosts[j].id = hosts[k].id => j = k

\* The check on least and greatest number bounds all of them.
LEMMA IdsInRange ==
  ASSUME NEW hosts \in Seq(LineRec), Len(hosts) >= 2,
         Min(Ids(hosts)) = 1, Max(Ids(hosts)) = Len(hosts)
  PROVE  /\ Len(hosts) \in 0..MaxId
         /\ \A k \in 1..Len(hosts) : hosts[k].id \in 1..Len(hosts)
<1> DEFINE n == Len(hosts)
<1>1. n \in Nat /\ DOMAIN hosts = 1..n /\ 1 \in 1..n /\ MaxId \in Nat
  BY StartupAssumption
<1>2. ASSUME NEW k \in 1..n PROVE hosts[k].id \in 0..MaxId /\ hosts[k].id \in Ids(hosts)
  <2>1. hosts[k] \in LineRec
    BY <1>1
  <2> QED
    BY <1>1, <2>1 DEF LineRec, Ids
<1>3. Ids(hosts) \in SUBSET (0..MaxId)
  BY <1>1, <1>2 DEF Ids
<1>4. Ids(hosts) \in SUBSET Nat /\ (\A x \in Ids(hosts) : x <= MaxId) /\ Ids(hosts) # {}
  BY <1>1, <1>2, <1>3
<1>5. \E m \in Ids(hosts) : \A x \in Ids(hosts) : m <= x
  BY <1>4, LeastNumber
<1>6. \A x \in Ids(hosts) : 1 <= x
  BY <1>5 DEF Min
<1>7. \E m \in Ids(hosts) : \A x \in Ids(hosts) : x <= m
  BY <1>1, <1>4, GreatestNumber
<1>8. \E m \in Ids(hosts) : \A x \in Ids(hosts) : m >= x
  BY <1>4, <1>7
<1>9. n \in Ids(hosts) /\ \A x \in Ids(hosts) : n >= x
  BY <1>8 DEF Max
<1> QED
  BY <1>1, <1>2, <1>3, <1>6, <1>9

\* A sequence of numbers 1 to n that grows with each step counts 1, 2, ..., n.
LEMMA GrowingIsCounting ==
  ASSUME NEW n \in Nat, NEW g \in [1..n -> 1..n],
         \A j, k \in 1..n : j < k => g[j] < g[k]
  PROVE  \A k \in 1..n : g[k] = k
<1> DEFINE Low == {k \in 1..n : g[k] < k}
           High == {k \in 1..n : g[k] > k}
<1>1. Low = {}
  <2>1. SUFFICES ASSUME Low # {} PROVE FALSE
    OBVIOUS
  <2>2. Low \in SUBSET Nat
    OBVIOUS
  <2>3. PICK m \in Low : \A k \in Low : m <= k
    BY <2>1, <2>2, LeastNumber
  <2>4. m \in 1..n /\ g[m] < m /\ g[m] \in 1..n
    OBVIOUS
  <2>5. m - 1 \in 1..n /\ m - 1 \notin Low
    BY <2>3, <2>4
  <2>6. g[m - 1] >= m - 1 /\ g[m - 1] < g[m] /\ g[m - 1] \in 1..n
    BY <2>4, <2>5
  <2> QED
    BY <2>4, <2>6
<1>2. High = {}
  <2>1. SUFFICES ASSUME High # {} PROVE FALSE
    OBVIOUS
  <2>2. High \in SUBSET Nat /\ \A k \in High : k <= n
    OBVIOUS
  <2>3. PICK m \in High : \A k \in High : k <= m
    BY <2>1, <2>2, GreatestNumber
  <2>4. m \in 1..n /\ g[m] > m /\ g[m] \in 1..n
    OBVIOUS
  <2>5. m + 1 \in 1..n /\ m + 1 \notin High
    BY <2>3, <2>4
  <2>6. g[m + 1] <= m + 1 /\ g[m] < g[m + 1] /\ g[m + 1] \in 1..n
    BY <2>4, <2>5
  <2> QED
    BY <2>4, <2>6
<1>3. ASSUME NEW k \in 1..n PROVE g[k] = k
  <2>1. g[k] \in 1..n /\ k \notin Low /\ k \notin High
    BY <1>1, <1>2
  <2> QED
    BY <2>1
<1> QED
  BY <1>3

\* Checked, unique and sorted, the hosts have their numbers for places, and
\* they are the hosts of the file.
LEMMA SortedIsNumbered ==
  ASSUME NEW hosts \in Seq(LineRec), Len(hosts) >= 2,
         Min(Ids(hosts)) = 1, Max(Ids(hosts)) = Len(hosts), Unique(hosts),
         NEW s \in Sorted(hosts)
  PROVE  /\ DOMAIN s = 1..Len(hosts)
         /\ \A k \in 1..Len(hosts) : s[k].id = k
         /\ \A k \in 1..Len(hosts) : \E i \in 1..Len(hosts) : s[k] = hosts[i]
<1> DEFINE n == Len(hosts)
<1>1. n \in Nat /\ DOMAIN hosts = 1..n /\ \A k \in 1..n : hosts[k].id \in 1..n
  BY IdsInRange
<1>2. PICK f \in Bijection(1..n, 1..n) : s = [k \in 1..n |-> hosts[f[k]]]
  BY <1>1 DEF Sorted
<1>3. f \in [1..n -> 1..n] /\ \A j, k \in 1..n : f[j] = f[k] => j = k
  BY <1>2 DEF Bijection, Injection, IsInjective
<1>4. DOMAIN s = 1..n
  BY <1>2
<1>5. \A j, k \in 1..n : j < k => s[j].id <= s[k].id
  BY <1>1, <1>4 DEF Sorted
<1> DEFINE g == [k \in 1..n |-> s[k].id]
<1>6. ASSUME NEW k \in 1..n PROVE s[k] = hosts[f[k]] /\ f[k] \in 1..n /\ g[k] \in 1..n
  BY <1>1, <1>2, <1>3
<1>7. ASSUME NEW j \in 1..n, NEW k \in 1..n, j < k PROVE g[j] < g[k]
  <2>1. s[j].id <= s[k].id
    BY <1>5, <1>7
  <2>2. f[j] # f[k]
    BY <1>3, <1>7
  <2>3. s[j].id # s[k].id
    BY <1>1, <1>6, <2>2 DEF Unique
  <2>4. g[j] \in Nat /\ g[k] \in Nat
    BY <1>6
  <2> QED
    BY <2>1, <2>3, <2>4
<1>8. g \in [1..n -> 1..n]
  BY <1>6
<1>9. \A k \in 1..n : g[k] = k
  <2> HIDE DEF g
  <2> QED
    BY <1>1, <1>7, <1>8, GrowingIsCounting
<1> QED
  BY <1>4, <1>6, <1>9
-----------------------------------------------------------------------------
(***************************************************************************)
(* The inductive invariant.                                                *)
(***************************************************************************)
\* What a process has found out by itself when the parser returns.
Knows(p) ==
  /\ ValidHosts(file)
  /\ parsed[p].hosts \in Sorted(Hosts(file))
  /\ parsed[p].id \in 0..(UIntModulus - 1)
  /\ parsed[p].mode = kPerfectLinks => parsed[p].target = config.target

\* What the driver has set up from it before the threads start.
Linked(p) ==
  /\ Resolves(parsed[p])
  /\ addr[p] = HostOf(parsed[p].id, parsed[p].hosts).addr
  /\ observers[p] = PeerHosts(parsed[p])
  /\ links[p] = [id \in 0..MaxId |->
                   Max({0} \union {k \in observers[p] : parsed[p].hosts[k].id = id})]
  /\ nProcesses[p] = 1 + Cardinality(observers[p])

\* The files are read as lines, and the variables are functions of the process.
Shape ==
  /\ file \in Seq(LineRec)
  /\ config \in Configs
  /\ DOMAIN status = Proc
  /\ DOMAIN parsed = Proc
  /\ DOMAIN addr = Proc
  /\ DOMAIN observers = Proc
  /\ DOMAIN links = Proc
  /\ DOMAIN nProcesses = Proc

\* A process that is up was parsed and linked, at an address of its own.
StartInv ==
  /\ Shape
  /\ \A p \in Proc : status[p] \in {"ready", "up"} => Knows(p)
  /\ \A p \in Proc : status[p] = "up" => Linked(p)
  /\ \A p, q \in Proc : status[p] = "up" /\ status[q] = "up" /\ p # q => addr[p] # addr[q]

\* A parser that returns has checked the files, sorted the hosts, and taken
\* number and target as they were given.
LEMMA ParseReady ==
  ASSUME NEW c \in CommandLines, NEW f, NEW g, NEW o \in Parse(c, f, g), o.status = "ready"
  PROVE  /\ ValidHosts(f)
         /\ o.parsed.hosts \in Sorted(Hosts(f))
         /\ o.parsed.id \in 0..(UIntModulus - 1)
         /\ o.parsed.mode = kPerfectLinks => o.parsed.target = g.target
<1>1. c.id \in 0..(UIntModulus - 1)
  <2>1. MaxId \in Nat /\ MaxId < UIntModulus
    BY StartupAssumption
  <2>2. c.id \in {0, 1} \union 0..MaxId
    BY DEF CommandLines, CommandLine
  <2>3. UIntModulus \in Nat /\ UIntModulus > 1
    BY DEF UIntModulus
  <2> QED
    BY <2>1, <2>2, <2>3
<1>2. PICK hosts \in Sorted(Hosts(f)) :
        o = Outcome("ready", [id |-> c.id, mode |-> ParseMode(c), hosts |-> hosts,
                              target |-> IF ParseMode(c) = kPerfectLinks THEN g.target ELSE 0])
  BY DEF Parse, Outcome
<1>3. ValidHosts(f)
  BY DEF Parse, Outcome
<1> QED
  BY <1>1, <1>2, <1>3 DEF Outcome

\* Lines of the files that are tried are lines.
LEMMA FilesAreLines ==
  ASSUME NEW f \in Files
  PROVE  f \in Seq(LineRec)
<1>1. MaxId \in Nat /\ MaxLines \in Nat
  BY StartupAssumption
<1>2. PICK n \in 0..MaxLines :
        /\ f \in [1..n -> UNION {Lines(i) : i \in 1..n}]
        /\ \A i \in 1..n : f[i] \in Lines(i)
  BY DEF Files
<1>3. ASSUME NEW i \in 1..n, NEW l \in Lines(i) PROVE l \in LineRec
  <2>1. i \in Nat /\ 0 \in 0..MaxId
    BY <1>1
  <2>2. CASE \E kind \in NotAHost : l = Line(kind)
    BY <2>1, <2>2 DEF Line, LineRec
  <2>3. CASE \E id \in 0..MaxId, a \in {1, i} : l = Host(id, a)
    BY <2>1, <2>3 DEF Host, LineRec
  <2> QED
    BY <2>2, <2>3 DEF Lines
<1>4. n \in Nat /\ f \in [1..n -> LineRec]
  BY <1>1, <1>2, <1>3
<1> QED
  BY <1>4, IsASeq

\* No process has been started yet.
LEMMA StartInit == Init => StartInv
<1> SUFFICES ASSUME Init PROVE StartInv
  OBVIOUS
<1>1. Shape
  BY FilesAreLines DEF Init, Shape
<1>2. ASSUME NEW p \in Proc PROVE status[p] = "down"
  BY DEF Init
<1> QED
  BY <1>1, <1>2 DEF StartInv

\* Parsing concerns the process that parses, and leaves it parsed or ended.
LEMMA LaunchKeeps ==
  ASSUME StartInv, NEW p \in Proc, Launch(p)
  PROVE  StartInv'
<1> PICK c \in CommandLines : \E o \in Parse(c, file, config) :
        /\ status' = [status EXCEPT ![p] = o.status]
        /\ parsed' = [parsed EXCEPT ![p] = o.parsed]
  BY DEF Launch
<1>1. PICK o \in Parse(c, file, config) :
        /\ status' = [status EXCEPT ![p] = o.status]
        /\ parsed' = [parsed EXCEPT ![p] = o.parsed]
  OBVIOUS
<1>2. UNCHANGED <<file, config, addr, observers, links, nProcesses>>
  BY DEF Launch
<1>3. o.status # "up"
  BY DEF Parse, Outcome
<1>4. Shape'
  BY <1>1, <1>2 DEF StartInv, Shape
<1>5. status'[p] = o.status /\ parsed'[p] = o.parsed
  BY <1>1 DEF StartInv, Shape
<1>6. ASSUME NEW q \in Proc, q # p PROVE status'[q] = status[q] /\ parsed'[q] = parsed[q]
  BY <1>1, <1>6 DEF StartInv, Shape
<1>7. ASSUME NEW q \in Proc, status'[q] \in {"ready", "up"} PROVE Knows(q)'
  <2>1. CASE q = p
    <3>1. o.status = "ready"
      BY <1>3, <1>5, <1>7, <2>1
    <3> QED
      BY <1>2, <1>5, <2>1, <3>1, ParseReady DEF Knows
  <2>2. CASE q # p
    BY <1>2, <1>6, <1>7, <2>2 DEF Knows, StartInv
  <2> QED
    BY <2>1, <2>2
<1>8. ASSUME NEW q \in Proc, status'[q] = "up" PROVE q # p /\ status[q] = "up"
  BY <1>3, <1>5, <1>6, <1>8
<1>9. ASSUME NEW q \in Proc, status'[q] = "up" PROVE Linked(q)'
  <2>1. Linked(q) /\ parsed'[q] = parsed[q]
    BY <1>6, <1>8, <1>9 DEF StartInv
  <2> QED
    BY <1>2, <2>1 DEF Linked
<1> QED
  BY <1>2, <1>4, <1>7, <1>8, <1>9 DEF StartInv

\* The driver links the process, or ends it; it binds an address that nobody
\* has.
LEMMA DriveKeeps ==
  ASSUME StartInv, NEW p \in Proc, Drive(p)
  PROVE  StartInv'
<1>1. status[p] = "ready" /\ UNCHANGED <<file, config, parsed>>
  BY DEF Drive
<1>2. Knows(p)
  BY <1>1 DEF StartInv
<1>3. ASSUME NEW q \in Proc, Knows(q) PROVE Knows(q)'
  BY <1>1, <1>3 DEF Knows
<1>4. CASE \E end \in {"aborted", "exited"} : /\ status' = [status EXCEPT ![p] = end]
                                              /\ UNCHANGED <<addr, observers, links, nProcesses>>
  <2>1. PICK end \in {"aborted", "exited"} : status' = [status EXCEPT ![p] = end]
    BY <1>4
  <2>2. UNCHANGED <<addr, observers, links, nProcesses>>
    BY <1>4
  <2>3. Shape'
    BY <1>1, <2>1, <2>2 DEF StartInv, Shape
  <2>4. status'[p] = end /\ \A q \in Proc : q # p => status'[q] = status[q]
    BY <2>1 DEF StartInv, Shape
  <2>5. ASSUME NEW q \in Proc, status'[q] \in {"ready", "up"}
        PROVE  q # p /\ status[q] = status'[q]
    BY <2>4, <2>5
  <2>6. ASSUME NEW q \in Proc, Linked(q) PROVE Linked(q)'
    BY <1>1, <2>2, <2>6 DEF Linked
  <2> QED
    BY <1>3, <2>2, <2>3, <2>5, <2>6 DEF StartInv
<1>5. CASE /\ Resolves(parsed[p])
           /\ ~InUse(HostOf(parsed[p].id, parsed[p].hosts).addr)
           /\ status' = [status EXCEPT ![p] = "up"]
           /\ addr' = [addr EXCEPT ![p] = HostOf(parsed[p].id, parsed[p].hosts).addr]
           /\ AddLinks(p, parsed[p])
  <2>1. Shape'
    BY <1>1, <1>5 DEF StartInv, Shape, AddLinks
  <2>2. /\ status'[p] = "up"
        /\ addr'[p] = HostOf(parsed[p].id, parsed[p].hosts).addr
        /\ observers'[p] = PeerHosts(parsed[p])
        /\ links'[p] = [id \in 0..MaxId |->
                          Max({0} \union {k \in PeerHosts(parsed[p]) : parsed[p].hosts[k].id = id})]
        /\ nProcesses'[p] = 1 + Cardinality(PeerHosts(parsed[p]))
    BY <1>5 DEF StartInv, Shape, AddLinks
  <2>3. ASSUME NEW q \in Proc, q # p
        PROVE  /\ status'[q] = status[q]
               /\ addr'[q] = addr[q]
               /\ observers'[q] = observers[q]
               /\ links'[q] = links[q]
               /\ nProcesses'[q] = nProcesses[q]
    BY <1>5, <2>3 DEF StartInv, Shape, AddLinks
  <2>4. Linked(p)'
    BY <1>1, <1>5, <2>2 DEF Linked
  <2>5. ASSUME NEW q \in Proc, q # p, Linked(q) PROVE Linked(q)'
    BY <1>1, <2>3, <2>5 DEF Linked
  <2>6. ASSUME NEW q \in Proc, status'[q] \in {"ready", "up"} PROVE Knows(q)'
    BY <1>2, <1>3, <2>3, <2>6 DEF StartInv
  <2>7. ASSUME NEW q \in Proc, status'[q] = "up" PROVE Linked(q)'
    BY <2>3, <2>4, <2>5, <2>7 DEF StartInv
  <2>8. ASSUME NEW q \in Proc, q # p PROVE addr'[q] # addr'[p]
    BY <1>5, <2>2, <2>3, <2>8 DEF InUse
  <2>9. ASSUME NEW q \in Proc, NEW r \in Proc, status'[q] = "up", status'[r] = "up", q # r
        PROVE  addr'[q] # addr'[r]
    <3>1. CASE q = p \/ r = p
      BY <2>8, <2>9, <3>1
    <3>2. CASE q # p /\ r # p
      BY <2>3, <2>9, <3>2 DEF StartInv
    <3> QED
      BY <3>1, <3>2
  <2> QED
    BY <2>1, <2>6, <2>7, <2>9 DEF StartInv
<1> QED
  BY <1>4, <1>5 DEF Drive

\* Each process that is up was parsed and linked from the one HOSTS file, and
\* has an address of its own.
THEOREM StartCorrect == Spec => []StartInv
<1>1. StartInv /\ [Next]_vars => StartInv'
  <2> SUFFICES ASSUME StartInv, [Next]_vars PROVE StartInv'
    OBVIOUS
  <2>1. CASE Next
    BY <2>1, LaunchKeeps, DriveKeeps DEF Next
  <2>2. CASE UNCHANGED vars
    <3>1. Shape'
      BY <2>2 DEF vars, StartInv, Shape
    <3>2. ASSUME NEW p \in Proc PROVE (Knows(p) => Knows(p)') /\ (Linked(p) => Linked(p)')
      BY <2>2 DEF vars, Knows, Linked
    <3> QED
      BY <2>2, <3>1, <3>2 DEF vars, StartInv
  <2> QED
    BY <2>1, <2>2
<1> QED
  BY <1>1, StartInit, PTL DEF Spec
-----------------------------------------------------------------------------
(***************************************************************************)
(* What the processes agree on.                                            *)
(***************************************************************************)
\* Where the unsigned id - 1 is a place of hosts_, it is the place id - 1: the
\* number 0 wraps around to a place that no list has.
LEMMA IndexIsNumber ==
  ASSUME NEW id \in 0..(UIntModulus - 1), NEW n \in Nat, n < UIntModulus, Index(id) \in 1..n
  PROVE  id \in 1..n /\ Index(id) = id
<1>1. CASE id = 0
  <2>1. Index(id) = 65536
    BY <1>1 DEF Index, UIntModulus
  <2> QED
    BY SMTT(30), <2>1 DEF UIntModulus
<1>2. CASE id # 0
  <2>1. id \in Int /\ 0 <= id - 1 /\ id - 1 < 65536
    BY SMTT(30), <1>2 DEF UIntModulus
  <2>2. (id - 1) % 65536 = id - 1
    BY <2>1
  <2>3. Index(id) = id
    BY SMTT(30), <2>1, <2>2 DEF Index, UIntModulus
  <2> QED
    BY <2>3
<1> QED
  BY <1>1, <1>2

\* A process that is up has the hosts of the file at the places of their
\* numbers, and is one of them; so is the target of the perfect links mode.
LEMMA UpKnows ==
  ASSUME StartInv, DistinctIds, NEW p \in Proc, status[p] = "up"
  PROVE  /\ Hosts(file) \in Seq(LineRec)
         /\ Len(Hosts(file)) \in 0..MaxId
         /\ DOMAIN parsed[p].hosts = 1..Len(Hosts(file))
         /\ \A k \in 1..Len(Hosts(file)) : parsed[p].hosts[k].id = k
         /\ \A k \in 1..Len(Hosts(file)) :
              \E i \in 1..Len(Hosts(file)) : parsed[p].hosts[k] = Hosts(file)[i]
         /\ parsed[p].id \in 1..Len(Hosts(file))
         /\ addr[p] = parsed[p].hosts[parsed[p].id].addr
         /\ parsed[p].mode = kPerfectLinks =>
              /\ parsed[p].target = config.target
              /\ config.target \in 1..Len(Hosts(file))
              /\ Index(config.target) = config.target
<1>1. Knows(p) /\ Linked(p) /\ file \in Seq(LineRec) /\ config \in Configs
  BY DEF StartInv, Shape
<1>2. PICK hosts : hosts = Hosts(file)
  OBVIOUS
<1>3. hosts \in Seq(LineRec)
  BY <1>1, <1>2, HostsAreLines
<1>4. Len(hosts) >= 2 /\ Min(Ids(hosts)) = 1 /\ Max(Ids(hosts)) = Len(hosts) /\ Unique(hosts)
  BY <1>1, <1>2 DEF Knows, ValidHosts, DistinctIds, Unique
<1>5. parsed[p].hosts \in Sorted(hosts)
  BY <1>1, <1>2 DEF Knows
<1>6. Len(hosts) \in 0..MaxId
  BY <1>3, <1>4, IdsInRange
<1>7. /\ DOMAIN parsed[p].hosts = 1..Len(hosts)
      /\ \A k \in 1..Len(hosts) : parsed[p].hosts[k].id = k
      /\ \A k \in 1..Len(hosts) : \E i \in 1..Len(hosts) : parsed[p].hosts[k] = hosts[i]
  BY <1>3, <1>4, <1>5, SortedIsNumbered
<1>8. Len(hosts) \in Nat /\ Len(hosts) < UIntModulus
  <2>1. MaxId \in Nat /\ MaxId < UIntModulus /\ UIntModulus \in Nat
    BY StartupAssumption DEF UIntModulus
  <2> QED
    BY <1>6, <2>1
<1>9. parsed[p].id \in 1..Len(hosts) /\ Index(parsed[p].id) = parsed[p].id
  <2>1. Index(parsed[p].id) \in 1..Len(hosts)
    BY <1>1, <1>7 DEF Linked, Resolves, InList
  <2>2. parsed[p].id \in 0..(UIntModulus - 1)
    BY <1>1 DEF Knows
  <2> QED
    BY <1>8, <2>1, <2>2, IndexIsNumber
<1>10. addr[p] = parsed[p].hosts[parsed[p].id].addr
  BY <1>1, <1>9 DEF Linked, HostOf
<1>11. ASSUME parsed[p].mode = kPerfectLinks
       PROVE  /\ parsed[p].target = config.target
              /\ config.target \in 1..Len(hosts)
              /\ Index(config.target) = config.target
  <2>1. parsed[p].target = config.target
    BY <1>1, <1>11 DEF Knows
  <2>2. Index(config.target) \in 1..Len(hosts)
    BY <1>1, <1>7, <1>11, <2>1 DEF Linked, Resolves, InList
  <2>3. config.target \in 0..(UIntModulus - 1)
    <3>1. MaxId \in Nat /\ MaxId < UIntModulus /\ UIntModulus \in Nat
      BY StartupAssumption DEF UIntModulus
    <3>2. config.target \in {0} \union 0..MaxId
      <4>1. CASE \E kind \in {"missing", "blank", "text", "n"} : config = Config(kind, 0)
        <5>1. config.target = 0
          BY <4>1 DEF Config
        <5> QED
          BY <5>1
      <4>2. CASE \E t \in 0..MaxId : config = Config("n target", t)
        <5>1. PICK t \in 0..MaxId : config = Config("n target", t)
          BY <4>2
        <5>2. config.target = t
          BY <5>1 DEF Config
        <5> QED
          BY <5>2
      <4> QED
        BY <1>1, <4>1, <4>2 DEF Configs
    <3> QED
      BY <3>1, <3>2
  <2> QED
    BY <1>8, <2>1, <2>2, <2>3, IndexIsNumber
<1> QED
  BY <1>2, <1>3, <1>6, <1>7, <1>9, <1>10, <1>11

\* In the broadcast mode everybody but the process itself is a peer.
LEMMA PeersAreOthers ==
  ASSUME NEW parser, parser.mode # kPerfectLinks, NEW n \in Nat,
         DOMAIN parser.hosts = 1..n, \A k \in 1..n : parser.hosts[k].id = k
  PROVE  PeerHosts(parser) = (1..n) \ {parser.id}
<1>1. PeerHosts(parser) = {k \in 1..n : parser.hosts[k].id # parser.id}
  BY DEF PeerHosts
<1>2. ASSUME NEW k \in 1..n PROVE parser.hosts[k].id # parser.id <=> k \notin {parser.id}
  OBVIOUS
<1> QED
  BY <1>1, <1>2

\* The processes that are up in the broadcast mode count the same number of
\* processes, the hosts of the file, and so form majorities that intersect
\* (SameMajority).
THEOREM SameMajorityHolds == Spec => []SameMajority
<1>1. StartInv => SameMajority
  <2> SUFFICES ASSUME StartInv, DistinctIds, NEW p \in Proc, status[p] = "up",
                      parsed[p].mode = kFIFOBroadcast
               PROVE  nProcesses[p] = Len(Hosts(file))
    BY DEF SameMajority, Up
  <2>1. PICK n : n = Len(Hosts(file))
    OBVIOUS
  <2>2. /\ n \in 0..MaxId
        /\ DOMAIN parsed[p].hosts = 1..n
        /\ \A k \in 1..n : parsed[p].hosts[k].id = k
        /\ parsed[p].id \in 1..n
    BY <2>1, UpKnows
  <2>3. n \in Nat
    BY <2>2
  <2>4. parsed[p].mode # kPerfectLinks
    BY DEF kFIFOBroadcast, kPerfectLinks
  <2>5. PeerHosts(parsed[p]) = (1..n) \ {parsed[p].id}
    BY <2>2, <2>3, <2>4, PeersAreOthers
  <2>6. nProcesses[p] = 1 + Cardinality((1..n) \ {parsed[p].id})
    <3>1. Linked(p)
      BY DEF StartInv
    <3> QED
      BY <2>5, <3>1 DEF Linked
  <2>7. IsFiniteSet(1..n) /\ Cardinality(1..n) = n
    BY <2>3, FS_Interval
  <2>8. Cardinality((1..n) \ {parsed[p].id}) = n - 1
    <3>1. PICK x \in 1..n : x = parsed[p].id
      BY <2>2
    <3>2. Cardinality((1..n) \ {x}) = n - 1
      BY <2>7, FS_RemoveElement
    <3> QED
      BY <3>1, <3>2
  <2> QED
    BY <2>1, <2>3, <2>6, <2>8
<1> QED
  BY <1>1, StartCorrect, PTL

\* One direction of Wired: of two processes that are up and exchange messages,
\* the first has exactly one link to the second.
LEMMA OneLink ==
  ASSUME StartInv, DistinctIds, DistinctAddresses,
         NEW p \in Proc, NEW q \in Proc, status[p] = "up", status[q] = "up",
         p # q, Exchange(p, q)
  PROVE  LinkedTo(p, q)
<1>1. PICK n, i, hosts : n = Len(Hosts(file)) /\ i = parsed[q].id /\ hosts = parsed[p].hosts
  OBVIOUS
<1>2. /\ Hosts(file) \in Seq(LineRec)
      /\ n \in Nat
      /\ n \in 0..MaxId
      /\ DOMAIN hosts = 1..n
      /\ \A k \in 1..n : hosts[k].id = k
      /\ \A k \in 1..n : \E j \in 1..n : hosts[k] = Hosts(file)[j]
      /\ parsed[p].id \in 1..n
      /\ addr[p] = hosts[parsed[p].id].addr
  <2>1. /\ Hosts(file) \in Seq(LineRec)
        /\ Len(Hosts(file)) \in 0..MaxId
        /\ DOMAIN parsed[p].hosts = 1..Len(Hosts(file))
        /\ \A k \in 1..Len(Hosts(file)) : parsed[p].hosts[k].id = k
        /\ \A k \in 1..Len(Hosts(file)) :
             \E j \in 1..Len(Hosts(file)) : parsed[p].hosts[k] = Hosts(file)[j]
        /\ parsed[p].id \in 1..Len(Hosts(file))
        /\ addr[p] = parsed[p].hosts[parsed[p].id].addr
    BY UpKnows
  <2>2. n \in 0..MaxId /\ n \in Nat
    BY <1>1, <2>1
  <2> QED
    BY <1>1, <2>1, <2>2
<1>3. /\ i \in 1..n
      /\ addr[q] = parsed[q].hosts[i].addr
      /\ parsed[q].hosts[i].id = i
      /\ \E j \in 1..n : parsed[q].hosts[i] = Hosts(file)[j]
  <2>1. /\ \A k \in 1..Len(Hosts(file)) : parsed[q].hosts[k].id = k
        /\ \A k \in 1..Len(Hosts(file)) :
             \E j \in 1..Len(Hosts(file)) : parsed[q].hosts[k] = Hosts(file)[j]
        /\ parsed[q].id \in 1..Len(Hosts(file))
        /\ addr[q] = parsed[q].hosts[parsed[q].id].addr
    BY UpKnows
  <2> QED
    BY <1>1, <2>1
<1>4. DOMAIN Hosts(file) = 1..n
  BY <1>1, <1>2
<1>5. parsed[q].hosts[i] = hosts[i]
  <2>1. PICK j \in 1..n : parsed[q].hosts[i] = Hosts(file)[j]
    BY <1>3
  <2>2. PICK k \in 1..n : hosts[i] = Hosts(file)[k]
    BY <1>2, <1>3
  <2>3. Hosts(file)[j].id = Hosts(file)[k].id
    BY <1>2, <1>3, <2>1, <2>2
  <2>4. j = k
    BY <1>4, <2>3 DEF DistinctIds
  <2> QED
    BY <2>1, <2>2, <2>4
<1>6. addr[q] = hosts[i].addr
  BY <1>3, <1>5
<1>7. parsed[p].id # i
  <2>1. addr[p] # addr[q]
    BY DEF StartInv
  <2>2. hosts[parsed[p].id].addr # hosts[i].addr
    BY <1>2, <1>6, <2>1
  <2> QED
    BY <2>2
<1>8. PICK peers : peers = observers[p] /\ peers = PeerHosts(parsed[p])
  BY DEF StartInv, Linked
<1>9. i \in peers /\ peers \subseteq 1..n
  <2>1. CASE parsed[p].mode # kPerfectLinks
    <3>1. DOMAIN parsed[p].hosts = 1..n /\ \A k \in 1..n : parsed[p].hosts[k].id = k
      BY <1>1, <1>2
    <3>2. PeerHosts(parsed[p]) = (1..n) \ {parsed[p].id}
      BY <1>2, <2>1, <3>1, PeersAreOthers
    <3> QED
      BY <1>3, <1>7, <1>8, <3>2
  <2>2. CASE parsed[p].mode = kPerfectLinks
    <3>1. /\ parsed[p].target = config.target
          /\ parsed[q].target = config.target
          /\ config.target \in 1..n
          /\ Index(config.target) = config.target
      BY <1>1, <2>2, UpKnows DEF Exchange
    <3>2. HostOf(parsed[p].target, parsed[p].hosts).id = config.target
      BY <1>1, <1>2, <3>1 DEF HostOf
    <3>3. parsed[p].id = config.target \/ i = config.target
      BY <1>1, <2>2, <3>1 DEF Exchange
    <3>4. CASE parsed[p].id = config.target
      <4>1. peers = {k \in 1..n : hosts[k].id # parsed[p].id}
        BY <1>1, <1>2, <1>8, <3>2, <3>4 DEF PeerHosts
      <4> QED
        BY <1>2, <1>3, <1>7, <4>1
    <3>5. CASE parsed[p].id # config.target
      <4>1. peers = {config.target}
        BY <1>8, <2>2, <3>1, <3>2, <3>5 DEF PeerHosts
      <4> QED
        BY <3>1, <3>3, <3>5, <4>1
    <3> QED
      BY <3>4, <3>5
  <2> QED
    BY <2>1, <2>2
<1>10. ASSUME NEW k \in peers, hosts[k].addr = hosts[i].addr PROVE k = i
  <2>1. k \in 1..n
    BY <1>9
  <2>2. PICK a \in 1..n : hosts[i] = Hosts(file)[a]
    BY <1>2, <1>3
  <2>3. PICK b \in 1..n : hosts[k] = Hosts(file)[b]
    BY <1>2, <2>1
  <2>4. a = b
    BY <1>4, <1>10, <2>2, <2>3 DEF DistinctAddresses
  <2>5. hosts[i].id = hosts[k].id
    BY <2>2, <2>3, <2>4
  <2> QED
    BY <1>2, <1>3, <2>1, <2>5
<1>11. Notified(p, addr[q]) = {i}
  BY <1>1, <1>6, <1>8, <1>9, <1>10 DEF Notified
<1>12. hosts[i].id = i
  BY <1>2, <1>3
<1>13. links[p][i] = i
  <2>1. i \in 0..MaxId
    BY <1>2, <1>3, StartupAssumption
  <2>2. links[p][i] = Max({0} \union {k \in peers : hosts[k].id = i})
    <3>1. Linked(p)
      BY DEF StartInv
    <3> QED
      BY <1>1, <1>8, <2>1, <3>1 DEF Linked
  <2>3. {k \in peers : hosts[k].id = i} = {i}
    BY <1>2, <1>9, <1>12
  <2>4. i \in Nat
    BY <1>3
  <2>5. Max({0} \union {i}) = i
    BY <2>4 DEF Max
  <2> QED
    BY <2>2, <2>3, <2>5
<1> QED
  BY <1>1, <1>8, <1>9, <1>11, <1>12, <1>13 DEF LinkedTo

\* Of two processes that are up and exchange messages each has exactly one link
\* to the other, under the number that the other goes by and at the address
\* that it bound (Wired).
THEOREM WiredHolds == Spec => []Wired
<1>1. StartInv => Wired
  <2> SUFFICES ASSUME StartInv, DistinctIds, DistinctAddresses,
                      NEW p \in Up, NEW q \in Up, p # q, Exchange(p, q)
               PROVE  LinkedTo(p, q) /\ LinkedTo(q, p)
    BY DEF Wired
  <2>1. p \in Proc /\ q \in Proc /\ status[p] = "up" /\ status[q] = "up"
    BY DEF Up
  <2>2. Exchange(q, p)
    BY DEF Exchange
  <2> QED
    BY <2>1, <2>2, OneLink
<1> QED
  BY <1>1, StartCorrect, PTL
=============================================================================
