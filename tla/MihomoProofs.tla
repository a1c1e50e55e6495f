----------------------------- MODULE MihomoProofs -----------------------------
(***************************************************************************)
(* Theorems about the two halves of internal/mihomo.                       *)
(*                                                                         *)
(* BridgeProcess, for every set of administrators and configurations,      *)
(* every number of faults and every supply of secrets: the invariant       *)
(* follows one restart through its steps, what the file, the child and the *)
(* manager have in common at each of them.                                 *)
(*                                                                         *)
(* NodeBinding, for any accounts, nodes and subscriptions and any number   *)
(* of edits, outages and probes: a transaction is followed through its     *)
(* loops (a port is allocated, accounts are dealt out or rebound one after *)
(* the other) down to gcLocked and validateMutation.                       *)
(***************************************************************************)
EXTENDS BridgeProcess, NodeBinding, SequenceLemmas, FiniteSetTheorems, TLAPS

-----------------------------------------------------------------------------
(* BridgeProcess.                                                          *)

Types ==
  /\ BridgeTypeOK
  /\ job \in [who : Callers \union {"nobody"}, step : Steps,
              conf : Confs \union {None}, secret : Secrets \union {None}]
  /\ job # NoJob => job.conf \in Confs

\* A daemon that is down has nothing.
DownIsEmpty == daemon = "down" => job = NoJob /\ waiting = {} /\ handle = None

\* The steps of a restart: the file has the new configuration once it is written, there is
\* no child between its end and the new start, and the new secret is the manager's from then on.
RestartSteps ==
  /\ job.step \in {"stop", "preflight", "start", "ready", "up"} =>
        job.secret # None /\ file = RuntimeYAML(job.conf, job.secret)
  /\ job.step = "start" => alive = {}
  /\ job.step \in {"ready", "up"} => apiSecret = job.secret
  /\ job.step = "skip" => file = RuntimeYAML(job.conf, apiSecret)

\* There is at most one child; it has read the file if it has its secret; the child the
\* manager knows has the manager's secret.
ChildLinks ==
  /\ \A p, q \in alive : p = q
  /\ \A p \in alive : p.secret = file.secret => p = file
  /\ handle \in {None, apiSecret}
  /\ job.step \in {"preflight", "start"} => handle = None

\* Calls that may give up their place bring nothing new: whatever else waits will apply what
\* is due, and if nothing does the call that runs, or has run, took it.
UpToDate ==
  daemon = "up" /\ waiting \subseteq {"button"} =>
    IF job # NoJob THEN job.conf = due.conf /\ (job.step = "disable" <=> ~due.on)
    ELSE ~failed => IF due.on THEN \A p \in Mine : p.conf = due.conf ELSE Mine = {}

IInv == Types /\ DownIsEmpty /\ RestartSteps /\ ChildLinks /\ UpToDate
-----------------------------------------------------------------------------
\* A secret is there to be chosen, and nobody has it.
LEMMA SecretIsNew ==
  ASSUME Fresh # {}
  PROVE  /\ NewSecret \in Secrets
         /\ NewSecret \notin {apiSecret, file.secret, handle} \union {p.secret : p \in alive}
<1>1. NewSecret \in Fresh
  BY DEF NewSecret
<1> QED BY <1>1 DEF Fresh

LEMMA SecretsArePositive == Secrets \subseteq Nat \ {None} /\ 1 \in Secrets
BY BridgeAssumption DEF Secrets, None

LEMMA InitInv == Init => IInv
BY BridgeAssumption, SecretsArePositive DEF Init, Fresh, IInv, Types, BridgeTypeOK, DownIsEmpty, RestartSteps, ChildLinks, UpToDate,
           Mine, None, NoJob, NoFile, RuntimeYAML, Steps, Callers, Idle, Wants

\* The calls of Apply: nobody calls twice at once, and who gets the turn sees what is saved.
LEMMA CallsInv ==
  ASSUME IInv,
         \/ (\E c \in Admins : Change(c)) \/ ApplyNow \/ CancelWait
         \/ SilentChange \/ SelfHeal \/ \E c \in Callers : Enter(c)
  PROVE  IInv'
<1> USE BridgeAssumption, SecretsArePositive
    DEF IInv, Types, BridgeTypeOK, DownIsEmpty, RestartSteps, ChildLinks, UpToDate,
           Mine, None, NoJob, NoFile, RuntimeYAML, Steps, Callers, Idle, manager, child, ghosts, Wants, At, Go, Fail, Succeed, StopProcess
<1>1. CASE \E c \in Admins : Change(c)
  BY <1>1 DEF Change
<1>2. CASE ApplyNow
  BY <1>2 DEF ApplyNow
<1>3. CASE CancelWait
  BY <1>3 DEF CancelWait
<1>4. CASE SelfHeal
  BY <1>4 DEF SelfHeal, Reachable
<1>5. CASE \E c \in Callers : Enter(c)
  BY <1>5 DEF Enter
<1>6. CASE SilentChange
  BY <1>6 DEF SilentChange
<1> QED BY <1>1, <1>2, <1>3, <1>4, <1>5, <1>6

\* The steps of doApply.
LEMMA ApplyInv ==
  ASSUME IInv, DoApply
  PROVE  IInv'
<1> USE BridgeAssumption, SecretsArePositive
    DEF IInv, Types, BridgeTypeOK, DownIsEmpty, RestartSteps, ChildLinks, UpToDate,
           Mine, None, NoJob, NoFile, RuntimeYAML, Steps, Callers, Idle, manager, child, ghosts, Wants, At, Go, Fail, Succeed, StopProcess
<1>1. CASE Disable
  BY <1>1 DEF Disable
<1>2. CASE Compare
  BY <1>2 DEF Compare, Unchanged
<1>3. CASE Skip
  BY <1>3 DEF Skip
<1>4. CASE Write
  <2>1. CASE "disk" \in trouble
    BY <1>4, <2>1 DEF Write
  <2>2. CASE "disk" \notin trouble
    <3> DEFINE new == NewSecret
    <3>1. /\ new \in Secrets /\ new \notin {apiSecret, file.secret, handle}
          /\ \A p \in alive : p.secret # new
      BY <1>4, <2>2, SecretIsNew DEF Write
    <3>2. /\ job.step = "write" /\ UNCHANGED <<alive, exits, handle, apiSecret, want, trouble>>
          /\ UNCHANGED <<waiting, daemon, running, failed, due>>
          /\ file' = [conf |-> job.conf, secret |-> new]
          /\ job' = [job EXCEPT !.step = "stop", !.secret = new]
      BY <1>4, <2>2 DEF Write
    <3>0. /\ job # NoJob /\ job.conf \in Confs /\ job.who \in Callers
          /\ job' = [who |-> job.who, step |-> "stop", conf |-> job.conf, secret |-> new]
      <4>1. job # NoJob /\ job.who # "nobody"
        BY <3>2
      <4>2. job.conf \in Confs /\ job.who \in Callers
        BY <4>1
      <4>3. job = [who |-> job.who, step |-> job.step, conf |-> job.conf, secret |-> job.secret]
        OBVIOUS
      <4>4. job' = [who |-> job.who, step |-> "stop", conf |-> job.conf, secret |-> new]
        BY <3>2, <4>3, Zenon
      <4> QED BY <4>1, <4>2, <4>4
    <3> HIDE DEF new
    <3> USE <3>0, <3>1, <3>2
    <3>3. Types'
      OBVIOUS
    <3>4. DownIsEmpty' /\ RestartSteps'
      OBVIOUS
    <3>5. ChildLinks'
      OBVIOUS
    <3>6. UpToDate'
      OBVIOUS
    <3> QED BY <3>3, <3>4, <3>5, <3>6 DEF IInv
  <2> QED BY <2>1, <2>2
<1>5. CASE StopOld
  BY <1>5 DEF StopOld
<1>6. CASE Preflight
  BY <1>6 DEF Preflight, PortsFree
<1>7. CASE Start
  BY <1>7 DEF Start
<1>8. CASE Ready
  BY <1>8 DEF Ready
<1>9. CASE Up
  BY <1>9 DEF Up
<1> QED BY <1>1, <1>2, <1>3, <1>4, <1>5, <1>6, <1>7, <1>8, <1>9 DEF DoApply

\* The child, the machine and the daemon.
LEMMA WorldInv ==
  ASSUME IInv,
         \/ Crash \/ Stop \/ Gone \/ Boot \/ (\E s \in exits : NoteExit(s))
         \/ \E x \in {"binary", "disk", "port"} : Trouble(x) \/ Mend(x)
  PROVE  IInv'
<1> USE BridgeAssumption, SecretsArePositive
    DEF IInv, Types, BridgeTypeOK, DownIsEmpty, RestartSteps, ChildLinks, UpToDate,
           Mine, None, NoJob, NoFile, RuntimeYAML, Steps, Callers, Idle, manager, child, ghosts, Wants, At, Go, Fail, Succeed, StopProcess
<1>1. CASE Crash
  BY <1>1 DEF Crash
<1>2. CASE \E s \in exits : NoteExit(s)
  BY <1>2 DEF NoteExit
<1>3. CASE \E x \in {"binary", "disk", "port"} : Trouble(x) \/ Mend(x)
  BY <1>3 DEF Trouble, Mend
<1>4. CASE Stop
  BY <1>4 DEF Stop
<1>5. CASE Gone
  BY <1>5 DEF Gone
<1>6. CASE Boot
  BY <1>6, SecretIsNew DEF Boot
<1> QED BY <1>1, <1>2, <1>3, <1>4, <1>5, <1>6

LEMMA StepInv == IInv /\ [Next]_vars => IInv'
<1> SUFFICES ASSUME IInv, [Next]_vars PROVE IInv'
  OBVIOUS
<1>1. CASE Next
  BY <1>1, CallsInv, ApplyInv, WorldInv DEF Next
<1>2. CASE UNCHANGED vars
  BY <1>2 DEF vars, ghosts, Wants, IInv, Types, BridgeTypeOK, DownIsEmpty, RestartSteps, ChildLinks, UpToDate,
           Mine, None, NoJob, NoFile, RuntimeYAML, Steps, Callers, Idle
<1> QED BY <1>1, <1>2

LEMMA Invariance == Spec => []IInv
BY InitInv, StepInv, PTL DEF Spec

\* There is one child at most, whatever an earlier daemon has left over, and the probes carry
\* the secret of the one the manager started.
THEOREM BridgeKnowsItsChild == Spec => []ChildKnown
<1>1. IInv => ChildKnown
  <2> SUFFICES ASSUME IInv PROVE ChildKnown
    OBVIOUS
  <2>1. CASE alive = {}
    BY <2>1, FS_EmptySet DEF IInv, Types, ChildKnown, OneChild, ProbesAreHeard, Mine
  <2>2. CASE alive # {}
    <3>1. PICK p \in alive : alive = {p}
      BY <2>2 DEF IInv, ChildLinks
    <3>2. Cardinality(alive) = 1
      BY <3>1, FS_Singleton
    <3> QED BY <3>1, <3>2, SecretsArePositive
        DEF IInv, Types, BridgeTypeOK, ChildLinks, ChildKnown, OneChild, ProbesAreHeard, Mine
  <2> QED BY <2>1, <2>2
<1> QED BY <1>1, Invariance, PTL

\* When the calls have returned, the last without an error, the child runs what was saved last
\* by an operation of the bridge, or what the last Apply found saved by others.
THEOREM BridgeAppliesTheLatest == Spec => []LatestApplied
<1>1. IInv => LatestApplied
  BY DEF IInv, UpToDate, LatestApplied
<1> QED BY <1>1, Invariance, PTL

-----------------------------------------------------------------------------
(* NodeBinding: ports.                                                     *)

\* The highest port the allocation can reach.
MaxPort == BasePort + Cardinality(Nodes)

\* The values of a function on a finite set are finitely many, no more than the set.
LEMMA ValuesFinite ==
  ASSUME NEW S, IsFiniteSet(S), NEW f, DOMAIN f = S, f = [x \in S |-> f[x]]
  PROVE  IsFiniteSet(Range(f)) /\ Cardinality(Range(f)) <= Cardinality(S)
<1>1. f \in Surjection(S, Range(f))
  BY DEF Range, Surjection
<1> QED BY <1>1, FS_Surjection

LEMMA RangeFinite ==
  ASSUME NEW S, NEW s \in Seq(S)
  PROVE  IsFiniteSet(Range(s))
<1>1. DOMAIN s = 1 .. Len(s) /\ Len(s) \in Nat /\ s = [i \in 1 .. Len(s) |-> s[i]]
  OBVIOUS
<1>2. IsFiniteSet(1 .. Len(s))
  <2>1. \A n \in Nat : IsFiniteSet(1 .. n)
    BY FS_Interval
  <2> QED BY <1>1, <2>1
<1> QED BY <1>1, <1>2, ValuesFinite

LEMMA NodesFinite == IsFiniteSet(Nodes) /\ Cardinality(Nodes) \in Nat /\ BasePort \in Nat \ {0} /\ MaxPort \in Nat
<1>1. IsFiniteSet(Nodes)
  BY BindingAssumption, RangeFinite DEF Nodes
<1> QED BY <1>1, BindingAssumption, FS_CardinalityType DEF MaxPort

\* AllocateMihomoPort: a free port exists, and it is the first one in reach.
LEMMA PortIsFree ==
  ASSUME NEW c \in Configs, NEW n \in Nodes, c.port[n] = 0
  PROVE  /\ AllocatePort(c, n) \in 1 .. MaxPort
         /\ AllocatePort(c, n) # c.apiPort
         /\ \A m \in Nodes : c.port[m] # AllocatePort(c, n)
<1> DEFINE used == Range(c.port) \union {c.apiPort}
           free == (BasePort .. (BasePort + Cardinality(used))) \ used
           rest == [m \in Nodes \ {n} |-> c.port[m]]
           others == Range(rest) \union {c.apiPort}
<1>1. /\ c.port \in [Nodes -> 0 .. MaxPort] /\ c.apiPort \in Nat /\ MaxPort \in Nat
      /\ BasePort \in Nat \ {0} /\ IsFiniteSet(Nodes) /\ Cardinality(Nodes) \in Nat
  BY NodesFinite, BindingAssumption DEF Configs, MaxPort
<1>2. Range(c.port) = {c.port[m] : m \in Nodes} /\ used \subseteq Nat
  BY <1>1 DEF Range
<1>3. IsFiniteSet(used) /\ Cardinality(used) \in Nat
  <2>1. IsFiniteSet(Range(c.port))
    BY <1>1, ValuesFinite
  <2>2. IsFiniteSet(used)
    BY <2>1, FS_AddElement
  <2> QED BY <2>2, FS_CardinalityType
<1>4. IsFiniteSet(others) /\ Cardinality(others) \in Nat /\ Cardinality(others) <= Cardinality(Nodes)
  <2>1. IsFiniteSet(Nodes \ {n}) /\ Cardinality(Nodes \ {n}) = Cardinality(Nodes) - 1
    BY <1>1, FS_RemoveElement
  <2>2. IsFiniteSet(Range(rest)) /\ Cardinality(Range(rest)) <= Cardinality(Nodes \ {n})
    <3> DOMAIN rest = Nodes \ {n} /\ rest = [x \in Nodes \ {n} |-> rest[x]]
      OBVIOUS
    <3> HIDE DEF rest
    <3> QED BY <2>1, ValuesFinite
  <2>3. Cardinality(Range(rest)) \in Nat
    BY <2>2, FS_CardinalityType
  <2>4. IsFiniteSet(others) /\ Cardinality(others) <= Cardinality(Range(rest)) + 1
    <3> HIDE DEF rest
    <3> QED BY <2>2, <2>3, FS_AddElement
  <2>5. Cardinality(others) \in Nat
    BY <2>4, FS_CardinalityType
  <2> HIDE DEF rest, others
  <2> QED BY <1>1, <2>1, <2>2, <2>3, <2>4, <2>5
<1>5. \A p \in Nat \ {0} : p \in used => p \in others
  BY <1>1, <1>2 DEF Range
<1> HIDE DEF used, rest, others
<1>6. free # {}
  <2> SUFFICES ASSUME free = {} PROVE FALSE
    OBVIOUS
  <2>1. (BasePort .. (BasePort + Cardinality(used))) \subseteq used
    OBVIOUS
  <2>2. Cardinality(BasePort .. (BasePort + Cardinality(used))) = Cardinality(used) + 1
    BY <1>1, <1>3, FS_Interval
  <2>3. Cardinality(BasePort .. (BasePort + Cardinality(used))) <= Cardinality(used)
    BY <1>3, <2>1, FS_Subset
  <2> QED BY <1>3, <2>2, <2>3
<1>7. free \in SUBSET Nat
  BY <1>1, <1>3
<1>8. \E p \in free : \A q \in free : p <= q
  <2> HIDE DEF free
  <2> QED BY <1>6, <1>7, LeastNatural
<1> DEFINE p == AllocatePort(c, n)
<1>9. p = CHOOSE x \in free : \A q \in free : x <= q
  BY DEF AllocatePort, used
<1>10. p \in free /\ \A q \in free : p <= q
  <2> HIDE DEF free, p
  <2> QED BY <1>8, <1>9
<1> HIDE DEF p
<1>11. p \in Nat /\ p >= BasePort /\ p \notin used /\ p <= BasePort + Cardinality(used)
  BY <1>1, <1>3, <1>10
<1>12. p <= MaxPort
  <2>1. (BasePort .. (p - 1)) \subseteq others
    <3> SUFFICES ASSUME NEW q \in BasePort .. (p - 1) PROVE q \in others
      OBVIOUS
    <3>1. q \in Nat \ {0} /\ q < p /\ q \notin free
      BY <1>1, <1>10, <1>11
    <3>2. q \in used
      BY <1>1, <1>3, <1>11, <3>1
    <3> QED BY <1>5, <3>1, <3>2
  <2>2. Cardinality(BasePort .. (p - 1)) = p - BasePort
    BY <1>1, <1>11, FS_Interval
  <2>3. Cardinality(BasePort .. (p - 1)) <= Cardinality(others)
    BY <1>4, <2>1, FS_Subset
  <2> QED BY <1>1, <1>4, <1>11, <2>2, <2>3 DEF MaxPort
<1>13. p # c.apiPort /\ \A m \in Nodes : c.port[m] # p
  BY <1>2, <1>11 DEF used
<1> QED BY <1>1, <1>11, <1>12, <1>13 DEF p

-----------------------------------------------------------------------------
(* The steps of a transaction, on sound configurations.                    *)

\* What the parts of a transaction keep, before gcLocked and the validation.
Kept(c) == c \in Configs /\ ProxiesFollow(c)

LEMMA AllocateFacts ==
  ASSUME NEW c \in Configs, NEW n \in Nodes
  PROVE  /\ AllocatePort(c, n) \in 1 .. MaxPort
         /\ c.port[n] > 0 => AllocatePort(c, n) = c.port[n]
         /\ c.port[n] = 0 => /\ AllocatePort(c, n) # c.apiPort
                             /\ \A m \in Nodes : c.port[m] # AllocatePort(c, n)
<1>1. c.port[n] \in 0 .. MaxPort /\ MaxPort \in Nat
  BY NodesFinite DEF Configs, MaxPort
<1>2. CASE c.port[n] = 0
  BY <1>2, PortIsFree
<1>3. CASE c.port[n] > 0
  BY <1>1, <1>3 DEF AllocatePort
<1> QED BY <1>1, <1>2, <1>3

\* What does not touch ports, proxies or nodes that go keeps them as they are; nodes may come.
LEMMA SameIsKept ==
  ASSUME NEW c, Kept(c), NEW d \in Configs, d.port = c.port, d.proxy = c.proxy, d.left = c.left,
         Present(c) \subseteq Present(d) \/ d.status = c.status
  PROVE  Kept(d)
<1>1. Present(c) \subseteq Present(d)
  BY DEF Present
<1> QED BY <1>1 DEF Kept, ProxiesFollow, Ported

\* A binding gives the node a port and its proxy the same one.
LEMMA AssignKeeps ==
  ASSUME NEW c, Kept(c), NEW a \in Accounts, NEW n \in Present(c)
  PROVE  /\ Kept(Assign(c, a, n)) /\ Assign(c, a, n).cooling = c.cooling
         /\ Assign(c, a, n).status = c.status
<1> DEFINE p == AllocatePort(c, n)
           d == Assign(c, a, n)
<1>1. /\ c \in Configs /\ n \in Nodes /\ MaxPort \in Nat
      /\ p \in 1 .. MaxPort
      /\ c.port[n] > 0 => p = c.port[n]
      /\ c.port[n] = 0 => \A m \in Nodes : c.port[m] # p
      /\ c.port[n] \in Nat
  BY AllocateFacts, NodesFinite DEF Kept, Present, Configs
<1>2. d = [c EXCEPT !.port[n] = p, !.proxy[n] = p, !.bound[a] = n, !.left = @ \ {n}]
  BY DEF Assign
<1> HIDE DEF p, d
<1>3. d \in Configs
  <2>1. /\ [c.port EXCEPT ![n] = p] \in [Nodes -> 0 .. MaxPort]
        /\ [c.proxy EXCEPT ![n] = p] \in [Nodes -> 0 .. MaxPort]
        /\ [c.bound EXCEPT ![a] = n] \in [Accounts -> Nodes \union {NoNode}]
        /\ c.left \ {n} \in SUBSET Nodes
    BY <1>1 DEF Configs, MaxPort
  <2>2. d = [c EXCEPT !.port = [c.port EXCEPT ![n] = p], !.proxy = [c.proxy EXCEPT ![n] = p],
                      !.bound = [c.bound EXCEPT ![a] = n], !.left = c.left \ {n}]
    BY <1>1, <1>2 DEF Configs
  <2> QED BY <1>1, <2>1, <2>2 DEF Configs, MaxPort
<1>4. /\ d.port[n] = p /\ d.proxy[n] = p /\ d.cooling = c.cooling /\ d.status = c.status
      /\ \A m \in Nodes \ {n} : d.port[m] = c.port[m] /\ d.proxy[m] = c.proxy[m]
      /\ d.left = c.left \ {n}
  BY <1>1, <1>2 DEF Configs
<1>5. ProxiesFollow(d)
  <2>1. ASSUME NEW m \in Nodes \ d.left, d.proxy[m] > 0
        PROVE  m \in Present(d) /\ d.port[m] = d.proxy[m]
    BY <1>1, <1>4, <2>1 DEF Kept, ProxiesFollow, Present
  <2>2. ASSUME NEW x \in Ported(d), NEW y \in Ported(d), d.port[x] = d.port[y] PROVE x = y
    <3>1. x \in Nodes /\ y \in Nodes /\ d.port[x] > 0 /\ d.port[y] > 0
      BY <2>2 DEF Ported
    <3>2. ASSUME NEW m \in Nodes \ {n} PROVE c.port[m] > 0 => c.port[m] # p
      BY <1>1, <3>2 DEF Kept, ProxiesFollow, Ported
    <3> QED BY <1>1, <1>4, <2>2, <3>1, <3>2 DEF Kept, ProxiesFollow, Ported
  <2> QED BY <2>1, <2>2 DEF ProxiesFollow
<1> QED BY <1>3, <1>4, <1>5 DEF Kept, d

\* gcLocked.
LEMMA GcFacts ==
  ASSUME NEW c \in Configs
  PROVE  /\ Gc(c) \in Configs
         /\ Gc(c).cooling = c.cooling /\ Gc(c).apiPort = c.apiPort /\ Gc(c).status = c.status
         /\ Gc(c).left = c.left
         /\ \A n \in Present(c) : Gc(c).proxy[n] > 0 => Gc(c).port[n] = c.port[n]
         /\ \A n \in Nodes : Gc(c).proxy[n] \in {0, c.proxy[n]}
         /\ \A n \in Nodes : Gc(c).port[n] # 0 =>
                Gc(c).port[n] = c.port[n] /\ Gc(c).proxy[n] = c.proxy[n] /\ n \in Present(c)
         /\ \A a \in Accounts : Gc(c).bound[a] # NoNode => Gc(c).proxy[Gc(c).bound[a]] > 0
<1> DEFINE proxy == [n \in Nodes |-> IF n \in Range(c.bound) THEN c.proxy[n] ELSE 0]
           bound == [a \in Accounts |->
                      IF c.bound[a] # NoNode /\ proxy[c.bound[a]] = 0 THEN NoNode ELSE c.bound[a]]
           port == [n \in Nodes |-> IF n \in Present(c) /\ proxy[n] > 0 THEN c.port[n] ELSE 0]
           d == Gc(c)
<1>1. d = [c EXCEPT !.proxy = proxy, !.bound = bound, !.port = port]
  BY DEF Gc
<1>2. /\ proxy \in [Nodes -> 0 .. MaxPort] /\ port \in [Nodes -> 0 .. MaxPort]
      /\ \A n \in Nodes : proxy[n] \in {0, c.proxy[n]}
      /\ \A n \in Nodes : port[n] # 0 => port[n] = c.port[n] /\ proxy[n] = c.proxy[n] /\ n \in Present(c)
      /\ \A n \in Present(c) : proxy[n] > 0 => port[n] = c.port[n]
  BY NodesFinite DEF Configs, MaxPort, Present
<1>3. bound \in [Accounts -> Nodes \union {NoNode}]
  BY DEF Configs
<1>4. ASSUME NEW a \in Accounts, bound[a] # NoNode PROVE proxy[bound[a]] > 0
  <2>1. bound[a] = c.bound[a] /\ proxy[c.bound[a]] # 0 /\ bound[a] \in Nodes
    BY <1>3, <1>4
  <2> HIDE DEF proxy, bound
  <2>2. proxy[bound[a]] \in Nat
    BY <1>2, <2>1, NodesFinite
  <2> QED BY <2>1, <2>2
<1> HIDE DEF proxy, bound, port, d
<1>5. d \in Configs
  BY <1>1, <1>2, <1>3 DEF Configs, MaxPort
<1>6. /\ d.proxy = proxy /\ d.bound = bound /\ d.port = port
      /\ d.cooling = c.cooling /\ d.apiPort = c.apiPort /\ d.status = c.status /\ d.left = c.left
  BY <1>1 DEF Configs
<1> QED BY <1>2, <1>4, <1>5, <1>6 DEF d

LEMMA GcKeeps ==
  ASSUME NEW c, Kept(c)
  PROVE  Kept(Gc(c)) /\ Gc(c).cooling = c.cooling /\ Gc(c).status = c.status
<1>1. c \in Configs
  BY DEF Kept
<1> DEFINE d == Gc(c)
<1>3. /\ d.status = c.status /\ d.left = c.left /\ Present(d) = Present(c)
      /\ \A n \in Nodes : d.proxy[n] \in {0, c.proxy[n]}
      /\ \A n \in Present(c) : d.proxy[n] > 0 => d.port[n] = c.port[n]
      /\ \A n \in Nodes : d.port[n] # 0 => d.port[n] = c.port[n]
  BY <1>1, GcFacts DEF Present
<1> HIDE DEF d
<1>2. ProxiesFollow(d)
  <2>1. ASSUME NEW n \in Nodes \ d.left, d.proxy[n] > 0
        PROVE  n \in Present(d) /\ d.port[n] = d.proxy[n]
    <3>1. d.proxy[n] = c.proxy[n] /\ n \in Nodes \ c.left
      BY <1>3, <2>1
    <3> QED BY <1>3, <2>1, <3>1 DEF Kept, ProxiesFollow
  <2>2. ASSUME NEW x \in Ported(d), NEW y \in Ported(d), d.port[x] = d.port[y] PROVE x = y
    <3>1. x \in Nodes /\ y \in Nodes /\ d.port[x] > 0 /\ d.port[y] > 0
      BY <2>2 DEF Ported
    <3>2. d.port[x] = c.port[x] /\ d.port[y] = c.port[y]
      BY <1>3, <3>1
    <3> QED BY <2>2, <3>1, <3>2 DEF Kept, ProxiesFollow, Ported
  <2> QED BY <2>1, <2>2 DEF ProxiesFollow
<1> QED BY <1>1, <1>2, GcFacts DEF Kept, d

\* A configuration in which nothing is bound yet is one the program may start with.
LEMMA FreshIsSound ==
  ASSUME NEW c \in Configs, \A n \in Nodes : c.port[n] = 0 /\ c.proxy[n] = 0,
         \A a \in Accounts : c.bound[a] = NoNode
  PROVE  Sound(c)
<1>1. Ported(c) = {}
  BY DEF Ported
<1>2. c.apiPort \notin {c.port[n] : n \in Ported(c)}
  BY <1>1
<1> QED BY <1>1, <1>2 DEF Sound, Valid, ProxiesFollow

\* Binding and unbinding an account: BindAlwaysPossible.
LEMMA BoundIsValid ==
  ASSUME NEW c, Sound(c), NEW a \in Accounts, NEW n \in Present(c)
  PROVE  Valid(Bound(c, a, n))
<1> DEFINE p == AllocatePort(c, n)
           b == Assign(c, a, n)
           d == [b EXCEPT !.cooling = @ \ {a}, !.noProxy = @ \ {a}]
           e == Gc(d)
<1>1. /\ c \in Configs /\ n \in Nodes /\ MaxPort \in Nat
      /\ p \in 1 .. MaxPort
      /\ c.port[n] > 0 => p = c.port[n]
      /\ c.port[n] = 0 => p # c.apiPort /\ \A m \in Nodes : c.port[m] # p
  BY AllocateFacts, NodesFinite DEF Sound, Present
<1>2. /\ b \in Configs /\ b.apiPort = c.apiPort /\ b.status = c.status /\ b.port[n] = p
      /\ \A m \in Nodes \ {n} : b.port[m] = c.port[m]
  <2>1. b \in Configs
    BY <1>1, AssignKeeps DEF Sound, Kept
  <2> HIDE DEF p
  <2>2. b = [c EXCEPT !.port[n] = p, !.proxy[n] = p, !.bound[a] = n, !.left = @ \ {n}]
    BY DEF Assign, p
  <2> HIDE DEF b
  <2> QED BY <1>1, <2>1, <2>2 DEF Configs
<1> HIDE DEF b, p
<1>3. d \in Configs /\ d.apiPort = c.apiPort /\ d.status = c.status /\ d.port = b.port
  BY <1>2 DEF Configs
<1> HIDE DEF d
<1>4. /\ e.apiPort = c.apiPort /\ e.status = c.status /\ Present(e) = Present(c)
      /\ \A m \in Nodes : e.port[m] # 0 => e.port[m] = b.port[m] /\ m \in Present(c)
      /\ \A x \in Accounts : e.bound[x] # NoNode => e.proxy[e.bound[x]] > 0
  <2>1. Present(d) = Present(c)
    BY <1>3 DEF Present
  <2> QED BY <1>3, <2>1, GcFacts DEF Present
<1>5. Valid(c) /\ c.port[n] \in Nat
  BY <1>1, NodesFinite DEF Sound, Configs
<1>6. Bound(c, a, n) = e
  BY DEF Bound, d, b
<1> HIDE DEF e
<1>7. e.apiPort \notin {e.port[m] : m \in Ported(e)}
  <2> SUFFICES ASSUME NEW m \in Nodes, e.port[m] > 0, e.port[m] = e.apiPort PROVE FALSE
    BY DEF Ported
  <2>1. b.port[m] = c.apiPort /\ b.port[m] > 0
    BY <1>4
  <2>2. CASE m = n /\ c.port[n] = 0
    BY <1>1, <1>2, <2>1, <2>2
  <2>3. CASE m # n \/ c.port[n] > 0
    <3>1. c.port[m] = c.apiPort /\ m \in Ported(c)
      BY <1>1, <1>2, <2>1, <2>3 DEF Ported
    <3> QED BY <1>5, <3>1 DEF Valid
  <2> QED BY <1>5, <2>2, <2>3
<1>8. \A x, y \in Ported(e) \intersect Present(e) : e.port[x] = e.port[y] => x = y
  <2> SUFFICES ASSUME NEW x \in Nodes, NEW y \in Nodes, e.port[x] > 0, e.port[x] = e.port[y], x # y,
                      x \in Present(c), y \in Present(c)
               PROVE  FALSE
    BY <1>4 DEF Ported
  <2>1. b.port[x] = b.port[y] /\ b.port[x] > 0
    BY <1>4
  <2>2. ASSUME NEW m \in Nodes \ {n}, m \in Present(c), b.port[m] = p PROVE FALSE
    <3>1. c.port[m] = p /\ c.port[m] > 0
      BY <1>1, <1>2, <2>2
    <3>2. c.port[n] > 0 /\ c.port[n] = c.port[m]
      BY <1>1, <1>5, <3>1
    <3>3. m \in Ported(c) \intersect Present(c) /\ n \in Ported(c) \intersect Present(c) /\ m # n
      BY <1>1, <2>2, <3>1, <3>2 DEF Ported
    <3> QED BY <1>5, <3>2, <3>3 DEF Valid
  <2>3. CASE x = n
    BY <1>2, <2>1, <2>2, <2>3
  <2>4. CASE y = n
    BY <1>2, <2>1, <2>2, <2>4
  <2>5. CASE x # n /\ y # n
    BY <1>2, <1>5, <2>1, <2>5 DEF Valid, Ported
  <2> QED BY <2>3, <2>4, <2>5
<1> QED BY <1>4, <1>6, <1>7, <1>8 DEF Valid

-----------------------------------------------------------------------------
(* The loops of the transactions.                                          *)

\* What AssignAccounts deals out: no node comes or goes by it, and no cooldown begins.
KeptCool(o) == {d \in Configs : ProxiesFollow(d) /\ d.cooling \subseteq o.cooling /\ d.status = o.status}

LEMMA DealtToKeeps ==
  ASSUME NEW o, NEW d \in KeptCool(o), NEW a \in Accounts, NEW n \in Present(o)
  PROVE  DealtTo(d, a, n) \in KeptCool(o)
<1> DEFINE b == Assign(d, a, n)
           e == [b EXCEPT !.cooling = @ \ {a}]
<1>0. Kept(d) /\ d.cooling \subseteq o.cooling /\ d.status = o.status /\ n \in Present(d)
  BY DEF KeptCool, Kept, Present
<1>1. b \in Configs /\ ProxiesFollow(b) /\ b.cooling \subseteq o.cooling /\ b.status = o.status
  BY <1>0, AssignKeeps DEF Kept
<1>2. DealtTo(d, a, n) = e
  BY DEF DealtTo
<1> HIDE DEF b
<1>3. /\ e \in Configs /\ e.port = b.port /\ e.proxy = b.proxy /\ e.cooling \subseteq o.cooling
      /\ e.status = b.status /\ e.left = b.left
  BY <1>1 DEF Configs
<1> HIDE DEF e
<1>4. ProxiesFollow(e)
  BY <1>1, <1>3 DEF ProxiesFollow, Ported, Present
<1> QED BY <1>1, <1>2, <1>3, <1>4 DEF KeptCool

LEMMA Turns ==
  ASSUME NEW list \in Seq(Nodes), list # <<>>, NEW i \in Nat \ {0}
  PROVE  InTurn(list, i) \in Range(list)
<1>1. Len(list) \in Nat \ {0} /\ \A k \in 1 .. Len(list) : list[k] \in Range(list)
  BY DEF Range
<1>2. (i - 1) % Len(list) \in 0 .. (Len(list) - 1)
  BY <1>1
<1> QED BY <1>1, <1>2 DEF InTurn

LEMMA DealLoop ==
  ASSUME NEW o, NEW bare \in KeptCool(o), NEW takers \in Seq(Accounts), NEW list \in Seq(Nodes), list # <<>>,
         Range(list) \subseteq Present(o)
  PROVE  \E f : f = [i \in 0 .. Len(takers) |-> IF i = 0 THEN bare
                       ELSE DealtTo(f[i - 1], takers[i], InTurn(list, i))]
<1> DEFINE V == KeptCool(o)
           n == Len(takers)
           step == [i \in Nat |-> [v \in V |-> IF i \in 1 .. n THEN DealtTo(v, takers[i], InTurn(list, i)) ELSE v]]
<1>1. n \in Nat /\ \A i \in 1 .. n : takers[i] \in Accounts /\ InTurn(list, i) \in Present(o)
  BY Turns
<1> HIDE DEF n
<1>3. step \in [Nat -> [V -> V]]
  BY <1>1, DealtToKeeps
<1>4. \A i \in 1 .. n, v \in V : step[i][v] = DealtTo(v, takers[i], InTurn(list, i))
  BY <1>1
<1> HIDE DEF V, step
<1>5. PICK f \in [0 .. n -> V] : Iterates(f, n, bare, step)
  BY <1>1, <1>3, Recursion DEF V
<1>7. \A i \in 1 .. n : f[i] = DealtTo(f[i - 1], takers[i], InTurn(list, i))
  BY <1>1, <1>4, <1>5 DEF Iterates
<1>8. f = [i \in 0 .. n |-> IF i = 0 THEN bare
                  ELSE DealtTo(f[i - 1], takers[i], InTurn(list, i))]
  BY <1>1, <1>5, <1>7 DEF Iterates
<1> QED BY <1>8 DEF n

LEMMA DealtKeeps ==
  ASSUME NEW c, Kept(c), NEW list \in Seq(Nodes), list # <<>>, Range(list) \subseteq Present(c)
  PROVE  Kept(Dealt(c, list)) /\ Dealt(c, list).cooling \subseteq c.cooling
<1> DEFINE V == KeptCool(c)
           clear == [c EXCEPT !.bound = [a \in Accounts |-> NoNode]]
           bare == Gc(clear)
           takers == Among(AccountOrder, Accounts \ (c.disabled \union c.noProxy))
           n == Len(takers)
           g == CHOOSE f : f = [i \in 0 .. Len(takers) |-> IF i = 0 THEN bare
                       ELSE DealtTo(f[i - 1], takers[i], InTurn(list, i))]
<1>1. Kept(clear) /\ clear.cooling = c.cooling /\ clear.status = c.status
  <2>1. /\ clear \in Configs /\ clear.port = c.port /\ clear.proxy = c.proxy /\ clear.left = c.left
        /\ clear.cooling = c.cooling /\ clear.status = c.status
    BY DEF Kept, Configs
  <2> HIDE DEF clear
  <2> QED BY <2>1, SameIsKept DEF Kept
<1>2. bare \in V
  <2> HIDE DEF clear
  <2> QED BY <1>1, GcKeeps DEF Kept, KeptCool
<1>3. takers \in Seq(Accounts)
  <2>1. takers \in Seq(Accounts \cap (Accounts \ (c.disabled \union c.noProxy)))
    BY BindingAssumption, AmongType
  <2> QED BY <2>1
<1>4. Dealt(c, list) = Gc(g[n])
  BY DEF Dealt
<1> HIDE DEF bare, takers
<1>5. g = [i \in 0 .. Len(takers) |-> IF i = 0 THEN bare
                       ELSE DealtTo(g[i - 1], takers[i], InTurn(list, i))]
  <2>1. \E f : f = [i \in 0 .. Len(takers) |-> IF i = 0 THEN bare
                       ELSE DealtTo(f[i - 1], takers[i], InTurn(list, i))]
    BY <1>2, <1>3, DealLoop
  <2> QED BY <2>1, Zenon
<1> HIDE DEF g
<1>6. n \in Nat /\ g[0] \in V
  BY <1>2, <1>3, <1>5
<1>7. ASSUME NEW i \in 1 .. n, g[i - 1] \in V PROVE g[i] \in V
  <2>1. g[i] = DealtTo(g[i - 1], takers[i], InTurn(list, i))
    BY <1>5, <1>6
  <2>2. takers[i] \in Accounts /\ InTurn(list, i) \in Present(c)
    BY <1>3, <1>6, Turns
  <2> QED BY <1>7, <2>1, <2>2, DealtToKeeps
<1> HIDE DEF n, V
<1>8. g[n] \in V
  <2>1. \A i \in 0 .. n : g[i] \in V
    BY <1>6, <1>7, LoopType
  <2> QED BY <1>6, <2>1
<1>9. Kept(g[n]) /\ g[n].cooling \subseteq c.cooling
  BY <1>8 DEF V, KeptCool, Kept
<1> QED BY <1>4, <1>9, GcKeeps

\* What the transaction of reconcileBindings goes through.
KeptCfg == {d \in Configs : ProxiesFollow(d)}
Progress == [c : KeptCfg, counts : [Nodes -> Nat], failed : BOOLEAN]

LEMMA RebindKeeps ==
  ASSUME NEW p, NEW s \in Progress, NEW a \in Accounts
  PROVE  Rebind(p, s, a) \in Progress
<1> DEFINE n == LeastLoaded(p.cands, s.counts)
           b == Assign(s.c, a, n)
           d == [b EXCEPT !.cooling = IF a \in p.move THEN @ \union {a} ELSE @]
<1>1. s.c \in Configs /\ ProxiesFollow(s.c) /\ s.counts \in [Nodes -> Nat]
  BY DEF Progress, KeptCfg
<1>2. CASE s.failed \/ a \in s.c.disabled
  BY <1>2 DEF Rebind
<1>3. CASE ~(s.failed \/ a \in s.c.disabled) /\ n \notin Present(s.c)
  <2>1. Rebind(p, s, a) = [s EXCEPT !.failed = TRUE]
    BY <1>3 DEF Rebind
  <2> QED BY <2>1 DEF Progress
<1>4. CASE ~(s.failed \/ a \in s.c.disabled) /\ n \in Present(s.c)
  <2>1. Rebind(p, s, a) = [c |-> d, counts |-> [s.counts EXCEPT ![n] = @ + 1], failed |-> FALSE]
    BY <1>4 DEF Rebind
  <2>2. n \in Nodes
    BY <1>4 DEF Present
  <2>3. Kept(b)
    BY <1>1, <1>4, AssignKeeps DEF Kept
  <2> HIDE DEF n, b
  <2>4. d \in Configs /\ d.port = b.port /\ d.proxy = b.proxy /\ d.left = b.left /\ d.status = b.status
    BY <2>3 DEF Kept, Configs
  <2> HIDE DEF d
  <2>5. d \in KeptCfg
    BY <2>3, <2>4, SameIsKept DEF Kept, KeptCfg
  <2>6. [s.counts EXCEPT ![n] = @ + 1] \in [Nodes -> Nat]
    BY <1>1, <2>2
  <2> QED BY <2>1, <2>5, <2>6 DEF Progress
<1> HIDE DEF n
<1> QED BY <1>2, <1>3, <1>4

LEMMA RebindLoop ==
  ASSUME NEW p, p.counts \in [Nodes -> Nat], NEW base \in Progress, NEW todo \in Seq(Accounts)
  PROVE  \E f : f = [i \in 0 .. Len(todo) |-> IF i = 0 THEN base ELSE Rebind(p, f[i - 1], todo[i])]
<1> DEFINE V == Progress
           n == Len(todo)
           step == [i \in Nat |-> [v \in V |-> IF i \in 1 .. n THEN Rebind(p, v, todo[i]) ELSE v]]
<1>1. n \in Nat /\ \A i \in 1 .. n : todo[i] \in Accounts
  OBVIOUS
<1> HIDE DEF n
<1>2. step \in [Nat -> [V -> V]]
  BY <1>1, RebindKeeps
<1>3. \A i \in 1 .. n, v \in V : step[i][v] = Rebind(p, v, todo[i])
  BY <1>1
<1> HIDE DEF V, step
<1>4. PICK f \in [0 .. n -> V] : Iterates(f, n, base, step)
  BY <1>1, <1>2, Recursion DEF V
<1>5. \A i \in 1 .. n : f[i] = Rebind(p, f[i - 1], todo[i])
  BY <1>1, <1>3, <1>4, SMTT(30) DEF Iterates
<1>6. f = [i \in 0 .. n |-> IF i = 0 THEN base ELSE Rebind(p, f[i - 1], todo[i])]
  BY <1>1, <1>4, <1>5 DEF Iterates
<1> QED BY <1>6 DEF n

LEMMA ReconciledKeeps ==
  ASSUME NEW c, Kept(c), NEW p, p.counts \in [Nodes -> Nat]
  PROVE  Kept(Reconciled(c, p).c)
<1> DEFINE freed == [c EXCEPT !.bound = [a \in Accounts |-> IF a \in p.un THEN NoNode ELSE c.bound[a]]]
           todo == Among(AccountOrder, p.move) \o Among(AccountOrder, p.fill)
           base == [c |-> freed, counts |-> p.counts, failed |-> FALSE]
           n == Len(todo)
           g == CHOOSE f : f = [i \in 0 .. Len(todo) |-> IF i = 0 THEN base ELSE Rebind(p, f[i - 1], todo[i])]
<1>1. freed \in KeptCfg
  <2>1. /\ freed \in Configs /\ freed.port = c.port /\ freed.proxy = c.proxy /\ freed.left = c.left
        /\ freed.status = c.status
    BY DEF Kept, Configs
  <2> HIDE DEF freed
  <2> QED BY <2>1, SameIsKept DEF Kept, KeptCfg
<1> HIDE DEF freed
<1>2. base \in Progress
  BY <1>1 DEF Progress
<1>3. todo \in Seq(Accounts)
  <2>1. Among(AccountOrder, p.move) \in Seq(Accounts \cap p.move)
    BY BindingAssumption, AmongType
  <2>2. Among(AccountOrder, p.fill) \in Seq(Accounts \cap p.fill)
    BY BindingAssumption, AmongType
  <2>3. Among(AccountOrder, p.move) \in Seq(Accounts) /\ Among(AccountOrder, p.fill) \in Seq(Accounts)
    BY <2>1, <2>2
  <2> QED BY <2>3
<1>4. Reconciled(c, p) = [g[n] EXCEPT !.c = Gc(g[n].c)]
  BY DEF Reconciled, freed
<1> HIDE DEF base, todo
<1>5. g = [i \in 0 .. Len(todo) |-> IF i = 0 THEN base ELSE Rebind(p, g[i - 1], todo[i])]
  <2>1. \E f : f = [i \in 0 .. Len(todo) |-> IF i = 0 THEN base ELSE Rebind(p, f[i - 1], todo[i])]
    BY <1>2, <1>3, RebindLoop
  <2> QED BY <2>1, Zenon
<1> HIDE DEF g
<1>6. n \in Nat /\ g[0] \in Progress
  BY <1>2, <1>3, <1>5
<1>7. ASSUME NEW i \in 1 .. n, g[i - 1] \in Progress PROVE g[i] \in Progress
  <2>1. g[i] = Rebind(p, g[i - 1], todo[i]) /\ todo[i] \in Accounts
    BY <1>3, <1>5, <1>6
  <2> QED BY <1>7, <2>1, RebindKeeps
<1> HIDE DEF n
<1>8. g[n] \in Progress
  <2>1. \A i \in 0 .. n : g[i] \in Progress
    BY <1>6, <1>7, LoopType
  <2> QED BY <1>6, <2>1
<1>9. Kept(g[n].c)
  BY <1>8 DEF Progress, KeptCfg, Kept
<1>10. Reconciled(c, p).c = Gc(g[n].c)
  BY <1>4, <1>8 DEF Progress
<1> QED BY <1>9, <1>10, GcKeeps

-----------------------------------------------------------------------------
(* The invariant.                                                          *)

\* The status of nodes may change, as long as none goes or comes back: what was valid remains so.
LEMMA StatusKeepsSound ==
  ASSUME NEW c, Sound(c), NEW st \in [Nodes -> {"ok", "fail", "unknown", "gone"}],
         \A n \in Nodes : c.status[n] = "gone" => st[n] = "gone",
         \A n \in Nodes : st[n] = "gone" => c.status[n] = "gone"
  PROVE  Sound([c EXCEPT !.status = st])
<1> DEFINE d == [c EXCEPT !.status = st]
<1>1. /\ d \in Configs /\ d.port = c.port /\ d.proxy = c.proxy /\ d.bound = c.bound
      /\ d.apiPort = c.apiPort /\ d.status = st /\ d.left = c.left
  BY DEF Sound, Configs
<1> HIDE DEF d
<1>2. Present(d) = Present(c) /\ Ported(d) = Ported(c)
  BY <1>1 DEF Present, Ported
<1>3. Valid(d)
  BY <1>1, <1>2 DEF Sound, Valid
<1>4. ProxiesFollow(d)
  BY <1>1, <1>2 DEF Sound, ProxiesFollow
<1> QED BY <1>1, <1>3, <1>4 DEF Sound, d

LEMMA UpdateKeeps ==
  ASSUME Sound(cfg), NEW c, Kept(c)
  PROVE  Sound(Update(c))
BY DEF Sound, Kept, Update

Plans == [un : SUBSET Accounts, move : SUBSET Accounts, fill : SUBSET Accounts,
          cands : Seq(Nodes), counts : [Nodes -> Nat]]

\* Results of probes that may be stored at any later moment.
Results == UNION {[t -> BOOLEAN] : t \in SUBSET Nodes}

CountersOK ==
  /\ streak \in [Nodes -> 0 .. FailThreshold] /\ real \in [Nodes -> 0 .. FailThreshold]
  /\ index \subseteq Nodes /\ marked \subseteq Nodes

\* The watcher holds a plan when it commits one, and the accounts it would move off a
\* node have not been moved since it looked.
WatchOK ==
  /\ watch \in [pc : {"idle", "store", "count", "plan", "commit", "reset"},
                probes : Results, plan : Plans \union {NoPlan}]
  /\ watch.pc = "commit" => watch.plan \in Plans
  /\ watch.plan.move \intersect cfg.cooling = {}

AdminOK ==
  /\ admin \in [pc : {"idle", "reset", "apply", "assign", "store", "count"},
                list : Seq(Nodes), probes : Results]
  /\ admin.pc = "assign" => admin.list # <<>>

BindingInv == Sound(cfg) /\ CountersOK /\ WatchOK /\ AdminOK

LEMMA PlanType ==
  ASSUME NEW c \in Configs
  PROVE  Plan(c) \in Plans /\ Plan(c).move \intersect c.cooling = {}
<1> DEFINE cands == Candidates(c)
<1>1. cands \in Seq(Nodes)
  <2>1. /\ Among(NodeOrder, {n \in Nodes : c.status[n] = "ok"}) \in Seq(Nodes \cap {n \in Nodes : c.status[n] = "ok"})
        /\ Among(NodeOrder, {n \in Nodes : c.status[n] = "unknown"}) \in Seq(Nodes \cap {n \in Nodes : c.status[n] = "unknown"})
    BY BindingAssumption, AmongType
  <2>2. /\ Among(NodeOrder, {n \in Nodes : c.status[n] = "ok"}) \in Seq(Nodes)
        /\ Among(NodeOrder, {n \in Nodes : c.status[n] = "unknown"}) \in Seq(Nodes)
    BY <2>1
  <2> QED BY <2>2 DEF Candidates
<1>2. BoundCounts(c) \in [Nodes -> Nat]
  <2>1. IsFiniteSet(Accounts)
    BY BindingAssumption, RangeFinite DEF Accounts
  <2>2. ASSUME NEW n \in Nodes
        PROVE  Cardinality({a \in Accounts \ c.disabled : c.bound[a] = n}) \in Nat
    BY <2>1, FS_Subset, FS_CardinalityType
  <2> QED BY <2>2 DEF BoundCounts
<1>3. Surplus(c) \subseteq Accounts
  BY DEF Surplus, Configs
<1> HIDE DEF cands
<1>4. Plan(c) = [un |-> Surplus(c),
       move |-> {a \in Accounts : cands # <<>> /\ Movable(c, a)},
       fill |-> {a \in Accounts : cands # <<>> /\ Bare(c, a)},
       cands |-> cands, counts |-> BoundCounts(c)]
  BY DEF Plan, cands
<1>5. \A a \in Accounts : Movable(c, a) => a \notin c.cooling
  BY DEF Movable
<1> QED BY <1>1, <1>2, <1>3, <1>4, <1>5 DEF Plans

LEMMA Nothing == <<>> \in Results
<1>1. <<>> \in [{} -> BOOLEAN]
  OBVIOUS
<1> QED BY <1>1 DEF Results

LEMMA InitHolds ==
  ASSUME BindingInit
  PROVE  BindingInv
<1>1. Sound(cfg)
  BY StartsAssumption DEF BindingInit
<1>2. CountersOK
  BY BindingAssumption DEF BindingInit, CountersOK, Ported
<1>3. WatchOK
  BY Nothing DEF BindingInit, WatchOK, NoPlan
<1>4. AdminOK
  BY Nothing DEF BindingInit, AdminOK
<1> QED BY <1>1, <1>2, <1>3, <1>4 DEF BindingInv

\* What is stored may change while the watcher holds a plan, as long as nobody's cooldown begins.
LEMMA PlanWaits ==
  ASSUME WatchOK, watch' = watch, cfg'.cooling \subseteq cfg.cooling
  PROVE  WatchOK'
<1>1. watch.plan.move \intersect cfg'.cooling = {}
  BY DEF WatchOK
<1> QED BY <1>1 DEF WatchOK

\* What is reported of a request, probed or forgotten leaves the counters in their range.
LEMMA ProbesCount ==
  ASSUME CountersOK, NEW r \in Results, CountProbes(r), index' = index
  PROVE  CountersOK'
<1>1. DOMAIN r \subseteq Nodes
  BY DEF Results
<1>2. \A n \in Nodes : Failed(streak, n) \in 0 .. FailThreshold
  BY BindingAssumption DEF CountersOK, Failed
<1>3. FailThreshold \in Nat
  BY BindingAssumption
<1>4. streak' \in [Nodes -> 0 .. FailThreshold]
  <2> HIDE DEF Failed
  <2> QED BY <1>2, <1>3 DEF CountProbes, CountersOK
<1>5. real' \in [Nodes -> 0 .. FailThreshold]
  BY <1>3 DEF CountProbes, CountersOK
<1> QED BY <1>4, <1>5 DEF CountProbes, CountersOK

LEMMA IndexCounts ==
  ASSUME CountersOK, RebuildIndex, streak' = streak
  PROVE  CountersOK'
BY BindingAssumption DEF CountersOK, RebuildIndex, Ported

\* The results of probes are stored: no node comes back by it.
LEMMA ProbesStored ==
  ASSUME Sound(cfg), NEW r \in Results, StoreProbes(r)
  PROVE  Sound(cfg)' /\ cfg'.cooling = cfg.cooling
<1> DEFINE st == [n \in Nodes |->
            IF n \notin DOMAIN r \/ cfg.status[n] = "gone" THEN cfg.status[n]
            ELSE IF r[n] THEN "ok" ELSE "fail"]
<1>1. cfg' = [cfg EXCEPT !.status = st]
  BY DEF StoreProbes
<1>2. st \in [Nodes -> {"ok", "fail", "unknown", "gone"}]
  BY DEF Sound, Configs
<1>3. \A n \in Nodes : /\ cfg.status[n] = "gone" => st[n] = "gone"
                       /\ st[n] = "gone" => cfg.status[n] = "gone"
  OBVIOUS
<1> HIDE DEF st
<1>4. Sound([cfg EXCEPT !.status = st])
  BY <1>2, <1>3, StatusKeepsSound
<1>5. cfg'.cooling = cfg.cooling
  BY <1>1 DEF Sound, Configs
<1> QED BY <1>1, <1>4, <1>5

\* The watcher goes on.
LEMMA WatcherKeeps ==
  ASSUME BindingInv, WatcherReads
  PROVE  BindingInv'
<1> USE DEF BindingInv
<1>1. CASE Tick
  <2>1. cfg' = cfg /\ admin' = admin /\ UNCHANGED <<health, index>>
    BY <1>1 DEF Tick
  <2>2. PICK t \in SweepTargets(cfg) :
          watch' = IF ~cfg.auto THEN watch
                   ELSE IF t = {} THEN [watch EXCEPT !.pc = "plan"]
                   ELSE [watch EXCEPT !.pc = "store", !.probes = Probed(t)]
    BY <1>1 DEF Tick
  <2>3. t \subseteq Nodes
    BY <2>2 DEF SweepTargets, Present
  <2>4. Probed(t) \in Results
    BY <2>3 DEF Probed, Results
  <2>5. WatchOK'
    <3> HIDE DEF Probed
    <3> QED BY <2>1, <2>2, <2>4 DEF WatchOK
  <2> QED BY <2>1, <2>5 DEF CountersOK, AdminOK, health
<1>2. CASE WatchStore
  <2>1. watch.probes \in Results /\ StoreProbes(watch.probes)
    BY <1>2 DEF WatchStore, WatchOK
  <2>2. Sound(cfg)' /\ cfg'.cooling = cfg.cooling
    BY <2>1, ProbesStored
  <2>3. WatchOK'
    BY <1>2, <2>2 DEF WatchStore, WatchOK
  <2> QED BY <1>2, <2>2, <2>3 DEF WatchStore, CountersOK, AdminOK, health
<1>3. CASE WatchCount
  <2>1. watch.probes \in Results /\ CountProbes(watch.probes) /\ index' = index
    BY <1>3 DEF WatchCount, WatchOK
  <2>2. CountersOK'
    BY <2>1, ProbesCount
  <2>3. WatchOK'
    BY <1>3, Nothing DEF WatchCount, WatchOK
  <2> QED BY <1>3, <2>2, <2>3 DEF WatchCount, AdminOK
<1>4. CASE Woken
  BY <1>4 DEF Woken, CountersOK, WatchOK, AdminOK, health
<1>5. CASE WatchPlan
  <2>1. Plan(cfg) \in Plans /\ Plan(cfg).move \intersect cfg.cooling = {}
    BY PlanType DEF Sound
  <2>2. /\ watch' = IF cfg.auto /\ Plan(cfg).un \union Plan(cfg).move \union Plan(cfg).fill # {}
                    THEN [watch EXCEPT !.pc = "commit", !.plan = Plan(cfg)]
                    ELSE [watch EXCEPT !.pc = "idle"]
        /\ cfg' = cfg /\ admin' = admin /\ UNCHANGED <<health, index>>
    BY <1>5 DEF WatchPlan
  <2>3. WatchOK'
    BY <2>1, <2>2 DEF WatchOK
  <2> QED BY <2>2, <2>3 DEF CountersOK, AdminOK, health
<1>6. CASE WatchReset
  <2>1. CountersOK'
    BY <1>6, IndexCounts DEF WatchReset
  <2> QED BY <1>6, <2>1 DEF WatchReset, WatchOK, AdminOK
<1> QED BY <1>1, <1>2, <1>3, <1>4, <1>5, <1>6 DEF WatcherReads

\* The watcher commits its plan.
LEMMA CommitKeeps ==
  ASSUME BindingInv, WatchCommit
  PROVE  BindingInv'
<1> USE DEF BindingInv
<1> DEFINE s == Reconciled(cfg, watch.plan)
<1>1. watch.plan \in Plans
  BY DEF WatchCommit, WatchOK
<1>2. Kept(s.c)
  BY <1>1, ReconciledKeeps DEF Sound, Kept, Plans
<1> HIDE DEF s
<1>3. /\ cfg' = IF ~s.failed /\ Valid(s.c) THEN s.c ELSE cfg
      /\ watch' = [watch EXCEPT !.pc = IF ~s.failed /\ Valid(s.c) THEN "reset" ELSE "idle", !.plan = NoPlan]
      /\ admin' = admin /\ UNCHANGED <<health, index>>
  BY DEF WatchCommit, s
<1>4. Sound(cfg)'
  BY <1>2, <1>3 DEF Kept, Sound
<1>5. WatchOK'
  <2>1. watch'.plan = NoPlan /\ watch'.pc \in {"reset", "idle"} /\ watch'.probes \in Results
    BY <1>3 DEF WatchOK
  <2>2. watch' \in [pc : {"idle", "store", "count", "plan", "commit", "reset"},
                probes : Results, plan : Plans \union {NoPlan}]
    BY <1>3 DEF WatchOK
  <2>3. NoPlan.move = {}
    BY DEF NoPlan
  <2> QED BY <2>1, <2>2, <2>3 DEF WatchOK
<1> QED BY <1>3, <1>4, <1>5 DEF CountersOK, AdminOK, health

\* Requests report, and mark nodes.
LEMMA TrafficKeeps ==
  ASSUME BindingInv, Traffic \/ Marking
  PROVE  BindingInv'
<1> USE DEF BindingInv
<1>1. CASE Traffic
  <2>1. PICK n \in Nodes : ReportSuccess(n) \/ ReportFailure(n)
    BY <1>1 DEF Traffic
  <2>2. cfg' = cfg /\ watch' = watch /\ admin' = admin /\ UNCHANGED <<streak, index>>
    BY <2>1 DEF ReportSuccess, ReportFailure
  <2>3. real' \in [Nodes -> 0 .. FailThreshold] /\ marked' \subseteq Nodes
    <3>1. FailThreshold \in Nat
      BY BindingAssumption
    <3>2. CASE ReportSuccess(n)
      BY <3>1, <3>2 DEF ReportSuccess, CountersOK
    <3>3. CASE ReportFailure(n)
      <4> DEFINE k == IF real[n] < FailThreshold THEN real[n] + 1 ELSE real[n]
      <4>1. k \in 0 .. FailThreshold
        BY <3>1 DEF CountersOK
      <4> HIDE DEF k
      <4>2. real' = [real EXCEPT ![n] = k] /\ marked' \subseteq marked \union {n}
        BY <3>3 DEF ReportFailure, k
      <4> QED BY <4>1, <4>2 DEF CountersOK
    <3> QED BY <2>1, <3>2, <3>3
  <2> QED BY <2>2, <2>3 DEF CountersOK, WatchOK, AdminOK
<1>2. CASE Marking
  <2>1. PICK n \in Nodes : MarkStored(n) \/ MarkSignalled(n)
    BY <1>2 DEF Marking
  <2>2. CASE MarkStored(n)
    <3>1. Sound(cfg)' /\ cfg'.cooling = cfg.cooling
      <4>1. CASE n \in Present(cfg)
        <5> DEFINE st == [cfg.status EXCEPT ![n] = "fail"]
        <5>1. /\ st \in [Nodes -> {"ok", "fail", "unknown", "gone"}]
              /\ \A m \in Nodes : cfg.status[m] = "gone" => st[m] = "gone"
              /\ \A m \in Nodes : st[m] = "gone" => cfg.status[m] = "gone"
          BY <4>1 DEF Sound, Configs, Present
        <5>2. cfg' = [cfg EXCEPT !.status = st]
          BY <2>2, <4>1 DEF MarkStored, Sound, Configs
        <5> HIDE DEF st
        <5>3. Sound([cfg EXCEPT !.status = st])
          BY <5>1, StatusKeepsSound
        <5> QED BY <5>2, <5>3 DEF Sound, Configs
      <4>2. CASE n \notin Present(cfg)
        BY <2>2, <4>2 DEF MarkStored
      <4> QED BY <4>1, <4>2
    <3> QED BY <2>2, <3>1, PlanWaits DEF MarkStored, CountersOK, AdminOK, health
  <2>3. CASE MarkSignalled(n)
    BY <2>3, BindingAssumption DEF MarkSignalled, CountersOK, WatchOK, AdminOK
  <2> QED BY <2>1, <2>2, <2>3
<1> QED BY <1>1, <1>2

\* An edit: whatever passes the validation is sound.
LEMMA EditKeeps ==
  ASSUME BindingInv, NEW c, Kept(c), c.cooling \subseteq cfg.cooling,
         NEW then \in {"reset", "apply", "idle"}, Edit(c, then)
  PROVE  BindingInv'
<1> USE DEF BindingInv
<1>1. /\ cfg' = Update(c) /\ watch' = watch /\ UNCHANGED <<health, index>>
      /\ admin' = [admin EXCEPT !.pc = IF Valid(c) THEN then ELSE "idle"]
  BY DEF Edit
<1>2. Sound(cfg)'
  BY <1>1, UpdateKeeps
<1>3. cfg'.cooling \subseteq cfg.cooling
  BY <1>1 DEF Update
<1>4. WatchOK'
  BY <1>1, <1>3, PlanWaits
<1>5. AdminOK'
  BY <1>1 DEF AdminOK
<1> QED BY <1>1, <1>2, <1>4, <1>5 DEF CountersOK, health

\* Binding an account keeps what the transactions keep; so does unbinding it.
LEMMA BoundKeeps ==
  ASSUME Sound(cfg), NEW a \in Accounts, NEW n \in Present(cfg)
  PROVE  Kept(Bound(cfg, a, n)) /\ Bound(cfg, a, n).cooling \subseteq cfg.cooling
<1> DEFINE b == Assign(cfg, a, n)
           d == [b EXCEPT !.cooling = @ \ {a}, !.noProxy = @ \ {a}]
<1>1. Kept(b) /\ b.cooling = cfg.cooling
  BY AssignKeeps DEF Sound, Kept
<1>2. Bound(cfg, a, n) = Gc(d)
  BY DEF Bound
<1> HIDE DEF b
<1>3. Kept(d) /\ d.cooling \subseteq cfg.cooling
  <2>1. /\ d \in Configs /\ d.port = b.port /\ d.proxy = b.proxy /\ d.cooling \subseteq cfg.cooling
        /\ d.left = b.left /\ d.status = b.status
    BY <1>1 DEF Kept, Configs
  <2> HIDE DEF d
  <2> QED BY <1>1, <2>1, SameIsKept
<1> HIDE DEF d
<1> QED BY <1>2, <1>3, GcKeeps

LEMMA UnboundKeeps ==
  ASSUME Sound(cfg), NEW a \in Accounts
  PROVE  Kept(Unbound(cfg, a)) /\ Unbound(cfg, a).cooling \subseteq cfg.cooling
<1> DEFINE d == [cfg EXCEPT !.bound[a] = NoNode, !.cooling = @ \ {a}, !.noProxy = @ \union {a}]
<1>1. /\ d \in Configs /\ d.port = cfg.port /\ d.proxy = cfg.proxy /\ d.cooling \subseteq cfg.cooling
      /\ d.left = cfg.left /\ d.status = cfg.status
  BY DEF Sound, Configs
<1>2. Unbound(cfg, a) = Gc(d)
  BY DEF Unbound
<1> HIDE DEF d
<1>3. Kept(d)
  BY <1>1, SameIsKept DEF Sound, Kept
<1> QED BY <1>1, <1>2, <1>3, GcKeeps

\* Nodes that go are noted.
LEMMA LeaveKeeps ==
  ASSUME NEW c, Kept(c), NEW gone
  PROVE  Kept(Leave(c, gone)) /\ Leave(c, gone).cooling = c.cooling
<1> DEFINE d == Leave(c, gone)
<1>1. /\ d \in Configs /\ d.port = c.port /\ d.proxy = c.proxy /\ d.cooling = c.cooling
      /\ d.left = c.left \union (gone \intersect Present(c))
      /\ d.status = [n \in Nodes |-> IF n \in gone THEN "gone" ELSE c.status[n]]
  BY DEF Leave, Kept, Configs, Present
<1> HIDE DEF d
<1>2. Present(d) = Present(c) \ gone /\ Ported(d) = Ported(c)
  BY <1>1 DEF Present, Ported
<1>3. ProxiesFollow(d)
  BY <1>1, <1>2 DEF Kept, ProxiesFollow
<1> QED BY <1>1, <1>3 DEF Kept, d

LEMMA RefreshKeeps ==
  ASSUME BindingInv, NEW s \in Subs, NEW kept, RefreshSubscription(s, kept)
  PROVE  BindingInv'
<1> DEFINE mine == {n \in Nodes : SubOf[n] = s}
           b == Leave(cfg, mine \ kept)
           d == [b EXCEPT
                  !.status = [n \in Nodes |-> IF n \in mine \intersect kept THEN "unknown" ELSE @[n]]]
<1>0. Kept(b) /\ b.cooling = cfg.cooling
  BY LeaveKeeps DEF BindingInv, Sound, Kept
<1>2. Edit(Gc(d), "reset")
  BY DEF RefreshSubscription
<1> HIDE DEF b
<1>1. /\ d \in Configs /\ d.port = b.port /\ d.proxy = b.proxy /\ d.cooling = cfg.cooling
      /\ d.left = b.left /\ Present(b) \subseteq Present(d)
  BY <1>0 DEF Kept, Configs, Present
<1> HIDE DEF d
<1>3. Kept(d)
  BY <1>0, <1>1, SameIsKept
<1>4. Kept(Gc(d)) /\ Gc(d).cooling \subseteq cfg.cooling
  BY <1>1, <1>3, GcKeeps
<1> QED BY <1>2, <1>4, EditKeeps

LEMMA DeleteSubKeeps ==
  ASSUME BindingInv, NEW s \in Subs, DeleteSubscription(s)
  PROVE  BindingInv'
<1> DEFINE lost == {n \in Ported(cfg) : SubOf[n] = s}
           b == Leave(cfg, {n \in Nodes : SubOf[n] = s})
           d == [b EXCEPT
                !.sub[s] = "deleted",
                !.bound = [a \in Accounts |-> IF cfg.bound[a] \in lost THEN NoNode ELSE cfg.bound[a]]]
<1>0. Kept(b) /\ b.cooling = cfg.cooling
  BY LeaveKeeps DEF BindingInv, Sound, Kept
<1>2. Edit(Gc(d), "reset")
  BY DEF DeleteSubscription
<1> HIDE DEF b
<1>1. /\ d \in Configs /\ d.port = b.port /\ d.proxy = b.proxy /\ d.cooling = cfg.cooling
      /\ d.left = b.left /\ d.status = b.status
  BY <1>0 DEF BindingInv, Sound, Kept, Configs
<1> HIDE DEF d
<1>3. Kept(d)
  BY <1>0, <1>1, SameIsKept
<1>4. Kept(Gc(d)) /\ Gc(d).cooling \subseteq cfg.cooling
  BY <1>1, <1>3, GcKeeps
<1> QED BY <1>2, <1>4, EditKeeps

LEMMA AddSubKeeps ==
  ASSUME BindingInv, NEW s \in Subs, NEW nodes, AddSubscription(s, nodes)
  PROVE  BindingInv'
<1> DEFINE d == [cfg EXCEPT !.sub[s] = "live",
             !.status = [n \in Nodes |-> IF n \in nodes THEN "unknown" ELSE cfg.status[n]]]
<1>1. /\ d \in Configs /\ d.port = cfg.port /\ d.proxy = cfg.proxy /\ d.cooling = cfg.cooling
      /\ d.left = cfg.left /\ Present(cfg) \subseteq Present(d)
  BY DEF BindingInv, Sound, Configs, Present
<1>2. Edit(d, "apply")
  BY DEF AddSubscription
<1> HIDE DEF d
<1>3. Kept(d)
  BY <1>1, SameIsKept DEF BindingInv, Sound, Kept
<1> QED BY <1>1, <1>2, <1>3, EditKeeps

LEMMA SettingsKeep ==
  ASSUME BindingInv, NEW auto \in BOOLEAN, NEW port \in ApiPorts, NEW excluded,
         UpdateSettings(auto, port, excluded)
  PROVE  BindingInv'
<1> DEFINE b == Leave(cfg, excluded)
           d == [b EXCEPT !.auto = auto, !.apiPort = port]
           e == IF excluded = {} THEN d ELSE Gc(d)
<1>0. Kept(b) /\ b.cooling = cfg.cooling
  BY LeaveKeeps DEF BindingInv, Sound, Kept
<1>2. Edit(e, "apply")
  BY DEF UpdateSettings
<1> HIDE DEF b
<1>1. /\ d \in Configs /\ d.port = b.port /\ d.proxy = b.proxy /\ d.cooling = cfg.cooling
      /\ d.left = b.left /\ d.status = b.status
  BY <1>0 DEF Kept, Configs
<1> HIDE DEF d
<1>3. Kept(d)
  BY <1>0, <1>1, SameIsKept
<1>4. Kept(e) /\ e.cooling \subseteq cfg.cooling
  BY <1>1, <1>3, GcKeeps
<1> HIDE DEF e
<1> QED BY <1>2, <1>4, EditKeeps

\* The proxies page.
LEMMA ProxyPageKeeps ==
  ASSUME BindingInv, NEW n \in Nodes \union {NoNode},
         (\E a \in Accounts : AccountProxy(a, n)) \/ (n \in Nodes /\ DeleteProxy(n))
  PROVE  BindingInv'
<1>1. ASSUME NEW a \in Accounts, AccountProxy(a, n) PROVE BindingInv'
  <2> DEFINE d == [cfg EXCEPT !.bound[a] = n,
             !.noProxy = IF n = NoNode THEN @ \union {a} ELSE @ \ {a}]
  <2>1. /\ d \in Configs /\ d.port = cfg.port /\ d.proxy = cfg.proxy /\ d.cooling = cfg.cooling
        /\ d.left = cfg.left /\ d.status = cfg.status
    BY DEF BindingInv, Sound, Configs
  <2>2. Edit(d, "idle")
    BY <1>1 DEF AccountProxy
  <2> HIDE DEF d
  <2>3. Kept(d)
    BY <2>1, SameIsKept DEF BindingInv, Sound, Kept
  <2> QED BY <2>1, <2>2, <2>3, EditKeeps
<1>2. CASE n \in Nodes /\ DeleteProxy(n)
  <2> DEFINE d == [cfg EXCEPT !.proxy[n] = 0,
             !.bound = [x \in Accounts |-> IF cfg.bound[x] = n THEN NoNode ELSE cfg.bound[x]]]
  <2>1. /\ d \in Configs /\ d.port = cfg.port /\ d.proxy = [cfg.proxy EXCEPT ![n] = 0]
        /\ d.cooling = cfg.cooling /\ d.left = cfg.left /\ d.status = cfg.status
    <3>1. cfg.proxy \in [Nodes -> 0 .. MaxPort] /\ MaxPort \in Nat
      BY NodesFinite DEF BindingInv, Sound, Configs, MaxPort
    <3>2. [cfg.proxy EXCEPT ![n] = 0] \in [Nodes -> 0 .. MaxPort]
      BY <1>2, <3>1
    <3>3. [x \in Accounts |-> IF cfg.bound[x] = n THEN NoNode ELSE cfg.bound[x]]
            \in [Accounts -> Nodes \union {NoNode}]
      BY DEF BindingInv, Sound, Configs
    <3> QED BY <3>2, <3>3 DEF BindingInv, Sound, Configs, MaxPort
  <2>2. Edit(d, "idle")
    BY <1>2 DEF DeleteProxy
  <2> HIDE DEF d
  <2>3. Kept(d)
    BY <2>1 DEF BindingInv, Sound, Kept, ProxiesFollow, Ported, Present, Configs
  <2> QED BY <2>1, <2>2, <2>3, EditKeeps
<1> QED BY <1>1, <1>2

\* The administrator goes on with what takes several steps.
LEMMA AdminKeeps ==
  ASSUME BindingInv, AdminGoesOn
  PROVE  BindingInv'
<1> USE DEF BindingInv
<1>1. CASE AdminReset
  <2>1. cfg' = cfg /\ watch' = watch /\ streak' = streak
    BY <1>1 DEF AdminReset
  <2>2. CountersOK'
    <3>1. CASE RebuildIndex
      BY <2>1, <3>1, IndexCounts
    <3>2. CASE UNCHANGED <<index, real, marked>>
      BY <2>1, <3>2 DEF CountersOK
    <3> QED BY <1>1, <3>1, <3>2 DEF AdminReset
  <2> QED BY <1>1, <2>1, <2>2 DEF AdminReset, WatchOK, AdminOK
<1>2. CASE AssignAccounts
  <2> DEFINE c == Dealt(cfg, admin.list)
             done == Range(admin.list) \subseteq Present(cfg) /\ Valid(c)
  <2>1. admin.list \in Seq(Nodes) /\ admin.list # <<>>
    BY <1>2 DEF AssignAccounts, AdminOK
  <2>2. Range(admin.list) \subseteq Present(cfg) => Kept(c) /\ c.cooling \subseteq cfg.cooling
    BY <2>1, DealtKeeps DEF Sound, Kept
  <2>3. /\ cfg' = IF done THEN c ELSE cfg
        /\ admin' = [admin EXCEPT !.pc = IF done THEN "reset" ELSE "idle", !.list = <<>>]
        /\ watch' = watch /\ UNCHANGED <<health, index>>
    BY <1>2 DEF AssignAccounts
  <2>4. done => Valid(c) /\ Kept(c) /\ c.cooling \subseteq cfg.cooling
    BY <2>2
  <2> HIDE DEF c, done
  <2>5. Sound(cfg)' /\ cfg'.cooling \subseteq cfg.cooling
    BY <2>3, <2>4 DEF Kept, Sound
  <2>6. AdminOK'
    <3>1. PICK pc \in {"reset", "idle"} : admin' = [admin EXCEPT !.pc = pc, !.list = <<>>]
      BY <2>3
    <3>2. <<>> \in Seq(Nodes)
      OBVIOUS
    <3>3. admin' \in [pc : {"idle", "reset", "apply", "assign", "store", "count"},
                      list : Seq(Nodes), probes : Results]
      BY <3>1, <3>2 DEF AdminOK
    <3>4. admin'.pc \in {"reset", "idle"}
      BY <3>1 DEF AdminOK
    <3> QED BY <3>3, <3>4 DEF AdminOK
  <2> QED BY <2>3, <2>5, <2>6, PlanWaits DEF CountersOK, health
<1>3. CASE TestStore
  <2>1. admin.probes \in Results /\ StoreProbes(admin.probes)
    BY <1>3 DEF TestStore, AdminOK
  <2>2. Sound(cfg)' /\ cfg'.cooling = cfg.cooling
    BY <2>1, ProbesStored
  <2>3. WatchOK'
    BY <1>3, <2>2, PlanWaits DEF TestStore
  <2> QED BY <1>3, <2>2, <2>3 DEF TestStore, CountersOK, AdminOK, health
<1>4. CASE TestCount
  <2>1. admin.probes \in Results /\ CountProbes(admin.probes) /\ index' = index
    BY <1>4 DEF TestCount, AdminOK
  <2>2. CountersOK'
    BY <2>1, ProbesCount
  <2> QED BY <1>4, <2>2, Nothing DEF TestCount, WatchOK, AdminOK
<1> QED BY <1>1, <1>2, <1>3, <1>4 DEF AdminGoesOn

LEMMA ToggleKeeps ==
  ASSUME BindingInv, NEW a \in Accounts, ToggleAccount(a)
  PROVE  BindingInv'
<1> USE DEF BindingInv
<1>1. /\ cfg' \in Configs /\ cfg'.port = cfg.port /\ cfg'.proxy = cfg.proxy /\ cfg'.bound = cfg.bound
      /\ cfg'.apiPort = cfg.apiPort /\ cfg'.status = cfg.status /\ cfg'.cooling = cfg.cooling
      /\ cfg'.left = cfg.left
  BY DEF ToggleAccount, Sound, Configs
<1>2. Sound(cfg)'
  BY <1>1 DEF Sound, Valid, ProxiesFollow, Ported, Present
<1> QED BY <1>1, <1>2, PlanWaits DEF ToggleAccount, CountersOK, AdminOK, health

LEMMA AdminBeginKeeps ==
  ASSUME BindingInv, AdminBegins
  PROVE  BindingInv'
<1> USE DEF BindingInv
<1>1. ASSUME NEW a \in Accounts, UnbindAccount(a) PROVE BindingInv'
  BY <1>1, UnboundKeeps, EditKeeps DEF UnbindAccount
<1>2. ASSUME NEW a \in Accounts, ToggleAccount(a) PROVE BindingInv'
  BY <1>2, ToggleKeeps
<1>3. ASSUME NEW a \in Accounts, NEW n \in Nodes \union {NoNode}, AccountProxy(a, n) PROVE BindingInv'
  BY <1>3, ProxyPageKeeps
<1>4. ASSUME NEW a \in Accounts, NEW n \in Nodes, BindAccount(a, n) PROVE BindingInv'
  BY <1>4, BoundKeeps, EditKeeps DEF BindAccount
<1>5. ASSUME NEW s \in Subs, DeleteSubscription(s) PROVE BindingInv'
  BY <1>5, DeleteSubKeeps
<1>6. ASSUME NEW s \in Subs, NEW k, RefreshSubscription(s, k) PROVE BindingInv'
  BY <1>6, RefreshKeeps
<1>7. ASSUME NEW s \in Subs, NEW k, AddSubscription(s, k) PROVE BindingInv'
  BY <1>7, AddSubKeeps
<1>8. ASSUME NEW auto \in BOOLEAN, NEW port \in ApiPorts, NEW x, UpdateSettings(auto, port, x) PROVE BindingInv'
  BY <1>8, SettingsKeep
<1>9. ASSUME NEW n \in Nodes, DeleteProxy(n) PROVE BindingInv'
  BY <1>9, ProxyPageKeeps
<1>10. ASSUME NEW w \in SUBSET Nodes, AssignAsk(w) PROVE BindingInv'
  <2> DEFINE list == Among(NodeOrder, {n \in w : cfg.status[n] # "fail"})
  <2>1. list \in Seq(Nodes)
    <3>1. list \in Seq(Nodes \cap {n \in w : cfg.status[n] # "fail"})
      BY BindingAssumption, AmongType
    <3> HIDE DEF list
    <3> QED BY <3>1
  <2>2. /\ UNCHANGED <<cfg, health, index, watch>>
        /\ admin' = IF list = <<>> THEN admin ELSE [admin EXCEPT !.pc = "assign", !.list = list]
    BY <1>10 DEF AssignAsk
  <2> HIDE DEF list
  <2> QED BY <2>1, <2>2 DEF CountersOK, WatchOK, AdminOK, health
<1>11. CASE TestLatency
  <2>1. Probed(Present(cfg)) \in Results
    <3>1. Present(cfg) \in SUBSET Nodes /\ Probed(Present(cfg)) \in [Present(cfg) -> BOOLEAN]
      BY DEF Probed, Present
    <3> QED BY <3>1 DEF Results
  <2>2. /\ UNCHANGED <<cfg, health, index, watch>>
        /\ admin' = [admin EXCEPT !.pc = "store", !.probes = Probed(Present(cfg))]
    BY <1>11 DEF TestLatency
  <2>3. AdminOK'
    <3> HIDE DEF Probed
    <3> QED BY <2>1, <2>2 DEF AdminOK
  <2> QED BY <2>2, <2>3 DEF CountersOK, WatchOK, health
<1>12. CASE \E a \in Accounts : UnbindAccount(a) \/ ToggleAccount(a) \/ AccountProxy(a, NoNode)
  BY <1>1, <1>2, <1>3, <1>12
<1>13. CASE \E a \in Accounts, n \in Nodes : BindAccount(a, n) \/ AccountProxy(a, n)
  BY <1>3, <1>4, <1>13
<1>14. CASE \E s \in Subs : \/ DeleteSubscription(s)
                            \/ \E k \in SUBSET {n \in Nodes : SubOf[n] = s} :
                                 RefreshSubscription(s, k) \/ AddSubscription(s, k)
  BY <1>5, <1>6, <1>7, <1>14
<1>15. CASE \E auto \in BOOLEAN, port \in ApiPorts, x \in {{}} \union {{n} : n \in Nodes} :
               UpdateSettings(auto, port, x)
  BY <1>8, <1>15
<1> QED BY <1>9, <1>10, <1>11, <1>12, <1>13, <1>14, <1>15 DEF AdminBegins

LEMMA StepHolds ==
  ASSUME BindingInv, [BindingNext]_bindingVars
  PROVE  BindingInv'
<1>1. CASE Outage
  BY <1>1 DEF Outage, BindingInv, CountersOK, WatchOK, AdminOK, health
<1>2. ASSUME NEW a \in Accounts, CooldownEnds(a) PROVE BindingInv'
  <2>1. /\ cfg' \in Configs /\ cfg'.port = cfg.port /\ cfg'.proxy = cfg.proxy /\ cfg'.bound = cfg.bound
        /\ cfg'.apiPort = cfg.apiPort /\ cfg'.status = cfg.status /\ cfg'.cooling \subseteq cfg.cooling
        /\ cfg'.left = cfg.left
    BY <1>2 DEF CooldownEnds, BindingInv, Sound, Configs
  <2>2. Sound(cfg)'
    BY <2>1 DEF BindingInv, Sound, Valid, ProxiesFollow, Ported, Present
  <2> QED BY <1>2, <2>1, <2>2, PlanWaits DEF CooldownEnds, BindingInv, CountersOK, AdminOK, health
<1>3. ASSUME NEW n \in Nodes, MarkExpires(n) PROVE BindingInv'
  BY <1>3 DEF MarkExpires, BindingInv, CountersOK, WatchOK, AdminOK
<1>4. CASE UNCHANGED bindingVars
  BY <1>4 DEF bindingVars, BindingInv, CountersOK, WatchOK, AdminOK
<1> QED BY <1>1, <1>2, <1>3, <1>4, WatcherKeeps, CommitKeeps, TrafficKeeps, AdminKeeps, AdminBeginKeeps
        DEF BindingNext

THEOREM BindingInvariant == BindingSpec => []BindingInv
<1>1. BindingInit => BindingInv
  BY InitHolds
<1>2. BindingInv /\ [BindingNext]_bindingVars => BindingInv'
  BY StepHolds
<1> QED BY <1>1, <1>2, PTL DEF BindingSpec

\* BindingsSound: the configuration of the nodes stays one that can be validated and
\* edited, and an account dials the listener of the node it is bound to and of no other,
\* unless that node went since it was assigned, whatever edits, refreshes, probes and
\* failovers came before and however many.
THEOREM BindingsStaySound == BindingSpec => []BindingsSound
<1>1. BindingInv => BindingsSound
  <2> SUFFICES ASSUME BindingInv PROVE BindingsSound
    OBVIOUS
  <2>1. BindingTypeOK
    BY DEF BindingInv, Sound, CountersOK, BindingTypeOK
  <2>2. BindAlwaysPossible
    BY BoundIsValid DEF BindingInv, BindAlwaysPossible
  <2>3. ASSUME NEW a \in Accounts, cfg.bound[a] \notin cfg.left \union {NoNode}
        PROVE  /\ cfg.bound[a] \in Ported(cfg) \intersect Present(cfg)
               /\ \A m \in Ported(cfg) : cfg.port[m] = cfg.proxy[cfg.bound[a]] <=> m = cfg.bound[a]
    <3> DEFINE n == cfg.bound[a]
    <3>1. n \in Nodes \ cfg.left /\ cfg.proxy[n] > 0
      BY <2>3 DEF BindingInv, Sound, Valid, Configs
    <3> HIDE DEF n
    <3>2. n \in Present(cfg) /\ cfg.port[n] = cfg.proxy[n] /\ n \in Ported(cfg)
      BY <3>1 DEF BindingInv, Sound, ProxiesFollow, Ported
    <3>3. \A m \in Ported(cfg) : cfg.port[m] = cfg.proxy[n] <=> m = n
      BY <3>2 DEF BindingInv, Sound, ProxiesFollow
    <3> QED BY <3>2, <3>3 DEF n
  <2> QED BY <2>1, <2>2, <2>3 DEF BindingsSound, DialsItsNode
<1> QED BY <1>1, BindingInvariant, PTL

\* CoolingRests: failover leaves an account alone that is in its cooldown.
THEOREM CooldownIsKept == BindingSpec => CoolingRests
<1>1. BindingInv /\ [BindingNext]_bindingVars =>
        [WatchCommit => \A a \in watch.plan.move \intersect cfg.cooling : cfg'.bound[a] = cfg.bound[a]]_bindingVars
  BY DEF BindingInv, WatchOK
<1> QED BY <1>1, BindingInvariant, PTL DEF BindingSpec, CoolingRests
=============================================================================
