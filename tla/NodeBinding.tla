------------------------------ MODULE NodeBinding ------------------------------
(***************************************************************************)
(* The Mihomo bridge's bindings: which account leaves through which node   *)
(* of which subscription, on which local port (internal/mihomo: binding,   *)
(* health, autoassign, delaytest; internal/config/mihomo.go).  Every       *)
(* binding is a transaction of the configuration store; the watcher probes *)
(* nodes and plans on a snapshot, requests report failures from their own  *)
(* goroutines, the administrator edits at any moment.                      *)
(*                                                                         *)
(* The process behind the ports is BridgeProcess's matter; probes find the *)
(* control API reachable.                                                  *)
(***************************************************************************)
EXTENDS Integers, Sequences, FiniteSets, SequencesExt, Loops

CONSTANTS
  AccountOrder,  \* the accounts in the order of the configuration
  NodeOrder,     \* the nodes by latency, fastest first
  Subs, SubOf,   \* the subscriptions and the one each node belongs to
  NoNode,        \* what an account without one is bound to
  ApiPorts,      \* the ports an administrator may give the control API
  BasePort,      \* the first port given to a node
  Starts,        \* the stored configurations the program may be started with
  FailThreshold, \* DS2API_MIHOMO_FAIL_THRESHOLD
  ColdProbes,    \* coldProbePerTick
  MaxEdits,      \* bound: edits by the administrator and the elastic pool
  MaxOutages     \* bound: nodes that go down or come back

Accounts == Range(AccountOrder)
Nodes == Range(NodeOrder)

ASSUME BindingAssumption ==
  /\ AccountOrder \in Seq(Accounts) /\ NodeOrder \in Seq(Nodes)
  /\ SubOf \in [Nodes -> Subs] /\ NoNode \notin Nodes
  /\ ApiPorts \subseteq Nat \ {0} /\ BasePort \in Nat \ {0}
  /\ FailThreshold \in Nat \ {0} /\ Cardinality(Nodes) <= 16
  /\ {ColdProbes, MaxEdits, MaxOutages} \subseteq Nat

VARIABLES
  cfg,      \* the stored configuration, as far as nodes are concerned; auto: enabled and
            \* auto_bind; left: history, the nodes that went since they were last assigned
  up,       \* the nodes that work, in truth
  streak,   \* failStreak: probes in a row that failed
  real,     \* realFailStreak: requests in a row that failed
  marked,   \* realFailMarked within realFailResignalInterval
  marking,  \* markNodeFailByTraffic: the step each node's caller is at
  index,    \* proxyToNode: the nodes whose managed proxy can be looked up
  signal,   \* reconcileCh holds a token
  watch,    \* watcherLoop: its step, the probes it took, the plan it made
  admin,    \* an edit in several steps: its step and what it read
  edits, outages

bindingVars == <<cfg, up, streak, real, marked, marking, index, signal, watch, admin, edits, outages>>
health == <<streak, real, marked>>

NoPlan == [un |-> {}, move |-> {}, fill |-> {}, cands |-> <<>>, counts |-> <<>>]
-----------------------------------------------------------------------------
(* The configuration, and what the transactions are made of. *)

Present(c) == {n \in Nodes : c.status[n] # "gone"}
Ported(c) == {n \in Nodes : c.port[n] > 0}

\* Mutant: the ports of nodes that failed are collected too.
GcFailed(c) ==
  LET proxy == [n \in Nodes |-> IF n \in Range(c.bound) THEN c.proxy[n] ELSE 0]
  IN  [c EXCEPT !.proxy = proxy,
                !.bound = [a \in Accounts |->
                    IF c.bound[a] # NoNode /\ proxy[c.bound[a]] = 0 THEN NoNode ELSE c.bound[a]],
                !.port = [n \in Nodes |->
                    IF c.status[n] \notin {"gone", "fail"} /\ proxy[n] > 0 THEN c.port[n] ELSE 0]]

\* gcLocked: ports of vanished nodes, managed proxies nobody uses, bindings without a
\* proxy, ports without a proxy, in this order.
Gc(c) ==
  LET proxy == [n \in Nodes |-> IF n \in Range(c.bound) THEN c.proxy[n] ELSE 0]
  IN  [c EXCEPT !.proxy = proxy,
                !.bound = [a \in Accounts |->
                    IF c.bound[a] # NoNode /\ proxy[c.bound[a]] = 0 THEN NoNode ELSE c.bound[a]],
                !.port = [n \in Nodes |-> IF n \in Present(c) /\ proxy[n] > 0 THEN c.port[n] ELSE 0]]

\* Mutants: ports of vanished nodes are not given out again; the API's port is not left out.
AllocatePortUpwards(c, n) ==
  IF c.port[n] > 0 THEN c.port[n]
  ELSE LET used == Range(c.port) \union {c.apiPort}
       IN  (CHOOSE p \in used : \A q \in used : q <= p) + 1

AllocatePortOnApi(c, n) ==
  IF c.port[n] > 0 THEN c.port[n]
  ELSE LET used == Range(c.port)
           free == (BasePort..(BasePort + Cardinality(used))) \ used
       IN  CHOOSE p \in free : \A q \in free : p <= q

\* AllocateMihomoPort: the port it has, or the first one that is neither given nor the API's.
AllocatePort(c, n) ==
  IF c.port[n] > 0 THEN c.port[n]
  ELSE LET used == Range(c.port) \union {c.apiPort}
           free == (BasePort..(BasePort + Cardinality(used))) \ used
       IN  CHOOSE p \in free : \A q \in free : p <= q

\* Mutant: a managed proxy that exists is not updated.
AssignKeepsProxy(c, a, n) ==
  LET p == AllocatePort(c, n)
  IN  [c EXCEPT !.port[n] = p, !.proxy[n] = IF @ > 0 THEN @ ELSE p, !.bound[a] = n,
                !.left = @ \ {n}]

\* assignLocked, and the same lines of BindAccount and AssignAccounts.
Assign(c, a, n) ==
  LET p == AllocatePort(c, n)
  IN  [c EXCEPT !.port[n] = p, !.proxy[n] = p, !.bound[a] = n, !.left = @ \ {n}]

\* Nodes go: their subscription was fetched without them or deleted, or they were excluded.
Leave(c, gone) ==
  [c EXCEPT !.status = [n \in Nodes |-> IF n \in gone THEN "gone" ELSE c.status[n]],
            !.left = @ \union (gone \intersect Present(c))]

\* validateMutation: what is left of it for names that are well formed.  The API's port is
\* only compared within a window of 16 ports and one for each that is given: with no more
\* than 16 nodes every port lies in it.
Valid(c) ==
  /\ c.apiPort \notin {c.port[n] : n \in Ported(c)}
  /\ \A n, m \in Ported(c) \intersect Present(c) : c.port[n] = c.port[m] => n = m
  /\ \A a \in Accounts : c.bound[a] # NoNode => c.proxy[c.bound[a]] > 0

Configs ==
  [auto : BOOLEAN, apiPort : ApiPorts, sub : [Subs -> {"new", "live", "deleted"}],
   status : [Nodes -> {"ok", "fail", "unknown", "gone"}],
   port : [Nodes -> 0..(BasePort + Cardinality(Nodes))],
   proxy : [Nodes -> 0..(BasePort + Cardinality(Nodes))],
   bound : [Accounts -> Nodes \union {NoNode}],
   disabled : SUBSET Accounts, noProxy : SUBSET Accounts, cooling : SUBSET Accounts,
   left : SUBSET Nodes]

\* A managed proxy points at the port given to its node, and to no other, unless the node
\* has gone since it was assigned.
ProxiesFollow(c) ==
  /\ \A n \in Nodes \ c.left : c.proxy[n] > 0 => n \in Present(c) /\ c.port[n] = c.proxy[n]
  /\ \A n, m \in Ported(c) : c.port[n] = c.port[m] => n = m

\* A configuration that the program wrote, so one that it may find when it starts.
Sound(c) == c \in Configs /\ Valid(c) /\ ProxiesFollow(c)

ASSUME StartsAssumption == \A c \in Starts : Sound(c)

\* Store.Update: a transaction that fails leaves the configuration alone.
Update(c) == IF Valid(c) THEN c ELSE cfg

Bound(c, a, n) ==
  Gc([Assign(c, a, n) EXCEPT !.cooling = @ \ {a}, !.noProxy = @ \ {a}])
Unbound(c, a) ==
  Gc([c EXCEPT !.bound[a] = NoNode, !.cooling = @ \ {a}, !.noProxy = @ \union {a}])

\* The body of AssignAccounts: all managed bindings are undone, and the accounts that may
\* have a node are given the listed ones in turn.
InTurn(list, i) == list[((i - 1) % Len(list)) + 1]
DealtTo(c, a, n) == [Assign(c, a, n) EXCEPT !.cooling = @ \ {a}]
Dealt(c, list) ==
  LET bare == Gc([c EXCEPT !.bound = [a \in Accounts |-> NoNode]])
      takers == Among(AccountOrder, Accounts \ (c.disabled \union c.noProxy))
      deal[i \in 0..Len(takers)] ==
        IF i = 0 THEN bare ELSE DealtTo(deal[i - 1], takers[i], InTurn(list, i))
  IN  Gc(deal[Len(takers)])
-----------------------------------------------------------------------------
(* The watcher's plan. *)

\* availableCandidates: nodes that did not fail; tested ones first, by latency.
Candidates(c) ==
  Among(NodeOrder, {n \in Nodes : c.status[n] = "ok"})
    \o Among(NodeOrder, {n \in Nodes : c.status[n] = "unknown"})

\* nodeBoundCounts: enabled accounts per node that has a port.
BoundCounts(c) ==
  [n \in Nodes |-> IF n \in Ported(c)
                   THEN Cardinality({a \in Accounts \ c.disabled : c.bound[a] = n}) ELSE 0]

\* pickLeastLoaded: the first of the candidates with the fewest accounts.
LeastLoaded(cands, counts) ==
  cands[CHOOSE i \in DOMAIN cands :
          \A j \in DOMAIN cands :
             \/ counts[cands[i]] < counts[cands[j]]
             \/ counts[cands[i]] = counts[cands[j]] /\ i <= j]

Dead(c) == {n \in Nodes : c.status[n] = "fail" /\ streak[n] >= FailThreshold}

\* Mutants: the cooldown is not looked at; nothing is given back without a candidate.
MovableAlways(c, a) == a \notin c.disabled /\ c.bound[a] \in Ported(c) \intersect Dead(c)
SurplusIfAny(c) == {a \in c.disabled : c.bound[a] # NoNode /\ Candidates(c) # <<>>}

\* Accounts to move off a dead node, to take the node from, and to give one.
Movable(c, a) ==
  a \notin c.disabled \union c.cooling /\ c.bound[a] \in Ported(c) \intersect Dead(c)
Surplus(c) == {a \in c.disabled : c.bound[a] # NoNode}
Bare(c, a) == a \notin c.disabled \union c.noProxy /\ c.bound[a] = NoNode

\* The first half of reconcileBindings.
Plan(c) ==
  LET cands == Candidates(c)
  IN  [un |-> Surplus(c),
       move |-> {a \in Accounts : cands # <<>> /\ Movable(c, a)},
       fill |-> {a \in Accounts : cands # <<>> /\ Bare(c, a)},
       cands |-> cands, counts |-> BoundCounts(c)]

\* One account of the transaction: [c, counts, failed].  Only Disabled is looked at again.
Rebind(p, s, a) ==
  IF s.failed \/ a \in s.c.disabled THEN s
  ELSE LET n == LeastLoaded(p.cands, s.counts)
       IN  IF n \notin Present(s.c) THEN [s EXCEPT !.failed = TRUE]
           ELSE [c |-> [Assign(s.c, a, n) EXCEPT
                          !.cooling = IF a \in p.move THEN @ \union {a} ELSE @],
                 counts |-> [s.counts EXCEPT ![n] = @ + 1], failed |-> FALSE]

\* The transaction of reconcileBindings: rebinds first, then backfills, in the order of
\* the configuration; a candidate that has vanished meanwhile undoes it all.
Reconciled(c, p) ==
  LET freed == [c EXCEPT !.bound = [a \in Accounts |-> IF a \in p.un THEN NoNode ELSE c.bound[a]]]
      todo == Among(AccountOrder, p.move) \o Among(AccountOrder, p.fill)
      done[i \in 0..Len(todo)] ==
        IF i = 0 THEN [c |-> freed, counts |-> p.counts, failed |-> FALSE]
        ELSE Rebind(p, done[i - 1], todo[i])
      s == done[Len(todo)]
  IN  [s EXCEPT !.c = Gc(s.c)]
-----------------------------------------------------------------------------
BindingInit ==
  /\ cfg \in Starts
  /\ up = Nodes
  /\ streak = [n \in Nodes |-> 0] /\ real = [n \in Nodes |-> 0] /\ marked = {}
  /\ marking = [n \in Nodes |-> "no"] /\ index = Ported(cfg) /\ signal = FALSE
  /\ watch = [pc |-> "idle", probes |-> <<>>, plan |-> NoPlan]
  /\ admin = [pc |-> "idle", list |-> <<>>, probes |-> <<>>]
  /\ edits = 0 /\ outages = 0

\* A node goes down or comes back, a cooldown or the interval of a mark runs out.
Outage ==
  /\ outages < MaxOutages /\ outages' = outages + 1
  /\ \E n \in Nodes : up' = IF n \in up THEN up \ {n} ELSE up \union {n}
  /\ UNCHANGED <<cfg, health, marking, index, signal, watch, admin, edits>>

CooldownEnds(a) ==
  /\ a \in cfg.cooling /\ cfg' = [cfg EXCEPT !.cooling = @ \ {a}]
  /\ UNCHANGED <<up, health, marking, index, signal, watch, admin, edits, outages>>

MarkExpires(n) ==
  /\ n \in marked /\ marked' = marked \ {n}
  /\ UNCHANGED <<cfg, up, streak, real, marking, index, signal, watch, admin, edits, outages>>
-----------------------------------------------------------------------------
(* Requests: reports of what became of them, and the mark they may lead to. *)

\* ReportUpstreamResult with success.
ReportSuccess(n) ==
  /\ n \in index \intersect up
  /\ real' = [real EXCEPT ![n] = 0] /\ marked' = marked \ {n}
  /\ UNCHANGED <<cfg, up, streak, marking, index, signal, watch, admin, edits, outages>>

\* The same with a failure: counted, and marked when it is one too many and no mark is recent.
ReportFailure(n) ==
  LET s == IF real[n] < FailThreshold THEN real[n] + 1 ELSE real[n]
  IN  /\ n \in index \ up /\ marking[n] = "no"
      /\ real' = [real EXCEPT ![n] = s]
      /\ IF s < FailThreshold \/ n \in marked THEN UNCHANGED <<marked, marking>>
         ELSE marked' = marked \union {n} /\ marking' = [marking EXCEPT ![n] = "save"]
      /\ UNCHANGED <<cfg, up, streak, index, signal, watch, admin, edits, outages>>

\* markNodeFailByTraffic: the stored status, then the streak and the signal.
MarkStored(n) ==
  /\ marking[n] = "save" /\ marking' = [marking EXCEPT ![n] = "streak"]
  /\ cfg' = IF n \in Present(cfg) THEN [cfg EXCEPT !.status[n] = "fail"] ELSE cfg
  /\ UNCHANGED <<up, health, index, signal, watch, admin, edits, outages>>

MarkSignalled(n) ==
  /\ marking[n] = "streak" /\ marking' = [marking EXCEPT ![n] = "no"]
  /\ streak' = [streak EXCEPT ![n] = FailThreshold] /\ signal' = TRUE
  /\ UNCHANGED <<cfg, up, real, marked, index, watch, admin, edits, outages>>
-----------------------------------------------------------------------------
(* Probes, of the watcher and of the administrator. *)

Probed(targets) == [n \in targets |-> n \in up]

\* applyHealthResults: the nodes that are still there get their status ...
StoreProbes(r) ==
  cfg' = [cfg EXCEPT !.status = [n \in Nodes |->
            IF n \notin DOMAIN r \/ cfg.status[n] = "gone" THEN cfg.status[n]
            ELSE IF r[n] THEN "ok" ELSE "fail"]]

\* ... and then, under another lock, the counters change.
Failed(s, n) == IF s[n] < FailThreshold THEN s[n] + 1 ELSE s[n]

CountProbes(r) ==
  LET good == {n \in DOMAIN r : r[n]}
      bad == DOMAIN r \ good
  IN  /\ streak' = [n \in Nodes |-> IF n \in good THEN 0
                                    ELSE IF n \in bad THEN Failed(streak, n) ELSE streak[n]]
      /\ real' = [n \in Nodes |-> IF n \in good THEN 0 ELSE real[n]]
      /\ marked' = marked \ good

\* Mutant: the nodes in use are not probed.
SweepFailedOnly(c) == {{n \in Present(c) : c.status[n] = "fail"}}

\* sweepTargets: nodes in use, nodes that failed, and a few others.
SweepTargets(c) ==
  LET due == {n \in Present(c) : BoundCounts(c)[n] > 0 \/ c.status[n] = "fail"}
      cold == Present(c) \ due
  IN  {due \union s : s \in {x \in SUBSET cold : Cardinality(x) =
         IF Cardinality(cold) < ColdProbes THEN Cardinality(cold) ELSE ColdProbes}}

\* watchTick up to the end of the probes; nothing unless the bridge and autoBind are on.
Tick ==
  /\ watch.pc = "idle"
  /\ \E t \in SweepTargets(cfg) :
       watch' = IF ~cfg.auto THEN watch
                ELSE IF t = {} THEN [watch EXCEPT !.pc = "plan"]
                ELSE [watch EXCEPT !.pc = "store", !.probes = Probed(t)]
  /\ UNCHANGED <<cfg, up, health, marking, index, signal, admin, edits, outages>>

WatchStore ==
  /\ watch.pc = "store" /\ StoreProbes(watch.probes)
  /\ watch' = [watch EXCEPT !.pc = "count"]
  /\ UNCHANGED <<up, health, marking, index, signal, admin, edits, outages>>

WatchCount ==
  /\ watch.pc = "count" /\ CountProbes(watch.probes)
  /\ watch' = [watch EXCEPT !.pc = "plan", !.probes = <<>>]
  /\ UNCHANGED <<cfg, up, marking, index, signal, admin, edits, outages>>

\* watcherLoop takes the token of reconcileCh.
Woken ==
  /\ watch.pc = "idle" /\ signal
  /\ signal' = FALSE /\ watch' = [watch EXCEPT !.pc = "plan"]
  /\ UNCHANGED <<cfg, up, health, marking, index, admin, edits, outages>>

\* reconcileBindings reads: snapshot, health and streaks.
WatchPlan ==
  /\ watch.pc = "plan"
  /\ \E p \in {Plan(cfg)} :
       watch' = IF cfg.auto /\ p.un \union p.move \union p.fill # {}
                THEN [watch EXCEPT !.pc = "commit", !.plan = p]
                ELSE [watch EXCEPT !.pc = "idle"]
  /\ UNCHANGED <<cfg, up, health, marking, index, signal, admin, edits, outages>>

\* reconcileBindings writes.
WatchCommit ==
  /\ watch.pc = "commit"
  /\ \E s \in {Reconciled(cfg, watch.plan)} :
       LET done == ~s.failed /\ Valid(s.c)
       IN  /\ cfg' = IF done THEN s.c ELSE cfg
           /\ watch' = [watch EXCEPT !.pc = IF done THEN "reset" ELSE "idle", !.plan = NoPlan]
  /\ UNCHANGED <<up, health, marking, index, signal, admin, edits, outages>>

\* rebuildProxyNodeIndex: also forgets the failures of nodes without a port.
RebuildIndex ==
  /\ index' = Ported(cfg)
  /\ real' = [n \in Nodes |-> IF n \in Ported(cfg) THEN real[n] ELSE 0]
  /\ marked' = marked \intersect Ported(cfg)

WatchReset ==
  /\ watch.pc = "reset" /\ RebuildIndex
  /\ watch' = [watch EXCEPT !.pc = "idle"]
  /\ UNCHANGED <<cfg, up, streak, marking, signal, admin, edits, outages>>
-----------------------------------------------------------------------------
(* The administrator, and the elastic pool. *)

\* An edit whose transaction gives c, followed by resetPool (or, for those that only
\* apply, by the rebuild at the end of a successful Apply).
Edit(c, then) ==
  /\ admin.pc = "idle" /\ edits < MaxEdits /\ edits' = edits + 1
  /\ cfg' = Update(c)
  /\ admin' = [admin EXCEPT !.pc = IF Valid(c) THEN then ELSE "idle"]
  /\ UNCHANGED <<up, health, marking, index, signal, watch, outages>>

BindAccount(a, n) == n \in Present(cfg) /\ Edit(Bound(cfg, a, n), "reset")
UnbindAccount(a) == Edit(Unbound(cfg, a), "reset")

\* RefreshSubscription: the nodes fetched, less the excluded ones, replace the old list.
RefreshSubscription(s, kept) ==
  LET mine == {n \in Nodes : SubOf[n] = s}
  IN  /\ cfg.sub[s] = "live"
      /\ Edit(Gc([Leave(cfg, mine \ kept) EXCEPT
                !.status = [n \in Nodes |-> IF n \in mine \intersect kept THEN "unknown" ELSE @[n]]]),
              "reset")

\* DeleteSubscription: the bindings to its nodes that have a port are undone.
DeleteSubscription(s) ==
  LET lost == {n \in Ported(cfg) : SubOf[n] = s}
  IN  /\ cfg.sub[s] = "live"
      /\ Edit(Gc([Leave(cfg, {n \in Nodes : SubOf[n] = s}) EXCEPT
                !.sub[s] = "deleted",
                !.bound = [a \in Accounts |-> IF cfg.bound[a] \in lost THEN NoNode ELSE cfg.bound[a]]]),
              "reset")

\* AddSubscription: under an identifier never used before.
AddSubscription(s, nodes) ==
  /\ cfg.sub[s] = "new"
  /\ Edit([cfg EXCEPT !.sub[s] = "live",
             !.status = [n \in Nodes |-> IF n \in nodes THEN "unknown" ELSE cfg.status[n]]],
          "apply")

\* UpdateSettings: the switch, the API port, and nodes excluded by a new keyword.
UpdateSettings(auto, port, excluded) ==
  LET c == [Leave(cfg, excluded) EXCEPT !.auto = auto, !.apiPort = port]
  IN  Edit(IF excluded = {} THEN c ELSE Gc(c), "apply")

\* updateAccountProxy and deleteProxy of the proxies page, which know nothing of nodes.
AccountProxy(a, n) ==
  /\ n # NoNode => cfg.proxy[n] > 0
  /\ Edit([cfg EXCEPT !.bound[a] = n,
             !.noProxy = IF n = NoNode THEN @ \union {a} ELSE @ \ {a}], "idle")

DeleteProxy(n) ==
  /\ cfg.proxy[n] > 0
  /\ Edit([cfg EXCEPT !.proxy[n] = 0,
             !.bound = [a \in Accounts |-> IF cfg.bound[a] = n THEN NoNode ELSE cfg.bound[a]]], "idle")

\* The elastic pool or the administrator disables or enables an account: RequestReconcile.
ToggleAccount(a) ==
  /\ edits < MaxEdits /\ edits' = edits + 1
  /\ cfg' = [cfg EXCEPT !.disabled = IF a \in @ THEN @ \ {a} ELSE @ \union {a}]
  /\ signal' = TRUE
  /\ UNCHANGED <<up, health, marking, index, watch, admin, outages>>

AdminReset ==
  /\ admin.pc \in {"reset", "apply"} /\ admin' = [admin EXCEPT !.pc = "idle"]
  /\ RebuildIndex \/ (admin.pc = "apply" /\ UNCHANGED <<index, real, marked>>)
  /\ UNCHANGED <<cfg, up, streak, marking, signal, watch, edits, outages>>

\* AssignAccounts: nodes that failed are dropped before the transaction begins.
AssignAsk(wish) ==
  LET list == Among(NodeOrder, {n \in wish : cfg.status[n] # "fail"})
  IN  /\ admin.pc = "idle" /\ edits < MaxEdits /\ edits' = edits + 1
      /\ admin' = IF list = <<>> THEN admin ELSE [admin EXCEPT !.pc = "assign", !.list = list]
      /\ UNCHANGED <<cfg, up, health, marking, index, signal, watch, outages>>

AssignAccounts ==
  /\ admin.pc = "assign"
  /\ \E c \in {Dealt(cfg, admin.list)} :
       LET done == Range(admin.list) \subseteq Present(cfg) /\ Valid(c)
       IN  /\ cfg' = IF done THEN c ELSE cfg
           /\ admin' = [admin EXCEPT !.pc = IF done THEN "reset" ELSE "idle", !.list = <<>>]
  /\ UNCHANGED <<up, health, marking, index, signal, watch, edits, outages>>

\* TestLatency: probes every node, beside the watcher.
TestLatency ==
  /\ admin.pc = "idle" /\ edits < MaxEdits /\ edits' = edits + 1
  /\ Present(cfg) # {}
  /\ admin' = [admin EXCEPT !.pc = "store", !.probes = Probed(Present(cfg))]
  /\ UNCHANGED <<cfg, up, health, marking, index, signal, watch, outages>>

TestStore ==
  /\ admin.pc = "store" /\ StoreProbes(admin.probes)
  /\ admin' = [admin EXCEPT !.pc = "count"]
  /\ UNCHANGED <<up, health, marking, index, signal, watch, edits, outages>>

TestCount ==
  /\ admin.pc = "count" /\ CountProbes(admin.probes)
  /\ admin' = [admin EXCEPT !.pc = "idle", !.probes = <<>>]
  /\ UNCHANGED <<cfg, up, marking, index, signal, watch, edits, outages>>
-----------------------------------------------------------------------------
WatcherReads == Tick \/ WatchStore \/ WatchCount \/ Woken \/ WatchPlan \/ WatchReset
AdminGoesOn == AdminReset \/ AssignAccounts \/ TestStore \/ TestCount

Traffic == \E n \in Nodes : ReportSuccess(n) \/ ReportFailure(n)
Marking == \E n \in Nodes : MarkStored(n) \/ MarkSignalled(n)

AdminBegins ==
  \/ \E a \in Accounts : UnbindAccount(a) \/ ToggleAccount(a) \/ AccountProxy(a, NoNode)
  \/ \E a \in Accounts, n \in Nodes : BindAccount(a, n) \/ AccountProxy(a, n)
  \/ \E s \in Subs : \/ DeleteSubscription(s)
                     \/ \E k \in SUBSET {n \in Nodes : SubOf[n] = s} :
                          RefreshSubscription(s, k) \/ AddSubscription(s, k)
  \/ \E auto \in BOOLEAN, port \in ApiPorts, x \in {{}} \union {{n} : n \in Nodes} :
       UpdateSettings(auto, port, x)
  \/ \E n \in Nodes : DeleteProxy(n)
  \/ \E w \in SUBSET Nodes : AssignAsk(w)
  \/ TestLatency

BindingNext ==
  \/ WatcherReads \/ WatchCommit \/ AdminGoesOn \/ Traffic \/ Marking \/ AdminBegins \/ Outage
  \/ \E a \in Accounts : CooldownEnds(a)
  \/ \E n \in Nodes : MarkExpires(n)

\* The watcher's goroutine goes on (WatchCommit is enabled exactly at its step, so that its
\* weak fairness is what is said of the step), its ticker is not passed over for ever by the
\* signals (the select of watcherLoop chooses at random among what is ready), the
\* goroutines that mark nodes go on, and time passes.
BindingSpec ==
  /\ BindingInit /\ [][BindingNext]_bindingVars
  /\ WF_bindingVars(WatcherReads) /\ SF_bindingVars(Tick) /\ []<>(watch.pc # "commit")
  /\ WF_bindingVars(Marking) /\ \A a \in Accounts : WF_bindingVars(CooldownEnds(a))
-----------------------------------------------------------------------------
(* Properties. *)

\* Ports stay in the range the allocation can reach; counters stay under the threshold.
BindingTypeOK ==
  /\ cfg \in Configs
  /\ streak \in [Nodes -> 0..FailThreshold] /\ real \in [Nodes -> 0..FailThreshold]
  /\ index \subseteq Nodes /\ marked \subseteq Nodes

\* Whatever was edited before, an administrator can bind any account to any node that
\* exists: no sequence of bindings, refreshes, collections and changes of the API port
\* leaves a configuration that validateMutation would refuse from then on
\* (AllocateMihomoPort keeps clear of the API's port for that).
BindAlwaysPossible ==
  \A a \in Accounts, n \in Present(cfg) : Valid(Bound(cfg, a, n))

\* What an account dials is the listener of the node it is bound to and of no other: no
\* collection, reuse of a port, failed node, deleted proxy or change of the API's port
\* comes between the managed proxy and its node (upsertManagedProxyLocked, gcLocked).
\* Excepted by name (left) are nodes that went since they were assigned, to come back or
\* not: gcLocked gives their port away and keeps the binding, because it keeps every proxy
\* an account uses, although binding.go:273-274 says that such bindings are dissolved.
DialsItsNode ==
  \A a \in Accounts : cfg.bound[a] \notin cfg.left \union {NoNode} =>
    /\ cfg.bound[a] \in Ported(cfg) \intersect Present(cfg)
    /\ \A m \in Ported(cfg) : cfg.port[m] = cfg.proxy[cfg.bound[a]] <=> m = cfg.bound[a]

\* Failover leaves an account alone that is in its cooldown, although the transaction only
\* looks at Disabled again (reconcileBindings).
CoolingRests ==
  [][WatchCommit => \A a \in watch.plan.move \intersect cfg.cooling : cfg'.bound[a] = cfg.bound[a]]_bindingVars

Stuck(a, n) ==
  /\ cfg.bound[a] = n /\ n \in Ported(cfg) \ up /\ a \notin cfg.disabled
  /\ cfg.auto /\ up \intersect Present(cfg) # {}

\* No enabled account stays for ever on a node that is down while another one works: the
\* probes, the threshold, the cooldown and the reports of requests, in any order and with
\* edits between the plan and its transaction, end with the account moved.
DeadNodeIsLeft == \A a \in Accounts, n \in Nodes : []<>~Stuck(a, n)

Overdue(a) ==
  /\ cfg.auto
  /\ \/ a \in cfg.disabled /\ cfg.bound[a] # NoNode
     \/ a \notin cfg.disabled \union cfg.noProxy /\ cfg.bound[a] = NoNode /\ Candidates(cfg) # <<>>

\* Bindings follow the pool: an account that was disabled gives its node back, also when no
\* node is healthy, and one that was enabled is given a node.
BindingsFollow == \A a \in Accounts : []<>~Overdue(a)

\* The configuration of the nodes stays one that can be validated and edited, and an account
\* leaves through the node it is bound to, unless that node went.
BindingsSound == BindingTypeOK /\ BindAlwaysPossible /\ DialsItsNode
=============================================================================
