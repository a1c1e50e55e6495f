-------------------------- MODULE AccountPoolProofs --------------------------
(***************************************************************************)
(* Theorems about AccountPool for every set of accounts, requests, store   *)
(* states and limits.  The inductive invariant is the conjunction of the   *)
(* type invariant, the exact accounting of slots and the well-formedness   *)
(* of the waiters: the first needs the second (Release must find either a  *)
(* slot or a forgotten one) and the third needs the first.  The refinement *)
(* of SlotPool and the argument that nobody is stranded follow it.         *)
(*                                                                         *)
(* The second half is about ElasticPool, which decides what accounts the   *)
(* pool is given: its loops over the accounts of a type enable exactly the *)
(* first ones that are not muted, however long the store's list is, and    *)
(* between two runs of them a type nobody edits keeps to its quota.        *)
(***************************************************************************)
EXTENDS AccountPool, ElasticPool, SequenceLemmas, FiniteSetTheorems, FunctionTheorems, TLAPS

\* The store's limits are numbers.
LEMMA StoreLimits ==
    ASSUME TypeOK
    PROVE  /\ store.per \in Nat \ {0} /\ store.maxQueue \in Nat \cup {Unset}
           /\ store.global \in Nat \cup {Unset} /\ store.order \in Seq(Accounts)
           /\ ResetOrder(store) \in Seq(Accounts)
           /\ IsInjective(ResetOrder(store))
BY ConfigsAssumption DEF TypeOK, ConfigType

\* The limits that Reset and applyRuntimeSettings compute are numbers.
LEMMA OrDefaultType ==
    ASSUME NEW setting \in Nat \cup {Unset}, NEW n \in Nat
    PROVE  OrDefault(setting, n) \in Nat
BY DEF OrDefault

\* So is the recommended concurrency.
LEMMA ProductType == \A m, n \in Nat : m * n \in Nat
OBVIOUS

\* A rotation keeps the accounts of the queue (bumpQueue).
LEMMA BumpFacts ==
    ASSUME queue \in Seq(Accounts), IsInjective(queue), NEW a \in Accounts, Bump(a)
    PROVE  /\ queue' \in Seq(Accounts) /\ IsInjective(queue')
           /\ ToSet(queue') = ToSet(queue)
<1>1. CASE a \notin ToSet(queue)
  BY <1>1 DEF Bump
<1>2. CASE a \in ToSet(queue)
  <2> DEFINE q == RemoveFirst(queue, a)
  <2>1. /\ q \in Seq(Accounts) /\ IsInjective(q)
        /\ ToSet(q) = ToSet(queue) \ {a}
    BY RemoveFirstFacts
  <2> HIDE DEF q
  <2>2. /\ Append(q, a) \in Seq(Accounts) /\ IsInjective(Append(q, a))
        /\ ToSet(Append(q, a)) = ToSet(q) \cup {a}
    BY <2>1, AppendFacts
  <2>3. queue' = Append(q, a)
    BY <1>2 DEF Bump, q
  <2> QED BY <1>2, <2>1, <2>2, <2>3
<1> QED BY <1>1, <1>2

\* A wake-up moves the waiter at the head, if any, to those that are woken.
LEMMA NotifyFacts ==
    ASSUME waiters \in Seq(Requests), IsInjective(waiters), woken \subseteq Requests,
           ToSet(waiters) \cap woken = {}, NotifyOne
    PROVE  /\ waiters' \in Seq(Requests) /\ IsInjective(waiters')
           /\ woken' \subseteq Requests
           /\ ToSet(waiters') \cap woken' = {}
           /\ ToSet(waiters') \cup woken' = ToSet(waiters) \cup woken
<1>1. CASE waiters = <<>>
  BY <1>1 DEF NotifyOne
<1>2. CASE waiters # <<>>
  <2>1. /\ Head(waiters) \in Requests /\ Head(waiters) \in ToSet(waiters)
        /\ Tail(waiters) \in Seq(Requests) /\ IsInjective(Tail(waiters))
        /\ ToSet(Tail(waiters)) = ToSet(waiters) \ {Head(waiters)}
    BY <1>2, TailFacts
  <2>2. waiters' = Tail(waiters) /\ woken' = woken \cup {Head(waiters)}
    BY <1>2 DEF NotifyOne
  <2> QED BY <2>1, <2>2
<1> QED BY <1>1, <1>2

\* The holders of an account are finitely many.
LEMMA HoldersFinite ==
    ASSUME NEW a
    PROVE  IsFiniteSet(Holders(a)) /\ Cardinality(Holders(a)) \in Nat
<1>1. Holders(a) \subseteq Requests
  BY DEF Holders
<1> QED BY <1>1, ConstantsAssumption, FS_Subset, FS_CardinalityType

\* A request that gets a lease joins the holders of its account only.
LEMMA HolderJoins ==
    ASSUME TypeOK, NEW r \in Requests, NEW a \in Accounts, lease[r] = NoAccount,
           lease' = [lease EXCEPT ![r] = a], NEW b \in Accounts
    PROVE  Cardinality(Holders(b))' =
               IF b = a THEN Cardinality(Holders(b)) + 1 ELSE Cardinality(Holders(b))
<1>1. lease \in [Requests -> Accounts \cup {NoAccount}] /\ NoAccount \notin Accounts
  BY ConstantsAssumption DEF TypeOK
<1>2. CASE b = a
  <2>1. Holders(b)' = Holders(b) \cup {r} /\ r \notin Holders(b)
    BY <1>1, <1>2 DEF Holders
  <2> QED BY <1>2, <2>1, HoldersFinite, FS_AddElement
<1>3. CASE b # a
  <2>1. Holders(b)' = Holders(b)
    BY <1>1, <1>3 DEF Holders
  <2> QED BY <1>3, <2>1
<1> QED BY <1>2, <1>3

\* A request that gives its lease back leaves the holders of its account only.
LEMMA HolderLeaves ==
    ASSUME TypeOK, NEW r \in Requests, NEW a \in Accounts, lease[r] = a,
           lease' = [lease EXCEPT ![r] = NoAccount], NEW b \in Accounts
    PROVE  /\ Cardinality(Holders(a)) \in Nat \ {0}
           /\ Cardinality(Holders(b))' =
               IF b = a THEN Cardinality(Holders(b)) - 1 ELSE Cardinality(Holders(b))
<1>1. lease \in [Requests -> Accounts \cup {NoAccount}] /\ NoAccount \notin Accounts
  BY ConstantsAssumption DEF TypeOK
<1>2. r \in Holders(a)
  BY DEF Holders
<1>3. Cardinality(Holders(a)) \in Nat \ {0}
  BY <1>2, HoldersFinite, FS_EmptySet
<1>4. CASE b = a
  <2>1. Holders(b)' = Holders(b) \ {r}
    BY <1>1, <1>4 DEF Holders
  <2> QED BY <1>2, <1>3, <1>4, <2>1, HoldersFinite, FS_RemoveElement
<1>5. CASE b # a
  <2>1. Holders(b)' = Holders(b)
    BY <1>1, <1>5 DEF Holders
  <2> QED BY <1>3, <1>5, <2>1
<1> QED BY <1>4, <1>5

Parked == {r \in Requests : pc[r] = "parked"}

\* Steps that leave the slots and the leases alone keep the accounting.
LEMMA AccountingFrame ==
    ASSUME ExactAccounting, UNCHANGED <<lease, inUse, forgotten>>
    PROVE  ExactAccounting'
BY DEF ExactAccounting, Holders

\* Steps that leave the waiters alone keep them well formed.
LEMMA WaitersFrame ==
    ASSUME WaitersWellFormed, UNCHANGED <<waiters, woken>>, Parked' = Parked
    PROVE  WaitersWellFormed'
BY DEF WaitersWellFormed, Parked

\* The initial states satisfy the invariant.
LEMMA InitInv == Init => Inv
<1> SUFFICES ASSUME Init PROVE Inv
  OBVIOUS
<1>1. /\ store.per \in Nat \ {0} /\ store.maxQueue \in Nat \cup {Unset}
      /\ store.global \in Nat \cup {Unset}
      /\ queue \in Seq(Accounts) /\ IsInjective(queue) /\ Len(queue) \in Nat
  BY ConfigsAssumption DEF Init, ConfigType
<1>2. limits \in LimitsType
  <2>1. /\ OrDefault(store.maxQueue, Len(queue) * store.per) \in Nat
        /\ OrDefault(store.global, Len(queue) * store.per) \in Nat
    <3>1. Len(queue) * store.per \in Nat
      BY <1>1, ProductType
    <3> QED BY <1>1, <3>1, OrDefaultType
  <2> QED BY <1>1, <2>1 DEF Init, LimitsType
<1>3. Idle \in JobType /\ IsInjective(Idle.ids)
  BY DEF Idle, JobType, Steps, IsInjective
<1>4. Blank \in WantType
  BY DEF Blank, WantType
<1>5. TypeOK
  BY <1>1, <1>2, <1>3, <1>4, ConstantsAssumption DEF Init, TypeOK, Labels
<1>6. ExactAccounting
  <2> SUFFICES ASSUME NEW a \in Accounts
               PROVE  Cardinality(Holders(a)) = inUse[a] + forgotten[a]
    BY DEF ExactAccounting
  <2>1. Holders(a) = {}
    BY ConstantsAssumption DEF Init, Holders
  <2> QED BY <2>1, FS_EmptySet DEF Init
<1>7. WaitersWellFormed
  BY DEF Init, WaitersWellFormed, IsInjective, ToSet
<1> QED BY <1>5, <1>6, <1>7 DEF Inv

\* A step of a request that touches neither slots nor waiters.
LEMMA QuietSteps ==
    ASSUME Inv, NEW r \in Requests,
           Begin(r) \/ Disconnect(r) \/ Refuse(r) \/ GiveUp(r) \/ SwitchFails(r)
    PROVE  Inv'
<1> USE DEF Inv
<1>1. TypeOK'
  <2>1. Blank \in WantType
    BY DEF Blank, WantType
  <2>2. CASE Begin(r)
    BY <2>2, ConstantsAssumption DEF Begin, TypeOK, poolVars, Labels
  <2>3. CASE Disconnect(r)
    BY <2>3 DEF Disconnect, TypeOK, poolVars
  <2>4. CASE Refuse(r) \/ GiveUp(r)
    BY <2>1, <2>4 DEF Refuse, GiveUp, Leave, TypeOK, poolVars, Labels
  <2>5. CASE SwitchFails(r)
    BY <2>5 DEF SwitchFails, TypeOK, poolVars, Labels
  <2> QED BY <2>2, <2>3, <2>4, <2>5
<1>2. ExactAccounting'
  BY AccountingFrame DEF Begin, Disconnect, Refuse, GiveUp, SwitchFails, poolVars
<1>3. WaitersWellFormed'
  <2>1. UNCHANGED <<waiters, woken>>
    BY DEF Begin, Disconnect, Refuse, GiveUp, SwitchFails, poolVars
  <2>2. Parked' = Parked
    BY DEF Begin, Disconnect, Refuse, GiveUp, SwitchFails, Leave, Parked, TypeOK
  <2> QED BY <2>1, <2>2, WaitersFrame
<1> QED BY <1>1, <1>2, <1>3

\* A request is given a slot, at first or in place of another.
LEMMA GrantInv ==
    ASSUME Inv, NEW r \in Requests, Grant(r) \/ SwitchTake(r)
    PROVE  Inv'
<1> USE DEF Inv
<1>1. PICK a \in Accounts : TakeSlot(a) /\ lease' = [lease EXCEPT ![r] = a]
  BY DEF Grant, SwitchTake
<1>2. lease[r] = NoAccount
  BY DEF Grant, SwitchTake, TypeOK
<1>3. TypeOK'
  <2>1. queue' \in Seq(Accounts) /\ IsInjective(queue')
    BY <1>1, BumpFacts DEF TakeSlot, TypeOK
  <2>2. inUse' \in [Accounts -> Nat]
    BY <1>1 DEF TakeSlot, TypeOK
  <2>3. /\ lease' \in [Requests -> Accounts \cup {NoAccount}]
        /\ pc' \in [Requests -> Labels]
        /\ \A q \in Requests : lease'[q] # NoAccount <=> pc'[q] = "holding"
    BY <1>1, ConstantsAssumption DEF Grant, SwitchTake, TypeOK, Labels
  <2>4. /\ named' \in [Requests -> Accounts \cup {NoAccount}]
        /\ \A q \in Requests : named'[q] # NoAccount <=> pc'[q] \in {"switching", "stray"}
    BY DEF Grant, SwitchTake, TypeOK
  <2> QED BY <2>1, <2>2, <2>3, <2>4 DEF Grant, SwitchTake, TypeOK
<1>4. ExactAccounting'
  <2> SUFFICES ASSUME NEW b \in Accounts
               PROVE  Cardinality(Holders(b))' = inUse'[b] + forgotten'[b]
    BY DEF ExactAccounting
  <2>1. Cardinality(Holders(b))' =
            IF b = a THEN Cardinality(Holders(b)) + 1 ELSE Cardinality(Holders(b))
    BY <1>1, <1>2, HolderJoins
  <2>2. Cardinality(Holders(b)) = inUse[b] + forgotten[b]
    BY DEF ExactAccounting
  <2>3. inUse[b] \in Nat /\ forgotten[b] \in Nat /\ forgotten' = forgotten
    BY DEF TypeOK, Grant, SwitchTake
  <2>4. inUse'[b] = IF b = a THEN inUse[b] + 1 ELSE inUse[b]
    BY <1>1 DEF TakeSlot, TypeOK
  <2> QED BY <2>1, <2>2, <2>3, <2>4
<1>5. WaitersWellFormed'
  <2>1. UNCHANGED <<waiters, woken>>
    BY DEF Grant, SwitchTake
  <2>2. Parked' = Parked
    BY DEF Grant, SwitchTake, Parked, TypeOK
  <2> QED BY <2>1, <2>2, WaitersFrame
<1> QED BY <1>3, <1>4, <1>5

\* A request queues, is woken, or leaves the queue because its client left.
LEMMA WaitingSteps ==
    ASSUME Inv, NEW r \in Requests, Park(r) \/ Wake(r) \/ Abandon(r)
    PROVE  Inv'
<1> USE DEF Inv
<1>1. ExactAccounting'
  BY AccountingFrame DEF Park, Wake, Abandon, Leave
<1>2. /\ waiters \in Seq(Requests) /\ IsInjective(waiters) /\ woken \subseteq Requests
      /\ ToSet(waiters) \cap woken = {} /\ ToSet(waiters) \cup woken = Parked
  BY DEF TypeOK, WaitersWellFormed, Parked
<1>3. Blank \in WantType
  BY DEF Blank, WantType
<1>4. CASE Park(r)
  <2>1. r \notin Parked
    BY <1>4 DEF Park, Parked
  <2>2. /\ waiters' \in Seq(Requests) /\ IsInjective(waiters')
        /\ ToSet(waiters') = ToSet(waiters) \cup {r}
    BY <1>2, <1>4, <2>1, AppendFacts DEF Park
  <2>3. Parked' = Parked \cup {r}
    BY <1>4 DEF Park, Parked, TypeOK
  <2>4. TypeOK'
    BY <1>4, <2>2 DEF Park, TypeOK, Labels
  <2>5. WaitersWellFormed'
    BY <1>2, <1>4, <2>1, <2>2, <2>3 DEF Park, WaitersWellFormed, Parked
  <2> QED BY <1>1, <2>4, <2>5
<1>5. CASE Wake(r)
  <2>1. Parked' = Parked \ {r}
    BY <1>5 DEF Wake, Parked, TypeOK
  <2>2. TypeOK'
    BY <1>5 DEF Wake, TypeOK, Labels
  <2>3. WaitersWellFormed'
    BY <1>2, <1>5, <2>1 DEF Wake, WaitersWellFormed, Parked
  <2> QED BY <1>1, <2>2, <2>3
<1>6. CASE Abandon(r)
  <2>1. Parked' = Parked \ {r}
    BY <1>6 DEF Abandon, Leave, Parked, TypeOK
  <2>2. /\ waiters' \in Seq(Requests) /\ IsInjective(waiters')
        /\ ToSet(waiters') = ToSet(waiters) \ {r}
    BY <1>2, <1>6, RemoveFirstFacts DEF Abandon
  <2>3. TypeOK'
    BY <1>3, <1>6, <2>2 DEF Abandon, Leave, TypeOK, Labels
  <2>4. WaitersWellFormed'
    BY <1>2, <1>6, <2>1, <2>2 DEF Abandon, WaitersWellFormed, Parked
  <2> QED BY <1>1, <2>3, <2>4
<1> QED BY <1>4, <1>5, <1>6

\* A request gives its slot back, at its end or to switch: either the pool
\* counts it, or one of that account is forgotten.
LEMMA ReleaseInv ==
    ASSUME Inv, NEW r \in Requests, Release(r) \/ SwitchBegin(r)
    PROVE  Inv'
<1> USE DEF Inv
<1> DEFINE a == lease[r]
<1>1. a \in Accounts /\ lease' = [lease EXCEPT ![r] = NoAccount] /\ FreeSlot(a)
  BY DEF Release, SwitchBegin, TypeOK
<1>2. /\ Cardinality(Holders(a)) \in Nat \ {0}
      /\ \A b \in Accounts : Cardinality(Holders(b))' =
            IF b = a THEN Cardinality(Holders(b)) - 1 ELSE Cardinality(Holders(b))
  BY <1>1, HolderLeaves
<1>3. /\ inUse \in [Accounts -> Nat] /\ forgotten \in [Accounts -> Nat]
      /\ \A b \in Accounts : Cardinality(Holders(b)) = inUse[b] + forgotten[b]
  BY DEF TypeOK, ExactAccounting
<1>4. \/ inUse[a] = 0 /\ forgotten[a] \in Nat \ {0}
      \/ inUse[a] \in Nat \ {0}
  BY <1>1, <1>2, <1>3
<1>5. /\ inUse' \in [Accounts -> Nat] /\ forgotten' \in [Accounts -> Nat]
      /\ \A b \in Accounts : inUse'[b] + forgotten'[b] =
            IF b = a THEN inUse[b] + forgotten[b] - 1 ELSE inUse[b] + forgotten[b]
  <2>1. CASE inUse[a] = 0
    <3>1. inUse' = inUse /\ forgotten' = [forgotten EXCEPT ![a] = @ - 1]
      BY <1>1, <2>1 DEF FreeSlot
    <3> QED BY <1>1, <1>3, <1>4, <2>1, <3>1
  <2>2. CASE inUse[a] # 0
    <3>1. inUse' = [inUse EXCEPT ![a] = @ - 1] /\ forgotten' = forgotten
      BY <1>1, <2>2 DEF FreeSlot
    <3> QED BY <1>1, <1>3, <1>4, <2>2, <3>1
  <2> QED BY <2>1, <2>2
<1>6. ExactAccounting'
  BY <1>2, <1>3, <1>5 DEF ExactAccounting
<1>7. /\ waiters' \in Seq(Requests) /\ IsInjective(waiters')
      /\ woken' \subseteq Requests
      /\ ToSet(waiters') \cap woken' = {}
      /\ ToSet(waiters') \cup woken' = ToSet(waiters) \cup woken
  BY <1>1, NotifyFacts DEF FreeSlot, TypeOK, WaitersWellFormed
<1>8. TypeOK'
  <2>1. Blank \in WantType
    BY DEF Blank, WantType
  <2>2. /\ lease' \in [Requests -> Accounts \cup {NoAccount}]
        /\ pc' \in [Requests -> Labels]
        /\ \A q \in Requests : lease'[q] # NoAccount <=> pc'[q] = "holding"
    BY <1>1 DEF Release, SwitchBegin, Leave, TypeOK, Labels
  <2>3. CASE Release(r)
    BY <1>5, <1>7, <2>1, <2>2, <2>3 DEF Release, Leave, TypeOK, Labels
  <2>4. CASE SwitchBegin(r)
    <3>1. /\ named' \in [Requests -> Accounts \cup {NoAccount}]
          /\ \A q \in Requests :
              named'[q] # NoAccount <=> pc'[q] \in {"switching", "stray"}
      BY <1>1, <2>4, ConstantsAssumption DEF SwitchBegin, TypeOK
    <3>2. want' \in [Requests -> WantType]
      <4>1. want[r] \in WantType /\ want \in [Requests -> WantType]
        BY DEF TypeOK
      <4>2. [want[r] EXCEPT !.exclude = @ \cup {a}] \in WantType
        BY <1>1, <4>1 DEF WantType
      <4> QED BY <2>4, <4>1, <4>2 DEF SwitchBegin
    <3> QED BY <1>5, <1>7, <2>2, <2>4, <3>1, <3>2 DEF SwitchBegin, TypeOK
  <2> QED BY <2>3, <2>4
<1>9. WaitersWellFormed'
  <2>1. Parked' = Parked
    BY DEF Release, SwitchBegin, Leave, Parked, TypeOK
  <2> QED BY <1>7, <2>1 DEF WaitersWellFormed, Parked
<1> QED BY <1>6, <1>8, <1>9

\* A request gives back an account it has given back before: the slot that is
\* counted down is another's, whose lease is forgotten.
LEMMA ReleaseAgainInv ==
    ASSUME Inv, NEW r \in Requests, ReleaseAgain(r)
    PROVE  Inv'
<1> USE DEF Inv
<1> DEFINE a == named[r]
<1>1. a \in Accounts /\ lease' = lease /\ FreeSlotOfAnother(a)
  BY DEF ReleaseAgain, TypeOK
<1>2. inUse \in [Accounts -> Nat] /\ forgotten \in [Accounts -> Nat]
  BY DEF TypeOK
<1>3. /\ inUse' \in [Accounts -> Nat] /\ forgotten' \in [Accounts -> Nat]
      /\ \A b \in Accounts : inUse'[b] + forgotten'[b] = inUse[b] + forgotten[b]
  <2>1. CASE inUse[a] = 0
    BY <1>1, <1>2, <2>1 DEF FreeSlotOfAnother
  <2>2. CASE inUse[a] # 0
    <3>1. /\ inUse' = [inUse EXCEPT ![a] = @ - 1]
          /\ forgotten' = [forgotten EXCEPT ![a] = @ + 1]
      BY <1>1, <2>2 DEF FreeSlotOfAnother
    <3> QED BY <1>1, <1>2, <2>2, <3>1
  <2> QED BY <2>1, <2>2
<1>4. ExactAccounting'
  BY <1>1, <1>3 DEF ExactAccounting, Holders
<1>5. /\ waiters' \in Seq(Requests) /\ IsInjective(waiters')
      /\ woken' \subseteq Requests
      /\ ToSet(waiters') \cap woken' = {}
      /\ ToSet(waiters') \cup woken' = ToSet(waiters) \cup woken
  BY <1>1, NotifyFacts DEF FreeSlotOfAnother, TypeOK, WaitersWellFormed
<1>6. TypeOK'
  <2>1. Blank \in WantType
    BY DEF Blank, WantType
  <2> QED BY <1>3, <1>5, <2>1 DEF ReleaseAgain, Leave, TypeOK, Labels
<1>7. WaitersWellFormed'
  <2>1. Parked' = Parked
    BY DEF ReleaseAgain, Leave, Parked, TypeOK
  <2> QED BY <1>5, <2>1 DEF WaitersWellFormed, Parked
<1> QED BY <1>4, <1>6, <1>7

\* The steps of Reset and of applyRuntimeSettings outside the pool's lock.
UnlockedStep(w) ==
    \/ ResetScan(w) \/ ResetPer(w) \/ ResetRecommended(w) \/ SettingsCount(w)
    \/ SettingsPer(w) \/ ReadMaxQueue(w) \/ ReadGlobal(w)

\* They record something of the right type, and keep what Reset has scanned.
LEMMA UnlockedRecord ==
    ASSUME TypeOK, NEW w \in Admins, UnlockedStep(w)
    PROVE  \E new \in JobType :
             /\ Unlocked(w, new)
             /\ IsInjective(new.ids)
             /\ ResetScan(w) => new.ids = ResetOrder(store)
             /\ ~ResetScan(w) /\ new.task = "reset"
                  => job[w].task = "reset" /\ new.ids = job[w].ids
<1>1. job[w] \in JobType /\ IsInjective(job[w].ids)
  BY DEF TypeOK
<1>2. limits.per \in Nat
  BY DEF TypeOK, LimitsType
<1>3. Idle \in JobType /\ Idle.ids = <<>> /\ IsInjective(<<>>)
  BY DEF Idle, JobType, Steps, IsInjective
<1>4. CASE ResetScan(w)
  <2> DEFINE new == [Idle EXCEPT !.task = "reset", !.step = "scanned",
                                 !.ids = ResetOrder(store)]
  <2>1. new \in JobType /\ new.ids = ResetOrder(store)
    BY <1>3, StoreLimits DEF JobType, Steps, Idle
  <2>2. Unlocked(w, new)
    BY <1>4 DEF ResetScan
  <2> HIDE DEF new
  <2> QED BY <1>4, <2>1, <2>2, StoreLimits
<1>5. CASE ResetPer(w)
  <2> DEFINE new == [job[w] EXCEPT !.step = "written"]
  <2>2. new \in JobType /\ new.ids = job[w].ids /\ new.task = job[w].task
    BY <1>1 DEF JobType, Steps
  <2>3. Unlocked(w, new) /\ ~ResetScan(w)
    BY <1>3, <1>5 DEF ResetPer, ResetScan, Idle
  <2> QED BY <1>1, <2>2, <2>3
<1>6. CASE ResetRecommended(w)
  <2> DEFINE new == [job[w] EXCEPT !.step = "recommended",
                                   !.recommended = Len(job[w].ids) * limits.per]
  <2>1. Len(job[w].ids) * limits.per \in Nat
    <3>1. Len(job[w].ids) \in Nat
      BY <1>1 DEF JobType
    <3> QED BY <1>2, <3>1, ProductType
  <2>2. new \in JobType /\ new.ids = job[w].ids /\ new.task = job[w].task
    BY <1>1, <2>1 DEF JobType, Steps
  <2>3. Unlocked(w, new) /\ ~ResetScan(w)
    BY <1>3, <1>6 DEF ResetRecommended, ResetScan, Idle
  <2> QED BY <1>1, <2>2, <2>3
<1>7. CASE SettingsCount(w)
  <2> DEFINE count == IF store.order = <<>> THEN 1 ELSE Len(store.order)
             new == [Idle EXCEPT !.task = "settings", !.step = "counted",
                                 !.recommended = count]
  <2>1. count \in Nat
    BY StoreLimits
  <2>2. Unlocked(w, new)
    BY <1>7 DEF SettingsCount
  <2> HIDE DEF count
  <2>3. new \in JobType /\ new.ids = <<>> /\ new.task = "settings"
    BY <1>3, <2>1 DEF JobType, Steps, Idle
  <2> HIDE DEF new
  <2>4. ~ResetScan(w)
    <3>1. job'[w] = new
      BY <2>2 DEF Unlocked, TypeOK
    <3>2. ResetScan(w) => job'[w].task = "reset"
      BY DEF ResetScan, Unlocked, TypeOK, Idle
    <3> QED BY <2>3, <3>1, <3>2
  <2> QED BY <1>3, <2>2, <2>3, <2>4
<1>8. CASE SettingsPer(w)
  <2> DEFINE new == [job[w] EXCEPT !.step = "recommended", !.per = store.per,
                                   !.recommended = @ * store.per]
  <2>1. job[w].recommended * store.per \in Nat
    BY <1>1, StoreLimits, ProductType DEF JobType
  <2>2. new \in JobType /\ new.ids = job[w].ids /\ new.task = job[w].task
    BY <1>1, <2>1, StoreLimits DEF JobType, Steps
  <2>3. Unlocked(w, new) /\ ~ResetScan(w)
    BY <1>3, <1>8 DEF SettingsPer, ResetScan, Idle
  <2> QED BY <1>1, <2>2, <2>3
<1>9. CASE ReadMaxQueue(w)
  <2> DEFINE new == [job[w] EXCEPT !.step = "queue",
                     !.maxQueue = OrDefault(store.maxQueue, job[w].recommended)]
  <2>1. OrDefault(store.maxQueue, job[w].recommended) \in Nat
    BY <1>1, StoreLimits, OrDefaultType DEF JobType
  <2>2. new \in JobType /\ new.ids = job[w].ids /\ new.task = job[w].task
    BY <1>1, <2>1 DEF JobType, Steps
  <2>3. Unlocked(w, new) /\ ~ResetScan(w)
    BY <1>3, <1>9 DEF ReadMaxQueue, ResetScan, Idle
  <2> QED BY <1>1, <2>2, <2>3
<1>10. CASE ReadGlobal(w)
  <2> DEFINE new == [job[w] EXCEPT !.step = "computed",
                     !.global = OrDefault(store.global, job[w].recommended)]
  <2>1. OrDefault(store.global, job[w].recommended) \in Nat
    BY <1>1, StoreLimits, OrDefaultType DEF JobType
  <2>2. new \in JobType /\ new.ids = job[w].ids /\ new.task = job[w].task
    BY <1>1, <2>1 DEF JobType, Steps
  <2>3. Unlocked(w, new) /\ ~ResetScan(w)
    BY <1>3, <1>10 DEF ReadGlobal, ResetScan, Idle
  <2> QED BY <1>1, <2>2, <2>3
<1> QED BY <1>4, <1>5, <1>6, <1>7, <1>8, <1>9, <1>10 DEF UnlockedStep

LEMMA UnlockedSteps ==
    ASSUME Inv, NEW w \in Admins, UnlockedStep(w)
    PROVE  Inv'
<1> USE DEF Inv
<1>1. PICK new \in JobType : Unlocked(w, new) /\ IsInjective(new.ids)
  BY UnlockedRecord
<1>2. ExactAccounting'
  BY <1>1, AccountingFrame DEF Unlocked, poolVars, reqVars
<1>3. WaitersWellFormed'
  <2>1. UNCHANGED <<waiters, woken, pc>>
    BY <1>1 DEF Unlocked, poolVars, reqVars
  <2> QED BY <2>1, WaitersFrame DEF Parked
<1>4. TypeOK'
  <2>1. limits' \in LimitsType
    BY StoreLimits DEF UnlockedStep, ResetScan, ResetPer, ResetRecommended, SettingsCount,
       SettingsPer, ReadMaxQueue, ReadGlobal, TypeOK, LimitsType
  <2>2. /\ job' \in [Admins -> JobType]
        /\ \A v \in Admins : IsInjective(job'[v].ids)
    BY <1>1 DEF Unlocked, TypeOK
  <2> QED BY <1>1, <2>1, <2>2 DEF Unlocked, TypeOK, poolVars, reqVars
<1> QED BY <1>2, <1>3, <1>4

\* Reset wakes every waiter and forgets every slot.
LEMMA ResetInstallInv ==
    ASSUME Inv, NEW w \in Admins, ResetInstall(w)
    PROVE  Inv'
<1> USE DEF Inv
<1>1. job[w] \in JobType /\ IsInjective(job[w].ids)
  BY DEF TypeOK
<1>2. /\ waiters \in Seq(Requests) /\ ToSet(waiters) \subseteq Requests
      /\ woken \subseteq Requests
  BY DEF TypeOK, ToSet
<1>3. limits' \in LimitsType
  BY <1>1 DEF ResetInstall, TypeOK, LimitsType, JobType
<1>4. Idle \in JobType /\ IsInjective(Idle.ids)
  BY DEF Idle, JobType, Steps, IsInjective
<1>5. /\ job' \in [Admins -> JobType]
      /\ \A v \in Admins : IsInjective(job'[v].ids)
  BY <1>4 DEF ResetInstall, TypeOK
<1>6. /\ queue' \in Seq(Accounts) /\ IsInjective(queue')
      /\ waiters' \in Seq(Requests) /\ woken' \subseteq Requests
      /\ inUse' \in [Accounts -> Nat] /\ forgotten' \in [Accounts -> Nat]
  BY <1>1, <1>2 DEF ResetInstall, TypeOK, JobType
<1>7. TypeOK'
  BY <1>3, <1>5, <1>6 DEF ResetInstall, TypeOK, reqVars
<1>8. ExactAccounting'
  <2>1. \A a \in Accounts : inUse'[a] + forgotten'[a] = inUse[a] + forgotten[a]
    BY DEF ResetInstall, TypeOK
  <2> QED BY <2>1 DEF ResetInstall, ExactAccounting, Holders, reqVars
<1>9. WaitersWellFormed'
  <2>1. waiters' = <<>> /\ woken' = woken \cup ToSet(waiters) /\ pc' = pc
    BY DEF ResetInstall, reqVars
  <2>2. ToSet(waiters') = {} /\ IsInjective(waiters')
    BY <2>1 DEF ToSet, IsInjective
  <2> QED BY <2>1, <2>2 DEF WaitersWellFormed
<1> QED BY <1>7, <1>8, <1>9

\* New limits are installed and one waiter is woken.
LEMMA SettingsApplyInv ==
    ASSUME Inv, NEW w \in Admins, SettingsApply(w)
    PROVE  Inv'
<1> USE DEF Inv
<1>1. job[w] \in JobType
  BY DEF TypeOK
<1>2. Idle \in JobType /\ IsInjective(Idle.ids)
  BY DEF Idle, JobType, Steps, IsInjective
<1>3. /\ waiters' \in Seq(Requests) /\ IsInjective(waiters')
      /\ woken' \subseteq Requests
      /\ ToSet(waiters') \cap woken' = {}
      /\ ToSet(waiters') \cup woken' = ToSet(waiters) \cup woken
  BY NotifyFacts DEF SettingsApply, TypeOK, WaitersWellFormed
<1>4. limits' \in LimitsType
  BY <1>1 DEF SettingsApply, LimitsType, JobType
<1>5. /\ job' \in [Admins -> JobType]
      /\ \A v \in Admins : IsInjective(job'[v].ids)
  BY <1>2 DEF SettingsApply, TypeOK
<1>6. TypeOK'
  BY <1>3, <1>4, <1>5 DEF SettingsApply, TypeOK, reqVars
<1>7. ExactAccounting'
  BY AccountingFrame DEF SettingsApply, reqVars
<1>8. WaitersWellFormed'
  BY <1>3 DEF SettingsApply, WaitersWellFormed, reqVars
<1> QED BY <1>6, <1>7, <1>8

\* Every step keeps the invariant.
LEMMA NextInv == Inv /\ [Next]_vars => Inv'
<1> SUFFICES ASSUME Inv, [Next]_vars PROVE Inv'
  OBVIOUS
<1>1. ASSUME NEW r \in Requests, RequestStep(r) PROVE Inv'
  BY <1>1, QuietSteps, GrantInv, WaitingSteps, ReleaseInv, ReleaseAgainInv DEF RequestStep
<1>2. ASSUME NEW w \in Admins, AdminStep(w) PROVE Inv'
  BY <1>2, UnlockedSteps, ResetInstallInv, SettingsApplyInv DEF AdminStep, UnlockedStep
<1>3. CASE StoreChange
  <2>1. TypeOK'
    BY <1>3 DEF StoreChange, Inv, TypeOK, poolVars, reqVars
  <2>2. ExactAccounting'
    BY <1>3, AccountingFrame DEF StoreChange, Inv, poolVars, reqVars
  <2>3. WaitersWellFormed'
    BY <1>3, WaitersFrame DEF StoreChange, Inv, Parked, poolVars, reqVars
  <2> QED BY <2>1, <2>2, <2>3 DEF Inv
<1>4. CASE UNCHANGED vars
  <2>1. TypeOK'
    BY <1>4 DEF vars, poolVars, reqVars, Inv, TypeOK
  <2>2. ExactAccounting'
    BY <1>4, AccountingFrame DEF vars, poolVars, reqVars, Inv
  <2>3. WaitersWellFormed'
    BY <1>4, WaitersFrame DEF vars, poolVars, reqVars, Inv, Parked
  <2> QED BY <2>1, <2>2, <2>3 DEF Inv
<1> QED BY <1>1, <1>2, <1>3, <1>4 DEF Next

\* The books of the pool are in order whatever requests, releases, resets and changes of
\* the limits interleave (pool_acquire.go, pool_core.go, pool_waiters.go).
THEOREM PoolIsConsistent == Spec => []Inv
BY InitInv, NextInv, PTL DEF Spec

\* No slot is leaked or released twice by the pool (pool_core.go, Release).
THEOREM AccountingIsExact == Spec => []ExactAccounting
<1>1. Inv => ExactAccounting
  BY DEF Inv
<1> QED BY <1>1, PoolIsConsistent, PTL

-----------------------------------------------------------------------------
(* The waiters are served in the order in which they came.                 *)

\* Nobody but those who were notified with everybody before them, or whose client left.
ServedInOrder ==
    \A i, j \in DOMAIN waiters : i < j =>
        (waiters[i] \in ToSet(waiters') /\ waiters[j] \notin ToSet(waiters')
            => waiters[j] \in cancelled)

\* A step of the FIFO keeps it; whoever leaves it is its head, or everybody does, or one
\* whose client has left.
LEMMA WaitersMove ==
    ASSUME Inv, [Next]_vars
    PROVE  \/ waiters' = waiters
           \/ waiters # <<>> /\ waiters' = Tail(waiters)
           \/ waiters' = <<>>
           \/ \E r \in Requests : r \notin ToSet(waiters) /\ waiters' = Append(waiters, r)
           \/ \E r \in cancelled : waiters' = RemoveFirst(waiters, r)
<1>1. ASSUME NEW r \in Requests, RequestStep(r)
      PROVE  \/ waiters' = waiters
             \/ waiters # <<>> /\ waiters' = Tail(waiters)
             \/ r \notin ToSet(waiters) /\ waiters' = Append(waiters, r)
             \/ r \in cancelled /\ waiters' = RemoveFirst(waiters, r)
  <2>1. CASE \/ Begin(r) \/ Disconnect(r) \/ Grant(r) \/ Refuse(r) \/ GiveUp(r) \/ Wake(r)
             \/ SwitchTake(r) \/ SwitchFails(r)
    BY <2>1 DEF Begin, Disconnect, Grant, Refuse, GiveUp, Wake, SwitchTake, SwitchFails,
                poolVars
  <2>2. CASE Park(r)
    BY <2>2 DEF Park, Inv, WaitersWellFormed
  <2>3. CASE Abandon(r)
    BY <2>3 DEF Abandon
  <2>4. CASE Release(r) \/ SwitchBegin(r) \/ ReleaseAgain(r)
    BY <2>4 DEF Release, SwitchBegin, ReleaseAgain, FreeSlot, FreeSlotOfAnother, NotifyOne
  <2> QED BY <1>1, <2>1, <2>2, <2>3, <2>4 DEF RequestStep
<1>2. ASSUME NEW w \in Admins, AdminStep(w)
      PROVE  \/ waiters' = waiters
             \/ waiters # <<>> /\ waiters' = Tail(waiters)
             \/ waiters' = <<>>
  BY <1>2 DEF AdminStep, ResetScan, ResetPer, ResetRecommended, SettingsCount, SettingsPer,
              ReadMaxQueue, ReadGlobal, Unlocked, ResetInstall, SettingsApply, NotifyOne, poolVars
<1>3. CASE StoreChange \/ UNCHANGED vars
  BY <1>3 DEF StoreChange, poolVars, vars
<1> QED BY <1>1, <1>2, <1>3 DEF Next

LEMMA FifoStep ==
    ASSUME Inv, [Next]_vars
    PROVE  ServedInOrder /\ KeepsOrder(waiters, waiters')
<1>1. /\ waiters \in Seq(Requests) /\ IsInjective(waiters)
      /\ DOMAIN waiters = 1 .. Len(waiters) /\ Len(waiters) \in Nat
  BY DEF Inv, TypeOK, WaitersWellFormed
<1>2. CASE waiters' = waiters
  BY <1>1, <1>2 DEF ServedInOrder, KeepsOrder, IsInjective, ToSet
<1>3. CASE waiters # <<>> /\ waiters' = Tail(waiters)
  <2>1. ToSet(waiters') = ToSet(waiters) \ {Head(waiters)} /\ KeepsOrder(waiters, waiters')
    BY <1>1, <1>3, TailFacts, TailOrder
  <2>2. Head(waiters) = waiters[1]
    BY <1>1, <1>3
  <2>3. ASSUME NEW j \in DOMAIN waiters, waiters[j] \notin ToSet(waiters') PROVE j = 1
    <3>1. waiters[j] \in ToSet(waiters)
      BY DEF ToSet
    <3>2. waiters[j] = waiters[1]
      BY <2>1, <2>2, <2>3, <3>1
    <3>3. 1 \in DOMAIN waiters
      BY <1>1
    <3> QED BY <1>1, <3>2, <3>3 DEF IsInjective
  <2> QED BY <1>1, <2>1, <2>3 DEF ServedInOrder
<1>4. CASE waiters' = <<>>
  <2>1. DOMAIN waiters' = {} /\ ToSet(waiters') = {}
    BY <1>4 DEF ToSet
  <2> QED BY <2>1 DEF ServedInOrder, KeepsOrder
<1>5. ASSUME NEW r \in Requests, r \notin ToSet(waiters), waiters' = Append(waiters, r)
      PROVE  ServedInOrder /\ KeepsOrder(waiters, waiters')
  <2>1. ToSet(waiters') = ToSet(waiters) \cup {r} /\ KeepsOrder(waiters, waiters')
    BY <1>1, <1>5, AppendFacts, AppendOrder
  <2> QED BY <2>1 DEF ServedInOrder, ToSet
<1>6. ASSUME NEW r \in cancelled, waiters' = RemoveFirst(waiters, r)
      PROVE  ServedInOrder /\ KeepsOrder(waiters, waiters')
  <2>1. ToSet(waiters') = ToSet(waiters) \ {r} /\ KeepsOrder(waiters, waiters')
    BY <1>1, <1>6, RemoveFirstFacts, RemoveFirstOrder
  <2> QED BY <1>6, <2>1 DEF ServedInOrder, ToSet
<1> QED BY <1>2, <1>3, <1>4, <1>5, <1>6, WaitersMove

\* Nobody is notified before one who waits longer, whatever releases, resets, settings and
\* disconnections interleave (pool_waiters.go, notifyWaiterLocked, removeWaiterLocked).
THEOREM WaitersAreServedInOrder == Spec => FifoWakeups
<1> DEFINE Fifo ==
      \A i, j \in DOMAIN waiters : i < j =>
        /\ waiters[i] \in ToSet(waiters') /\ waiters[j] \notin ToSet(waiters')
            => waiters[j] \in cancelled
        /\ \A k, l \in DOMAIN waiters' :
            waiters'[k] = waiters[i] /\ waiters'[l] = waiters[j] => k < l
<1>1. Inv /\ [Next]_vars => Fifo
  BY FifoStep DEF ServedInOrder, KeepsOrder
<1>2. Inv /\ [Next]_vars => [Fifo]_vars
  BY <1>1
<1> QED BY <1>2, InitInv, NextInv, PTL DEF Spec, FifoWakeups
-----------------------------------------------------------------------------
(***************************************************************************)
(* As long as no slot is forgotten the pool keeps the promise of SlotPool. *)
(* It keeps counters and the abstract specification keeps the requests     *)
(* themselves: by ExactAccounting the counter of an account is the number  *)
(* of its holders, so numbering the holders of every account pairs each    *)
(* taken slot with one holder, and there are as many of the ones as of the *)
(* others over all accounts.                                               *)
(***************************************************************************)

Held == {r \in Requests : lease[r] # NoAccount}

\* The slots are pairs of an account and a number up to its counter.
LEMMA SlotIsPair ==
    \A x : x \in Slots <=> \E a \in Accounts : \E i \in 1 .. inUse[a] : x = <<a, i>>
BY DEF Slots

\* The requests that hold a slot are finitely many.
LEMMA HeldFinite == IsFiniteSet(Held) /\ Cardinality(Held) \in Nat
<1>1. Held \subseteq Requests
  BY DEF Held
<1> QED BY <1>1, ConstantsAssumption, FS_Subset, FS_CardinalityType

\* The holders of an account can be numbered up to its counter.
LEMMA HoldersNumbered ==
    ASSUME Inv, NothingForgotten, NEW a \in Accounts
    PROVE  Bijection(1 .. inUse[a], Holders(a)) # {}
<1>1. Holders(a) \subseteq Requests
  BY DEF Holders
<1>2. IsFiniteSet(Holders(a))
  BY <1>1, ConstantsAssumption, FS_Subset
<1>3. Cardinality(Holders(a)) = inUse[a]
  BY DEF Inv, ExactAccounting, NothingForgotten, TypeOK
<1>4. ExistsBijection(1 .. Cardinality(Holders(a)), Holders(a))
  BY <1>2, FS_CardinalityType
<1> QED BY <1>3, <1>4 DEF ExistsBijection

\* There are as many taken slots as requests that hold one.
LEMMA SlotsMatchHolders ==
    ASSUME Inv, NothingForgotten
    PROVE  Cardinality(Slots) = Cardinality(Held)
<1> DEFINE number == [a \in Accounts |-> CHOOSE f : f \in Bijection(1 .. inUse[a], Holders(a))]
<1>1. ASSUME NEW a \in Accounts PROVE number[a] \in Bijection(1 .. inUse[a], Holders(a))
  BY HoldersNumbered
<1> HIDE DEF number
<1>2. ASSUME NEW a \in Accounts
      PROVE  /\ \A i \in 1 .. inUse[a] : number[a][i] \in Holders(a)
             /\ \A i, j \in 1 .. inUse[a] : number[a][i] = number[a][j] => i = j
             /\ \A r \in Holders(a) : \E i \in 1 .. inUse[a] : number[a][i] = r
  BY <1>1 DEF Bijection, Injection, Surjection, IsInjective
<1> DEFINE holder == [x \in Slots |-> number[x[1]][x[2]]]
<1>3. ASSUME NEW a \in Accounts, NEW i \in 1 .. inUse[a]
      PROVE  <<a, i>> \in Slots /\ holder[<<a, i>>] = number[a][i]
  BY SlotIsPair
<1>4. ASSUME NEW x \in Slots
      PROVE  \E a \in Accounts : \E i \in 1 .. inUse[a] :
               x = <<a, i>> /\ holder[x] = number[a][i] /\ number[a][i] \in Holders(a)
  BY <1>2, <1>3, SlotIsPair
<1> HIDE DEF holder
<1>5. holder \in [Slots -> Held]
  <2>1. ASSUME NEW x \in Slots PROVE holder[x] \in Held
    BY <1>4, ConstantsAssumption DEF Holders, Held
  <2> QED BY <2>1 DEF holder
<1>6. ASSUME NEW x \in Slots, NEW y \in Slots, holder[x] = holder[y] PROVE x = y
  <2>1. PICK a \in Accounts : \E i \in 1 .. inUse[a] :
          x = <<a, i>> /\ holder[x] = number[a][i] /\ number[a][i] \in Holders(a)
    BY <1>4
  <2>2. PICK b \in Accounts : \E j \in 1 .. inUse[b] :
          y = <<b, j>> /\ holder[y] = number[b][j] /\ number[b][j] \in Holders(b)
    BY <1>4
  <2>3. a = b
    BY <1>6, <2>1, <2>2 DEF Holders
  <2> QED BY <1>2, <1>6, <2>1, <2>2, <2>3
<1>7. ASSUME NEW r \in Held PROVE \E x \in Slots : holder[x] = r
  <2>1. lease[r] \in Accounts /\ r \in Holders(lease[r])
    BY DEF Held, Holders, Inv, TypeOK
  <2>2. PICK i \in 1 .. inUse[lease[r]] : number[lease[r]][i] = r
    BY <1>2, <2>1
  <2> QED BY <1>3, <2>1, <2>2
<1>8. holder \in Bijection(Slots, Held)
  BY <1>5, <1>6, <1>7 DEF Bijection, Injection, Surjection, IsInjective
<1>9. ExistsBijection(Held, Slots)
  <2>1. ExistsBijection(Slots, Held)
    BY <1>8 DEF ExistsBijection
  <2> QED BY <2>1, Fun_ExistsBijSymmetric
<1> QED BY <1>9, HeldFinite, FS_Bijection

\* SlotPool counts with the same operator.
LEMMA SameCardinality == \A S : Promise!Cardinality(S) = Cardinality(S)
BY DEF Promise!Cardinality, Cardinality, Promise!IsFiniteSet, IsFiniteSet

\* Every step from a state in which no slot is forgotten is a step of SlotPool, or changes
\* nothing it sees.
LEMMA StepSimulates ==
    ASSUME Inv, NothingForgotten, [Next]_vars
    PROVE  [Promise!Next]_<<lease, limits.per, limits.global>>
<1>1. Inv /\ Inv'
  BY NextInv
<1>2. limits' \in LimitsType
  BY <1>1 DEF Inv, TypeOK
<1>3. UNCHANGED lease => Promise!SetLimits
  BY <1>2 DEF Promise!SetLimits, LimitsType
<1>4. ASSUME NEW r \in Requests, Grant(r) \/ SwitchTake(r) PROVE Promise!Next
  <2>1. PICK a \in Accounts : /\ FirstGrantable(want[r], a)
                              /\ lease' = [lease EXCEPT ![r] = a]
    BY <1>4 DEF Grant, SwitchTake
  <2>2. inUse[a] < limits.per /\ (limits.global > 0 => SlotsInUse < limits.global)
    BY <2>1 DEF FirstGrantable, Grantable, HasSlot
  <2>3. Cardinality(Promise!Holders(a)) < limits.per
    <3>1. Promise!Holders(a) = Holders(a)
      BY DEF Promise!Holders, Holders
    <3>2. Cardinality(Holders(a)) = inUse[a]
      BY DEF Inv, ExactAccounting, NothingForgotten, TypeOK
    <3> QED BY <2>2, <3>1, <3>2
  <2>4. limits.global > 0 => Cardinality(Promise!Held) < limits.global
    <3>1. Promise!Held = Held
      BY DEF Promise!Held, Held
    <3> QED BY <2>2, <3>1, SlotsMatchHolders DEF SlotsInUse
  <2>5. lease[r] = NoAccount /\ UNCHANGED limits
    BY <1>1, <1>4 DEF Grant, SwitchTake, Inv, TypeOK
  <2>6. Promise!Acquire(r, a)
    BY <2>1, <2>3, <2>4, <2>5, SameCardinality DEF Promise!Acquire
  <2> QED BY <2>6 DEF Promise!Next
<1>5. ASSUME NEW r \in Requests, Release(r) \/ SwitchBegin(r) PROVE Promise!Next
  <2>1. Promise!Release(r)
    BY <1>1, <1>5 DEF Release, SwitchBegin, Promise!Release, Inv, TypeOK
  <2> QED BY <2>1 DEF Promise!Next
<1>6. ASSUME NEW r \in Requests, RequestStep(r), ~(Grant(r) \/ SwitchTake(r)),
             ~(Release(r) \/ SwitchBegin(r))
      PROVE  UNCHANGED lease
  BY <1>6 DEF RequestStep, Begin, Disconnect, Park, Refuse, GiveUp, Wake, Abandon,
              SwitchFails, ReleaseAgain, Leave
<1>7. ASSUME NEW w \in Admins, AdminStep(w) PROVE UNCHANGED lease
  BY <1>7 DEF AdminStep, ResetScan, ResetPer, ResetRecommended, SettingsCount, SettingsPer,
              ReadMaxQueue, ReadGlobal, Unlocked, ResetInstall, SettingsApply, reqVars
<1>8. StoreChange \/ UNCHANGED vars => UNCHANGED lease
  BY DEF StoreChange, vars, reqVars
<1> QED BY <1>3, <1>4, <1>5, <1>6, <1>7, <1>8 DEF Next, Promise!Next

\* The initial states are initial states of SlotPool.
LEMMA InitSimulates == Init => Promise!Init
<1>1. Init => limits.per \in Nat \ {0} /\ limits.global \in Nat
  BY InitInv DEF Inv, TypeOK, LimitsType
<1> QED BY <1>1 DEF Init, Promise!Init

\* Whenever neither a rebuild nor a second release has made it forget a slot, the pool
\* grants none beyond the limits of the moment (pool_limits.go, canAcquireIDLocked; pool_core.go, Release).
THEOREM PoolKeepsPromise == Spec => KeepsPromise
<1>1. Inv /\ [Next]_vars => Inv'
  BY NextInv
<1>2. Inv /\ [Next]_vars => [NothingForgotten => Promise!Next]_<<lease, limits.per, limits.global>>
  BY StepSimulates
<1> QED BY <1>1, <1>2, InitInv, InitSimulates, PTL DEF Spec, KeepsPromise

-----------------------------------------------------------------------------
(***************************************************************************)
(* No request is left waiting with nobody to wake it, as long as clients   *)
(* do not disconnect and the accounts that can serve a request stay the    *)
(* same.  The limits may change and the pool may be rebuilt.  The          *)
(* invariant is strengthened with two facts: the rotation always holds the *)
(* accounts of the store, so who can serve a request never changes, and    *)
(* therefore every parked request can still be served.                     *)
(***************************************************************************)

\* The states of the store differ only in tokens and settings.
StableStore ==
    \A c, d \in Configs :
        c.order = d.order /\ c.sched = d.sched /\ c.type = d.type

RotationIsStore ==
    /\ ToSet(queue) = ToSet(store.order)
    /\ \A w \in Admins :
        job[w].task = "reset" => ToSet(job[w].ids) = ToSet(store.order)

ParkedCanBeServed == \A r \in Requests : pc[r] = "parked" => Candidates(want[r]) # {}

WaitInv == Inv /\ RotationIsStore /\ ParkedCanBeServed /\ NoStrandedWaiters

SomeSlotTaken == \E a \in Accounts : inUse[a] > 0

\* A request that can still be served and is about to try, or will when it
\* notices that its channel is closed.
Willing(r) == (pc[r] = "trying" \/ r \in woken) /\ Candidates(want[r]) # {}

\* A request that finds no slot, though some account can serve it, is held up
\* by a slot that is taken: the limits are positive.
LEMMA BlockedBySlot ==
    ASSUME TypeOK, NEW w \in WantType, Grantable(w) = {}, Candidates(w) # {}
    PROVE  SomeSlotTaken
<1>1. SUFFICES ASSUME \A a \in Accounts : inUse[a] = 0 PROVE FALSE
  BY DEF SomeSlotTaken, TypeOK
<1>2. Slots = {}
  BY <1>1 DEF Slots
<1>3. SlotsInUse = 0
  BY <1>2, FS_EmptySet DEF SlotsInUse
<1>4. limits.per \in Nat \ {0} /\ limits.global \in Nat
  BY DEF TypeOK, LimitsType
<1>5. PICK a : a \in Candidates(w)
  OBVIOUS
<1>6. a \in Accounts
  BY <1>5 DEF Candidates, Serves, TypeOK, WantType, ToSet
<1>7. HasSlot(a)
  BY <1>1, <1>3, <1>4, <1>6 DEF HasSlot
<1> QED BY <1>5, <1>7 DEF Grantable

\* The accounts that can serve a request do not change.
LEMMA CandidatesStable ==
    ASSUME StableStore, store \in Configs, store' \in Configs,
           ToSet(queue') = ToSet(queue), NEW w
    PROVE  Candidates(w)' = Candidates(w)
BY DEF StableStore, Candidates, Serves

\* Nor do the accounts of the store.
LEMMA StoreOrderStable ==
    ASSUME StableStore, Inv, Inv' PROVE store'.order = store.order
BY DEF StableStore, Inv, TypeOK

\* At first nobody waits.
LEMMA WaitInit == Init => WaitInv
<1> SUFFICES ASSUME Init PROVE WaitInv
  OBVIOUS
<1>1. ToSet(queue) = ToSet(store.order)
  BY ConfigsAssumption DEF Init
<1>2. RotationIsStore
  BY <1>1 DEF Init, RotationIsStore, Idle
<1>3. ParkedCanBeServed /\ NoStrandedWaiters
  BY DEF Init, ParkedCanBeServed, NoStrandedWaiters
<1> QED BY <1>2, <1>3, InitInv DEF WaitInv

\* The rotation keeps holding the accounts of the store.
LEMMA RotationNext ==
    ASSUME StableStore, WaitInv, [Next]_vars
    PROVE  RotationIsStore' /\ ToSet(queue') = ToSet(queue)
<1>1. Inv /\ Inv' /\ store'.order = store.order /\ RotationIsStore
  BY NextInv, StoreOrderStable DEF WaitInv
<1>2. ASSUME UNCHANGED <<queue, job>> PROVE RotationIsStore' /\ ToSet(queue') = ToSet(queue)
  BY <1>1, <1>2 DEF RotationIsStore
<1>3. ASSUME NEW r \in Requests, Grant(r) \/ SwitchTake(r)
      PROVE  RotationIsStore' /\ ToSet(queue') = ToSet(queue)
  <2>1. PICK a \in Accounts : Bump(a)
    BY <1>3 DEF Grant, SwitchTake, TakeSlot
  <2>2. ToSet(queue') = ToSet(queue)
    BY <1>1, <2>1, BumpFacts DEF Inv, TypeOK
  <2>3. job' = job
    BY <1>3 DEF Grant, SwitchTake
  <2> QED BY <1>1, <2>2, <2>3 DEF RotationIsStore
<1>4. ASSUME NEW r \in Requests, RequestStep(r), ~(Grant(r) \/ SwitchTake(r))
      PROVE  UNCHANGED <<queue, job>>
  BY <1>4 DEF RequestStep, Begin, Disconnect, Park, Refuse, GiveUp, Wake, Abandon,
              Release, SwitchBegin, SwitchFails, ReleaseAgain, poolVars
<1>5. ASSUME NEW w \in Admins, AdminStep(w)
      PROVE  RotationIsStore' /\ ToSet(queue') = ToSet(queue)
  <2>1. CASE ResetInstall(w)
    <3>1. job[w].task = "reset" /\ queue' = job[w].ids
      BY <2>1 DEF ResetInstall
    <3>2. \A v \in Admins : job'[v].task = "reset" => job'[v] = job[v]
      BY <1>1, <2>1 DEF ResetInstall, Inv, TypeOK, Idle
    <3> QED BY <1>1, <1>5, <3>1, <3>2 DEF RotationIsStore
  <2>2. CASE UnlockedStep(w)
    <3>1. PICK new \in JobType :
            /\ Unlocked(w, new)
            /\ ResetScan(w) => new.ids = ResetOrder(store)
            /\ ~ResetScan(w) /\ new.task = "reset"
                 => job[w].task = "reset" /\ new.ids = job[w].ids
      BY <1>1, <2>2, UnlockedRecord DEF Inv
    <3>2. ToSet(ResetOrder(store)) = ToSet(store.order)
      BY <1>1, ConfigsAssumption DEF Inv, TypeOK
    <3>3. job'[w] = new /\ \A v \in Admins : v # w => job'[v] = job[v]
      BY <1>1, <3>1 DEF Unlocked, Inv, TypeOK
    <3>4. queue' = queue
      BY <3>1 DEF Unlocked, poolVars
    <3> QED BY <1>1, <1>5, <3>1, <3>2, <3>3, <3>4 DEF RotationIsStore
  <2>3. CASE SettingsApply(w)
    <3>1. queue' = queue
      BY <2>3 DEF SettingsApply
    <3>2. \A v \in Admins : job'[v].task = "reset" => job'[v] = job[v]
      BY <1>1, <2>3 DEF SettingsApply, Inv, TypeOK, Idle
    <3> QED BY <1>1, <3>1, <3>2 DEF RotationIsStore
  <2> QED BY <1>5, <2>1, <2>2, <2>3 DEF AdminStep, UnlockedStep
<1>6. StoreChange \/ UNCHANGED vars => UNCHANGED <<queue, job>>
  BY DEF StoreChange, vars, poolVars
<1> QED BY <1>2, <1>3, <1>4, <1>5, <1>6 DEF Next

\* Every parked request can still be served.
LEMMA ParkedNext ==
    ASSUME WaitInv, [Next]_vars, \A w : Candidates(w)' = Candidates(w)
    PROVE  ParkedCanBeServed'
<1>1. Inv /\ ParkedCanBeServed
  BY DEF WaitInv
<1> SUFFICES ASSUME NEW r \in Requests, pc'[r] = "parked"
             PROVE  Candidates(want'[r]) # {}
  BY DEF ParkedCanBeServed
<1>2. CASE \E q \in Requests : RequestStep(q)
  <2>1. PICK q \in Requests : RequestStep(q)
    BY <1>2
  <2>2. \/ pc[r] = "parked" /\ want'[r] = want[r]
        \/ Park(r)
    BY <1>1, <2>1 DEF RequestStep, Begin, Disconnect, Grant, Park, Refuse, GiveUp, Wake,
       Abandon, Release, SwitchBegin, SwitchTake, SwitchFails, ReleaseAgain, Leave, Inv, TypeOK
  <2> QED BY <1>1, <2>2 DEF ParkedCanBeServed, Park, CanQueue
<1>3. CASE (\E w \in Admins : AdminStep(w)) \/ StoreChange \/ UNCHANGED vars
  <2>1. UNCHANGED <<pc, want>>
    BY <1>3 DEF AdminStep, ResetScan, ResetPer, ResetRecommended, SettingsCount, SettingsPer,
       ReadMaxQueue, ReadGlobal, Unlocked, ResetInstall, SettingsApply, StoreChange, vars,
       reqVars
  <2> QED BY <1>1, <2>1 DEF ParkedCanBeServed
<1> QED BY <1>2, <1>3 DEF Next

\* The waiters stay attended when no request leaves them, parks or gives up:
\* slots stay taken and those who were willing still are.
LEMMA AttendedFrame ==
    ASSUME NoStrandedWaiters, waiters' = waiters,
           SomeSlotTaken => SomeSlotTaken',
           \A r \in Requests : Willing(r) => Willing(r)'
    PROVE  NoStrandedWaiters'
BY DEF NoStrandedWaiters, SomeSlotTaken, Willing

\* A wake-up leaves the request it wakes willing.
LEMMA NotifyAttends ==
    ASSUME WaitInv, NotifyOne, \A w : Candidates(w)' = Candidates(w),
           \A q \in Requests : pc[q] = "parked" => want'[q] = want[q]
    PROVE  NoStrandedWaiters'
<1>1. CASE waiters = <<>>
  BY <1>1 DEF NotifyOne, NoStrandedWaiters
<1>2. CASE waiters # <<>>
  <2>1. Head(waiters) \in Requests /\ Head(waiters) \in ToSet(waiters)
    BY <1>2, TailFacts DEF WaitInv, Inv, TypeOK, WaitersWellFormed
  <2>2. PICK h \in Requests : h \in ToSet(waiters) /\ h \in woken'
    BY <1>2, <2>1 DEF NotifyOne
  <2>3. pc[h] = "parked"
    BY <2>2 DEF WaitInv, Inv, WaitersWellFormed
  <2>4. want'[h] = want[h] /\ Candidates(want[h]) # {}
    BY <2>3 DEF WaitInv, ParkedCanBeServed
  <2>5. Candidates(want[h])' # {}
    BY <2>4
  <2> QED BY <2>2, <2>5 DEF NoStrandedWaiters
<1> QED BY <1>1, <1>2

\* No step strands the waiters.
LEMMA StrandedNext ==
    ASSUME MayCancel = {}, WaitInv, [Next]_vars,
           \A w : Candidates(w)' = Candidates(w)
    PROVE  NoStrandedWaiters'
<1>1. Inv /\ Inv' /\ NoStrandedWaiters /\ cancelled = {}
  BY NextInv DEF WaitInv, Inv, TypeOK
<1>2. ASSUME NEW r \in Requests, RequestStep(r) PROVE NoStrandedWaiters'
  <2>1. CASE Begin(r)
    <3>1. \A q \in Requests : Willing(q) => Willing(q)'
      <4> SUFFICES ASSUME NEW q \in Requests, Willing(q) PROVE Willing(q)'
        OBVIOUS
      <4>1. q # r
        BY <1>1, <2>1 DEF Begin, Willing, Inv, WaitersWellFormed
      <4>2. pc'[q] = pc[q] /\ want'[q] = want[q] /\ woken' = woken
        BY <1>1, <2>1, <4>1 DEF Begin, poolVars, Inv, TypeOK
      <4> QED BY <4>2 DEF Willing
    <3>2. waiters' = waiters /\ inUse' = inUse
      BY <2>1 DEF Begin, poolVars
    <3> QED BY <1>1, <3>1, <3>2, AttendedFrame DEF SomeSlotTaken
  <2>2. CASE Disconnect(r) \/ GiveUp(r) \/ Abandon(r)
    BY <1>1, <2>2 DEF Disconnect, GiveUp, Abandon
  <2>3. CASE Grant(r) \/ SwitchTake(r)
    <3>1. PICK a \in Accounts : inUse' = [inUse EXCEPT ![a] = @ + 1]
      BY <2>3 DEF Grant, SwitchTake, TakeSlot
    <3>2. inUse'[a] > 0
      BY <1>1, <3>1 DEF Inv, TypeOK
    <3> QED BY <3>2 DEF NoStrandedWaiters
  <2>4. CASE Park(r)
    <3>1. SomeSlotTaken
      BY <1>1, <2>4, BlockedBySlot DEF Park, CanQueue, Inv, TypeOK
    <3> QED BY <2>4, <3>1 DEF Park, SomeSlotTaken, NoStrandedWaiters
  <2>5. CASE Refuse(r)
    <3>1. waiters' = waiters /\ inUse' = inUse /\ woken' = woken
      BY <2>5 DEF Refuse, poolVars
    <3>2. CASE SomeSlotTaken
      BY <3>1, <3>2 DEF SomeSlotTaken, NoStrandedWaiters
    <3>3. CASE ~SomeSlotTaken
      <4>1. Candidates(want[r]) = {}
        BY <1>1, <2>5, <3>3, BlockedBySlot DEF Refuse, Inv, TypeOK
      <4>2. \A q \in Requests : Willing(q) => Willing(q)'
        <5> SUFFICES ASSUME NEW q \in Requests, Willing(q) PROVE Willing(q)'
          OBVIOUS
        <5>1. q # r
          BY <4>1 DEF Willing
        <5>2. pc'[q] = pc[q] /\ want'[q] = want[q]
          BY <1>1, <2>5, <5>1 DEF Refuse, Leave, Inv, TypeOK
        <5> QED BY <3>1, <5>2 DEF Willing
      <4> QED BY <1>1, <3>1, <4>2, AttendedFrame DEF SomeSlotTaken
    <3> QED BY <3>2, <3>3
  <2>6. CASE Wake(r)
    <3>1. \A q \in Requests : Willing(q) => Willing(q)'
      BY <1>1, <2>6 DEF Wake, Willing, Inv, TypeOK
    <3>2. waiters' = waiters /\ inUse' = inUse
      BY <2>6 DEF Wake
    <3> QED BY <1>1, <3>1, <3>2, AttendedFrame DEF SomeSlotTaken
  <2>7. CASE Release(r) \/ SwitchBegin(r)
    <3>1. lease[r] \in Accounts /\ FreeSlot(lease[r])
      BY <1>1, <2>7 DEF Release, SwitchBegin, Inv, TypeOK
    <3>2. CASE inUse[lease[r]] = 0
      <4>1. waiters' = waiters /\ inUse' = inUse /\ woken' = woken
        BY <3>1, <3>2 DEF FreeSlot
      <4>2. \A q \in Requests : Willing(q) => Willing(q)'
        <5> SUFFICES ASSUME NEW q \in Requests, Willing(q) PROVE Willing(q)'
          OBVIOUS
        <5>1. q # r
          BY <1>1, <2>7 DEF Release, SwitchBegin, Willing, Inv, WaitersWellFormed
        <5>2. pc'[q] = pc[q] /\ want'[q] = want[q]
          BY <1>1, <2>7, <5>1 DEF Release, SwitchBegin, Leave, Inv, TypeOK
        <5> QED BY <4>1, <5>2 DEF Willing
      <4> QED BY <1>1, <4>1, <4>2, AttendedFrame DEF SomeSlotTaken
    <3>3. CASE inUse[lease[r]] # 0
      <4>1. NotifyOne
        BY <3>1, <3>3 DEF FreeSlot
      <4>2. \A q \in Requests : pc[q] = "parked" => want'[q] = want[q]
        BY <1>1, <2>7 DEF Release, SwitchBegin, Leave, Inv, TypeOK
      <4> QED BY <4>1, <4>2, NotifyAttends
    <3> QED BY <3>2, <3>3
  <2>8. CASE SwitchFails(r)
    <3>1. waiters' = waiters /\ inUse' = inUse
      BY <2>8 DEF SwitchFails, poolVars
    <3>2. \A q \in Requests : Willing(q) => Willing(q)'
      BY <1>1, <2>8 DEF SwitchFails, poolVars, Willing, Inv, TypeOK
    <3> QED BY <1>1, <3>1, <3>2, AttendedFrame DEF SomeSlotTaken
  <2>9. CASE ReleaseAgain(r)
    <3>1. named[r] \in Accounts /\ FreeSlotOfAnother(named[r])
      BY <1>1, <2>9 DEF ReleaseAgain, Inv, TypeOK
    <3>2. CASE inUse[named[r]] = 0
      <4>1. waiters' = waiters /\ inUse' = inUse /\ woken' = woken
        BY <3>1, <3>2 DEF FreeSlotOfAnother
      <4>2. \A q \in Requests : Willing(q) => Willing(q)'
        <5> SUFFICES ASSUME NEW q \in Requests, Willing(q) PROVE Willing(q)'
          OBVIOUS
        <5>1. q # r
          BY <1>1, <2>9 DEF ReleaseAgain, Willing, Inv, WaitersWellFormed
        <5>2. pc'[q] = pc[q] /\ want'[q] = want[q]
          BY <1>1, <2>9, <5>1 DEF ReleaseAgain, Leave, Inv, TypeOK
        <5> QED BY <4>1, <5>2 DEF Willing
      <4> QED BY <1>1, <4>1, <4>2, AttendedFrame DEF SomeSlotTaken
    <3>3. CASE inUse[named[r]] # 0
      <4>1. NotifyOne
        BY <3>1, <3>3 DEF FreeSlotOfAnother
      <4>2. \A q \in Requests : pc[q] = "parked" => want'[q] = want[q]
        BY <1>1, <2>9 DEF ReleaseAgain, Leave, Inv, TypeOK
      <4> QED BY <4>1, <4>2, NotifyAttends
    <3> QED BY <3>2, <3>3
  <2> QED BY <1>2, <2>1, <2>2, <2>3, <2>4, <2>5, <2>6, <2>7, <2>8, <2>9 DEF RequestStep
<1>3. ASSUME NEW w \in Admins, AdminStep(w) PROVE NoStrandedWaiters'
  <2>1. CASE UnlockedStep(w)
    <3>1. UNCHANGED <<waiters, inUse, woken, pc, want>>
      BY <2>1 DEF UnlockedStep, ResetScan, ResetPer, ResetRecommended, SettingsCount,
         SettingsPer, ReadMaxQueue, ReadGlobal, Unlocked, poolVars, reqVars
    <3> QED BY <1>1, <3>1, AttendedFrame DEF SomeSlotTaken, Willing
  <2>2. CASE ResetInstall(w)
    BY <2>2 DEF ResetInstall, NoStrandedWaiters
  <2>3. CASE SettingsApply(w)
    <3>1. NotifyOne /\ want' = want /\ pc' = pc
      BY <2>3 DEF SettingsApply, reqVars
    <3> QED BY <3>1, NotifyAttends
  <2> QED BY <1>3, <2>1, <2>2, <2>3 DEF AdminStep, UnlockedStep
<1>4. CASE StoreChange \/ UNCHANGED vars
  <2>1. UNCHANGED <<waiters, inUse, woken, pc, want>>
    BY <1>4 DEF StoreChange, vars, poolVars, reqVars
  <2> QED BY <1>1, <2>1, AttendedFrame DEF SomeSlotTaken, Willing
<1> QED BY <1>2, <1>3, <1>4 DEF Next

\* A parked request always has somebody who is bound to wake it: a slot is
\* taken, or a request that can be served is about to try (pool_waiters.go,
\* notifyWaiterLocked; pool_acquire.go, AcquireWait).
THEOREM NobodyIsStranded ==
    ASSUME MayCancel = {}, StableStore
    PROVE  Spec => []NoStrandedWaiters
<1>1. WaitInv /\ [Next]_vars => WaitInv'
  <2> SUFFICES ASSUME WaitInv, [Next]_vars PROVE WaitInv'
    OBVIOUS
  <2>1. Inv' /\ RotationIsStore' /\ ToSet(queue') = ToSet(queue)
    BY NextInv, RotationNext DEF WaitInv
  <2>2. ASSUME NEW w PROVE Candidates(w)' = Candidates(w)
    BY <2>1, CandidatesStable DEF WaitInv, Inv, TypeOK
  <2> QED BY <2>1, <2>2, ParkedNext, StrandedNext DEF WaitInv
<1>2. WaitInv => NoStrandedWaiters
  BY DEF WaitInv
<1> QED BY <1>1, <1>2, WaitInit, PTL DEF Spec

-----------------------------------------------------------------------------

\* The accounts of a store, as the loops see them.
Stored(seq, typ, mut) ==
  /\ seq \in Seq(Identifiers) /\ IsInjective(seq)
  /\ typ \in [Identifiers -> AllTypes] /\ mut \in SUBSET Identifiers

\* The accounts of type t among the first n of 'seq' that are not muted.
Unmuted(seq, typ, mut, t, n) ==
  {a \in ToSet(seq) : typ[a] = t /\ a \notin mut /\ \E k \in 1 .. n : k \in DOMAIN seq /\ seq[k] = a}

\* The k-th account of its type comes too late for the quota, or may not have a place.
Late(seq, typ, mut, t, count, k) ==
  seq[k] \in mut \/ Cardinality(Unmuted(seq, typ, mut, t, k - 1)) >= count

LEMMA UnmutedFacts ==
  ASSUME NEW seq, NEW typ, NEW mut, Stored(seq, typ, mut), NEW t \in AllTypes
  PROVE  /\ Unmuted(seq, typ, mut, t, 0) = {}
         /\ \A n \in Nat : /\ IsFiniteSet(Unmuted(seq, typ, mut, t, n))
                           /\ Cardinality(Unmuted(seq, typ, mut, t, n)) \in Nat
         /\ \A n \in 1 .. Len(seq) :
              IF typ[seq[n]] = t /\ seq[n] \notin mut
              THEN Cardinality(Unmuted(seq, typ, mut, t, n)) = Cardinality(Unmuted(seq, typ, mut, t, n - 1)) + 1
              ELSE Unmuted(seq, typ, mut, t, n) = Unmuted(seq, typ, mut, t, n - 1)
<1> DEFINE H(n) == Unmuted(seq, typ, mut, t, n)
<1>0. /\ seq \in Seq(Identifiers) /\ IsInjective(seq)
      /\ typ \in [Identifiers -> AllTypes] /\ mut \in SUBSET Identifiers
  BY DEF Stored
<1>1. H(0) = {}
  BY DEF Unmuted
<1>2. ASSUME NEW n \in Nat PROVE IsFiniteSet(H(n)) /\ Cardinality(H(n)) \in Nat
  <2>1. H(n) \subseteq Identifiers
    BY <1>0 DEF Unmuted, ToSet
  <2> HIDE DEF H
  <2> QED BY <2>1, ElasticAssumption, FS_Subset, FS_CardinalityType
<1>3. ASSUME NEW n \in 1 .. Len(seq)
      PROVE  IF typ[seq[n]] = t /\ seq[n] \notin mut THEN Cardinality(H(n)) = Cardinality(H(n - 1)) + 1
             ELSE H(n) = H(n - 1)
  <2>1. Len(seq) \in Nat /\ DOMAIN seq = 1 .. Len(seq) /\ seq[n] \in ToSet(seq) /\ n - 1 \in Nat
    BY <1>0 DEF ToSet
  <2>2. ASSUME NEW a \in ToSet(seq)
        PROVE  (\E k \in 1 .. n : k \in DOMAIN seq /\ seq[k] = a)
                 <=> (a = seq[n] \/ \E k \in 1 .. n - 1 : k \in DOMAIN seq /\ seq[k] = a)
    BY <2>1
  <2>3. CASE typ[seq[n]] = t /\ seq[n] \notin mut
    <3>1. H(n) = H(n - 1) \union {seq[n]}
      BY <2>1, <2>2, <2>3 DEF Unmuted
    <3>2. seq[n] \notin H(n - 1)
      BY <1>0, <2>1 DEF Unmuted, IsInjective
    <3>3. IsFiniteSet(H(n - 1))
      BY <1>2, <2>1
    <3> HIDE DEF H
    <3> QED BY <2>3, <3>1, <3>2, <3>3, FS_AddElement
  <2>4. CASE ~(typ[seq[n]] = t /\ seq[n] \notin mut)
    BY <2>1, <2>2, <2>4 DEF Unmuted
  <2> QED BY <2>3, <2>4
<1> QED BY <1>1, <1>2, <1>3

\* What a pass of reconcileGroupFiltered carries along.
Passes == [disabled : SUBSET Identifiers, used : Nat]

LEMMA TurnType ==
  ASSUME NEW seq, NEW typ, NEW mut, Stored(seq, typ, mut),
         NEW st \in Passes, NEW a \in Identifiers, NEW t \in AllTypes, NEW count \in Nat
  PROVE  Turn(st, a, t, count, typ, mut) \in Passes
<1>1. [st EXCEPT !.disabled = @ \cup {a}] \in Passes
  BY DEF Passes
<1>2. [disabled |-> st.disabled \ {a}, used |-> st.used + 1] \in Passes
  BY DEF Passes
<1> QED BY <1>1, <1>2 DEF Turn, ApplyElasticState

LEMMA GroupLoop ==
  ASSUME NEW seq, NEW typ, NEW mut, Stored(seq, typ, mut), NEW base \in Passes,
         NEW t \in AllTypes, NEW count \in Nat
  PROVE  \E f : f = [i \in 0 .. Len(seq) |->
                       IF i = 0 THEN base
                       ELSE Turn(f[i - 1], seq[i], t, count, typ, mut)]
<1> DEFINE V == Passes
           n == Len(seq)
           step == [i \in Nat |-> [v \in V |->
                      IF i \in 1 .. n THEN Turn(v, seq[i], t, count, typ, mut) ELSE v]]
<1>2. n \in Nat /\ \A i \in 1 .. n : seq[i] \in Identifiers
  BY DEF Stored
<1> HIDE DEF n
<1>3. step \in [Nat -> [V -> V]]
  BY <1>2, TurnType
<1>4. \A i \in 1 .. n, v \in V : step[i][v] = Turn(v, seq[i], t, count, typ, mut)
  BY <1>2
<1> HIDE DEF V, step
<1>5. PICK f \in [0 .. n -> V] : Iterates(f, n, base, step)
  BY <1>2, <1>3, Recursion DEF V
<1>6. \A i \in 1 .. n : f[i] = Turn(f[i - 1], seq[i], t, count, typ, mut)
  BY <1>2, <1>4, <1>5 DEF Iterates
<1>7. f = [i \in 0 .. n |-> IF i = 0 THEN base ELSE Turn(f[i - 1], seq[i], t, count, typ, mut)]
  BY <1>2, <1>5, <1>6 DEF Iterates
<1> QED BY <1>7 DEF n

\* What a pass over the accounts leaves disabled: those of its type that come too late or
\* are muted, and of the others the ones that were.
Regrouped(d, seq, t, count, typ, dis, mut) ==
  /\ d \in SUBSET Identifiers
  /\ \A k \in 1 .. Len(seq) :
       seq[k] \in d <=> IF typ[seq[k]] = t THEN Late(seq, typ, mut, t, count, k) ELSE seq[k] \in dis
  /\ \A x : x \notin ToSet(seq) => (x \in d <=> x \in dis)

\* reconcileGroupFiltered: an account of the type is disabled when it comes too late or is
\* muted, and the others are left alone.
LEMMA GroupFacts ==
  ASSUME NEW seq, NEW typ, NEW mut, Stored(seq, typ, mut), NEW dis \in SUBSET Identifiers,
         NEW t \in AllTypes, NEW count \in Nat
  PROVE  Regrouped(ReconcileGroup(seq, t, count, typ, dis, mut), seq, t, count, typ, dis, mut)
<1> DEFINE base == [disabled |-> dis, used |-> 0]
           n == Len(seq)
           g == CHOOSE f : f = [i \in 0 .. Len(seq) |->
                       IF i = 0 THEN base
                       ELSE Turn(f[i - 1], seq[i], t, count, typ, mut)]
           h(i) == Cardinality(Unmuted(seq, typ, mut, t, i))
           early(k, i) == k <= i /\ typ[seq[k]] = t
           late(k) == Late(seq, typ, mut, t, count, k)
           P(v, i) ==
                 /\ v \in Passes
                 /\ v.used = IF h(i) < count THEN h(i) ELSE count
                 /\ \A k \in 1 .. n :
                      seq[k] \in v.disabled <=> IF early(k, i) THEN late(k) ELSE seq[k] \in dis
                 /\ \A x : x \notin ToSet(seq) => (x \in v.disabled <=> x \in dis)
<1>10. /\ seq \in Seq(Identifiers) /\ IsInjective(seq)
      /\ typ \in [Identifiers -> AllTypes] /\ mut \in SUBSET Identifiers
  BY DEF Stored
<1>1. ReconcileGroup(seq, t, count, typ, dis, mut) = g[n].disabled
  BY DEF ReconcileGroup
<1>0. base \in Passes
  BY DEF Passes
<1> HIDE DEF base
<1>2. g = [i \in 0 .. Len(seq) |->
                       IF i = 0 THEN base
                       ELSE Turn(g[i - 1], seq[i], t, count, typ, mut)]
  <2>1. \E f : f = [i \in 0 .. Len(seq) |->
                       IF i = 0 THEN base
                       ELSE Turn(f[i - 1], seq[i], t, count, typ, mut)]
    BY <1>0, GroupLoop
  <2> QED BY <2>1, Zenon
<1> HIDE DEF g
<1>3. /\ n \in Nat /\ DOMAIN seq = 1 .. n /\ g[0] = base
      /\ \A i \in 1 .. n : seq[i] \in Identifiers /\ seq[i] \in ToSet(seq)
                           /\ g[i] = Turn(g[i - 1], seq[i], t, count, typ, mut)
  <2>1. n \in Nat /\ DOMAIN seq = 1 .. n /\ \A i \in 1 .. n : seq[i] \in Identifiers /\ seq[i] \in ToSet(seq)
    BY <1>10 DEF ToSet
  <2> HIDE DEF n
  <2> QED BY <1>2, <2>1 DEF n
<1>4. /\ h(0) = 0 /\ \A i \in Nat : h(i) \in Nat
      /\ \A i \in 1 .. n : h(i) = IF typ[seq[i]] = t /\ seq[i] \notin mut THEN h(i - 1) + 1 ELSE h(i - 1)
  <2>1. /\ Unmuted(seq, typ, mut, t, 0) = {}
        /\ \A i \in Nat : h(i) \in Nat
        /\ \A i \in 1 .. n : IF typ[seq[i]] = t /\ seq[i] \notin mut THEN h(i) = h(i - 1) + 1
                             ELSE Unmuted(seq, typ, mut, t, i) = Unmuted(seq, typ, mut, t, i - 1)
    BY UnmutedFacts
  <2>2. h(0) = 0
    BY <2>1, FS_EmptySet
  <2> QED BY <2>1, <2>2
<1> HIDE DEF n, h
<1>5. P(g[0], 0)
  <2>1. base.used = 0 /\ base.disabled = dis
    BY DEF base
  <2>2. \A k \in 1 .. n : ~early(k, 0)
    BY <1>3
  <2> HIDE DEF early, late
  <2>3. g[0].used = 0 /\ g[0].disabled = dis /\ g[0] \in Passes
    BY <1>0, <1>3, <2>1
  <2>4. g[0].used = IF h(0) < count THEN h(0) ELSE count
    BY <1>4, <2>3
  <2>5. \A k \in 1 .. n : seq[k] \in g[0].disabled <=> IF early(k, 0) THEN late(k) ELSE seq[k] \in dis
    BY <2>2, <2>3
  <2> QED BY <2>3, <2>4, <2>5
<1>6. ASSUME NEW i \in 1 .. n, P(g[i - 1], i - 1) PROVE P(g[i], i)
  <2> DEFINE v == g[i - 1]
             w == g[i]
             a == seq[i]
  <2>1. /\ v \in Passes /\ v.used = IF h(i - 1) < count THEN h(i - 1) ELSE count
        /\ \A k \in 1 .. n : seq[k] \in v.disabled <=> IF early(k, i - 1) THEN late(k) ELSE seq[k] \in dis
        /\ \A x : x \notin ToSet(seq) => (x \in v.disabled <=> x \in dis)
        /\ h(i - 1) \in Nat /\ h(i) \in Nat /\ a \in Identifiers /\ a \in ToSet(seq)
    <3> HIDE DEF early, late
    <3>1. i - 1 \in Nat /\ i \in Nat
      BY <1>3
    <3> QED BY <1>3, <1>4, <1>6, <3>1
  <2>2. w = Turn(v, a, t, count, typ, mut)
    BY <1>3
  <2>3. w \in Passes
    BY <2>1, <2>2, TurnType
  <2>4. late(i) <=> (a \in mut \/ h(i - 1) >= count)
    BY DEF Late, h
  <2>5. \A k \in 1 .. n : k # i => seq[k] # a
    BY <1>3, <1>10 DEF IsInjective
  <2>6. \A k \in 1 .. n : k # i => (early(k, i) <=> early(k, i - 1))
    BY <1>3
  <2>7. h(i) = IF typ[a] = t /\ a \notin mut THEN h(i - 1) + 1 ELSE h(i - 1)
    BY <1>4
  <2> HIDE DEF v, w, a, late
  <2>8. CASE typ[a] # t
    <3>1. w = v
      BY <2>2, <2>8 DEF Turn
    <3>2. h(i) = h(i - 1) /\ \A k \in 1 .. n : (early(k, i) <=> early(k, i - 1))
      BY <2>6, <2>7, <2>8, <1>3 DEF a
    <3> HIDE DEF early
    <3> QED BY <2>1, <2>3, <3>1, <3>2 DEF w
  <2>9. CASE typ[a] = t
    <3>1. early(i, i)
      BY <2>9, <1>3 DEF a
    <3>2. /\ w.used = IF a \in mut THEN v.used ELSE IF v.used < count THEN v.used + 1 ELSE v.used
          /\ w.disabled = IF a \in mut \/ v.used >= count THEN v.disabled \union {a} ELSE v.disabled \ {a}
      BY <2>1, <2>2, <2>9 DEF Turn, ApplyElasticState, Passes
    <3>3. w.used = IF h(i) < count THEN h(i) ELSE count
      BY <2>1, <2>7, <2>9, <3>2
    <3>4. v.used >= count <=> h(i - 1) >= count
      BY <2>1
    <3>5. a \in w.disabled <=> late(i)
      BY <2>4, <3>2, <3>4
    <3>6. \A x : x # a => (x \in w.disabled <=> x \in v.disabled)
      BY <3>2
    <3>7. \A k \in 1 .. n : seq[k] \in w.disabled <=> IF early(k, i) THEN late(k) ELSE seq[k] \in dis
      <4> SUFFICES ASSUME NEW k \in 1 .. n
                   PROVE  seq[k] \in w.disabled <=> IF early(k, i) THEN late(k) ELSE seq[k] \in dis
        OBVIOUS
      <4> HIDE DEF early
      <4>1. CASE k = i
        BY <3>1, <3>5, <4>1 DEF a
      <4>2. CASE k # i
        BY <2>1, <2>5, <2>6, <3>6, <4>2
      <4> QED BY <4>1, <4>2
    <3>8. \A x : x \notin ToSet(seq) => (x \in w.disabled <=> x \in dis)
      BY <2>1, <3>6
    <3> HIDE DEF early
    <3> QED BY <2>3, <3>3, <3>7, <3>8 DEF w
  <2> QED BY <2>8, <2>9
<1>7. P(g[n], n)
  <2> DEFINE T == {i \in Nat : i <= n => P(g[i], i)}
  <2>1. 0 \in T
    BY <1>5
  <2>2. ASSUME NEW i \in T PROVE i + 1 \in T
    <3> HIDE DEF P
    <3>1. i \in Nat /\ (i <= n => P(g[i], i))
      OBVIOUS
    <3>2. ASSUME i + 1 <= n PROVE P(g[i + 1], i + 1)
      <4>1. i + 1 \in 1 .. n /\ (i + 1) - 1 = i
        BY <1>3, <3>1, <3>2
      <4> QED BY <1>6, <3>1, <3>2, <4>1, <1>3
    <3> QED BY <3>1, <3>2
  <2> HIDE DEF P
  <2>3. T \in SUBSET Nat
    OBVIOUS
  <2> HIDE DEF T
  <2>4. T = Nat
    BY <2>1, <2>2, <2>3, Induction
  <2> QED BY <1>3, <2>4 DEF T
<1>8. \A k \in 1 .. n : early(k, n) <=> typ[seq[k]] = t
  BY <1>3
<1> HIDE DEF early, late
<1>9. /\ g[n].disabled \in SUBSET Identifiers
      /\ \A k \in 1 .. n :
           seq[k] \in g[n].disabled <=> IF typ[seq[k]] = t THEN late(k) ELSE seq[k] \in dis
      /\ \A x : x \notin ToSet(seq) => (x \in g[n].disabled <=> x \in dis)
  BY <1>7, <1>8 DEF Passes
<1> QED BY <1>1, <1>9 DEF late, n, Regrouped

\* ReconcileElasticPool: each account of the store by its type and its place.
LEMMA ReconcileFacts ==
  ASSUME NEW seq, NEW typ, NEW mut, Stored(seq, typ, mut), NEW dis \in SUBSET ToSet(seq),
         NEW ep \in [enabled : BOOLEAN, quota : [AllTypes -> Nat]]
  PROVE  LET d == Reconcile(seq, ep, typ, dis, mut)
         IN  /\ d \in SUBSET ToSet(seq)
             /\ \A k \in 1 .. Len(seq) :
                  seq[k] \in d <=> Late(seq, typ, mut, typ[seq[k]], ep.quota[typ[seq[k]]], k)
<1> DEFINE d1 == ReconcileGroup(seq, "default", ep.quota["default"], typ, dis, mut)
           d2 == ReconcileGroup(seq, "no_tools", ep.quota["no_tools"], typ, d1, mut)
           d3 == ReconcileGroup(seq, "tools_only", ep.quota["tools_only"], typ, d2, mut)
           late(t, k) == Late(seq, typ, mut, t, ep.quota[t], k)
<1>1. /\ seq \in Seq(Identifiers) /\ typ \in [Identifiers -> AllTypes] /\ dis \in SUBSET Identifiers
      /\ \A k \in 1 .. Len(seq) : typ[seq[k]] \in AllTypes
      /\ \A t \in AllTypes : ep.quota[t] \in Nat
      /\ "default" \in AllTypes /\ "no_tools" \in AllTypes /\ "tools_only" \in AllTypes
  BY DEF Stored, ToSet, AllTypes
<1>2. Reconcile(seq, ep, typ, dis, mut) = d3
  BY DEF Reconcile
<1>3. /\ d1 \in SUBSET Identifiers
      /\ \A k \in 1 .. Len(seq) :
           seq[k] \in d1 <=> IF typ[seq[k]] = "default" THEN late("default", k) ELSE seq[k] \in dis
      /\ \A x : x \notin ToSet(seq) => (x \in d1 <=> x \in dis)
  <2>1. Regrouped(d1, seq, "default", ep.quota["default"], typ, dis, mut)
    BY <1>1, GroupFacts
  <2> HIDE DEF d1
  <2> QED BY <2>1 DEF Regrouped
<1> HIDE DEF d1
<1>4. /\ d2 \in SUBSET Identifiers
      /\ \A k \in 1 .. Len(seq) :
           seq[k] \in d2 <=> IF typ[seq[k]] = "no_tools" THEN late("no_tools", k) ELSE seq[k] \in d1
      /\ \A x : x \notin ToSet(seq) => (x \in d2 <=> x \in d1)
  <2>1. Regrouped(d2, seq, "no_tools", ep.quota["no_tools"], typ, d1, mut)
    BY <1>1, <1>3, GroupFacts
  <2> HIDE DEF d2
  <2> QED BY <2>1 DEF Regrouped
<1> HIDE DEF d2
<1>5. /\ d3 \in SUBSET Identifiers
      /\ \A k \in 1 .. Len(seq) :
           seq[k] \in d3 <=> IF typ[seq[k]] = "tools_only" THEN late("tools_only", k) ELSE seq[k] \in d2
      /\ \A x : x \notin ToSet(seq) => (x \in d3 <=> x \in d2)
  <2>1. Regrouped(d3, seq, "tools_only", ep.quota["tools_only"], typ, d2, mut)
    BY <1>1, <1>4, GroupFacts
  <2> HIDE DEF d3
  <2> QED BY <2>1 DEF Regrouped
<1> HIDE DEF d3, late
<1>6. d3 \in SUBSET ToSet(seq)
  BY <1>3, <1>4, <1>5
<1>7. ASSUME NEW k \in 1 .. Len(seq) PROVE seq[k] \in d3 <=> late(typ[seq[k]], k)
  <2>1. typ[seq[k]] = "default" \/ typ[seq[k]] = "no_tools" \/ typ[seq[k]] = "tools_only"
    BY <1>1 DEF AllTypes
  <2> QED BY <1>3, <1>4, <1>5, <2>1
<1> QED BY <1>2, <1>6, <1>7 DEF late

\* The first accounts of each type, as the property counts them.
LEMMA FirstIsNotLate ==
  ASSUME Stored(order', type', muted'), elastic' \in [enabled : BOOLEAN, quota : [AllTypes -> Nat]],
         NEW k \in 1 .. Len(order')
  PROVE  FirstN(order[k])' <=>
           ~Late(order', type', muted', type'[order'[k]], elastic'.quota[type'[order'[k]]], k)
<1> DEFINE a == order'[k]
           pos(b) == CHOOSE i \in DOMAIN order' : order'[i] = b
           H == Unmuted(order', type', muted', type'[a], k - 1)
           A == {b \in ToSet(order') : type'[b] = type'[a] /\ b \notin muted' /\ pos(b) < pos(a)}
<1>1. /\ DOMAIN order' = 1 .. Len(order') /\ Len(order') \in Nat
      /\ \A i, j \in 1 .. Len(order') : order'[i] = order'[j] => i = j
  BY DEF Stored, IsInjective
<1>2. \A i \in 1 .. Len(order') : pos(order'[i]) = i
  BY <1>1
<1>3. \A b \in ToSet(order') : \E i \in 1 .. Len(order') : order'[i] = b
  BY <1>1 DEF ToSet
<1>4. FirstN(order[k])' <=> (a \notin muted' /\ Cardinality(A) < elastic'.quota[type'[a]])
  <2>1. Ahead(order[k])' = A
    BY DEF Ahead, Group, Present
  <2> HIDE DEF A
  <2> QED BY <2>1 DEF FirstN
<1> HIDE DEF pos
<1>5. A = H
  <2>1. ASSUME NEW b \in ToSet(order')
        PROVE  pos(b) < pos(a) <=> \E i \in 1 .. k - 1 : i \in DOMAIN order' /\ order'[i] = b
    <3>1. PICK i \in 1 .. Len(order') : order'[i] = b
      BY <1>3
    <3>2. pos(b) = i /\ pos(a) = k
      BY <1>2, <3>1
    <3> QED BY <1>1, <3>1, <3>2
  <2> QED BY <2>1 DEF Unmuted
<1>6. H = Unmuted(order', type', muted', type'[a], k - 1)
  OBVIOUS
<1>7. Cardinality(H) \in Nat /\ type'[a] \in AllTypes
  <2>1. type'[a] \in AllTypes /\ k - 1 \in Nat
    BY <1>1 DEF Stored
  <2> QED BY <2>1, UnmutedFacts
<1> HIDE DEF A, H
<1>8. Late(order', type', muted', type'[a], elastic'.quota[type'[a]], k)
        <=> (a \in muted' \/ Cardinality(H) >= elastic'.quota[type'[a]])
  BY <1>6 DEF Late
<1> QED BY <1>4, <1>5, <1>7, <1>8

\* The accounts of type t that come early enough fill the quota as far as there are accounts
\* that are not muted, and never more.
LEMMA EarlyFillQuota ==
  ASSUME NEW seq, NEW typ, NEW mut, Stored(seq, typ, mut), NEW t \in AllTypes, NEW count \in Nat,
         NEW on, on = {a \in ToSet(seq) : typ[a] = t /\ \E k \in 1 .. Len(seq) :
                                            seq[k] = a /\ ~Late(seq, typ, mut, t, count, k)}
  PROVE  /\ Cardinality(on) <= count
         /\ Cardinality(on) < count => \A k \in 1 .. Len(seq) : typ[seq[k]] = t => seq[k] \in mut \cup on
<1> DEFINE n == Len(seq)
           H(i) == Unmuted(seq, typ, mut, t, i)
           h(i) == Cardinality(H(i))
           late(k) == Late(seq, typ, mut, t, count, k)
           E(i) == {a \in ToSet(seq) : typ[a] = t /\ \E k \in 1 .. n : k <= i /\ seq[k] = a /\ ~late(k)}
           filled(i) == IF h(i) < count THEN h(i) ELSE count
<1>1. /\ n \in Nat /\ DOMAIN seq = 1 .. n /\ ToSet(seq) \subseteq Identifiers
      /\ \A i, j \in 1 .. n : seq[i] = seq[j] => i = j
      /\ \A i \in 1 .. n : seq[i] \in ToSet(seq)
  BY DEF Stored, IsInjective, ToSet
<1>2. /\ H(0) = {} /\ \A i \in Nat : IsFiniteSet(H(i)) /\ h(i) \in Nat
      /\ \A i \in 1 .. n : IF typ[seq[i]] = t /\ seq[i] \notin mut THEN h(i) = h(i - 1) + 1
                           ELSE H(i) = H(i - 1)
  BY UnmutedFacts
<1>3. \A k \in 1 .. n : late(k) <=> (seq[k] \in mut \/ h(k - 1) >= count)
  BY DEF Late
<1>4. \A i \in Nat : IsFiniteSet(E(i)) /\ Cardinality(E(i)) \in Nat
  <2> SUFFICES ASSUME NEW i \in Nat PROVE IsFiniteSet(E(i)) /\ Cardinality(E(i)) \in Nat
    OBVIOUS
  <2>1. E(i) \subseteq Identifiers
    BY <1>1
  <2> HIDE DEF E
  <2> QED BY <2>1, ElasticAssumption, FS_Subset, FS_CardinalityType
<1>5. Cardinality(E(0)) = filled(0)
  <2>1. E(0) = {}
    BY <1>1
  <2>2. Cardinality(E(0)) = 0 /\ h(0) = 0
    <3> HIDE DEF E, H
    <3> QED BY <1>2, <2>1, FS_EmptySet
  <2> HIDE DEF E, h
  <2> QED BY <2>2
<1>6. ASSUME NEW i \in 1 .. n, Cardinality(E(i - 1)) = filled(i - 1)
      PROVE  Cardinality(E(i)) = filled(i)
  <2>1. i \in Nat /\ i - 1 \in Nat /\ h(i) \in Nat /\ h(i - 1) \in Nat
    <3>1. i \in Nat /\ i - 1 \in Nat
      BY <1>1
    <3> HIDE DEF h
    <3> QED BY <1>2, <3>1 DEF h
  <2>2. CASE typ[seq[i]] = t /\ ~late(i)
    <3>1. E(i) = E(i - 1) \union {seq[i]}
      <4> HIDE DEF late
      <4> QED BY <1>1, <2>1, <2>2
    <3>2. seq[i] \notin E(i - 1)
      <4> HIDE DEF late
      <4> QED BY <1>1, <2>1
    <3>3. IsFiniteSet(E(i - 1)) /\ Cardinality(E(i - 1)) \in Nat
      BY <1>4, <2>1
    <3> HIDE DEF E, late, h
    <3>4. Cardinality(E(i)) = Cardinality(E(i - 1)) + 1
      BY <3>1, <3>2, <3>3, FS_AddElement
    <3>5. h(i) = h(i - 1) + 1 /\ h(i - 1) < count
      BY <1>2, <1>3, <2>1, <2>2 DEF h
    <3> QED BY <1>6, <2>1, <3>4, <3>5
  <2>3. CASE typ[seq[i]] # t \/ late(i)
    <3>1. E(i) = E(i - 1)
      <4> HIDE DEF late
      <4> QED BY <1>1, <2>1, <2>3
    <3>2. h(i) = h(i - 1) \/ (h(i) = h(i - 1) + 1 /\ h(i - 1) >= count)
      <4> HIDE DEF late, H
      <4> QED BY <1>2, <1>3, <2>3
    <3> HIDE DEF E, h
    <3> QED BY <1>6, <2>1, <3>1, <3>2
  <2> QED BY <2>2, <2>3
<1>7. Cardinality(E(n)) = filled(n)
  <2> DEFINE T == {i \in Nat : i <= n => Cardinality(E(i)) = filled(i)}
  <2> HIDE DEF E, filled
  <2>1. 0 \in T
    BY <1>5
  <2>2. ASSUME NEW i \in T PROVE i + 1 \in T
    <3>1. ASSUME i + 1 <= n PROVE Cardinality(E(i + 1)) = filled(i + 1)
      <4>1. i + 1 \in 1 .. n /\ (i + 1) - 1 = i /\ Cardinality(E(i)) = filled(i)
        BY <1>1, <3>1
      <4> QED BY <1>6, <4>1
    <3> QED BY <3>1
  <2>3. T \in SUBSET Nat
    OBVIOUS
  <2> HIDE DEF T
  <2>4. T = Nat
    BY <2>1, <2>2, <2>3, Induction
  <2> QED BY <1>1, <2>4 DEF T
<1>8. E(n) = on
  BY <1>1
<1>9. ASSUME Cardinality(on) < count, NEW k \in 1 .. n, typ[seq[k]] = t PROVE seq[k] \in mut \cup on
  <2>1. h(n) < count /\ h(n) \in Nat /\ k - 1 \in Nat
    <3> HIDE DEF E, h
    <3> QED BY <1>1, <1>2, <1>7, <1>8, <1>9 DEF h
  <2>2. h(k - 1) <= h(n)
    <3>1. H(k - 1) \subseteq H(n)
      BY <1>1 DEF Unmuted
    <3>2. IsFiniteSet(H(n))
      BY <1>1, <1>2
    <3> HIDE DEF H
    <3> QED BY <3>1, <3>2, FS_Subset
  <2>3. late(k) <=> seq[k] \in mut
    <3>1. h(k - 1) \in Nat
      BY <1>2, <2>1
    <3> HIDE DEF late, h
    <3> QED BY <1>3, <2>1, <2>2, <3>1
  <2> HIDE DEF late
  <2> QED BY <1>1, <1>9, <2>3 DEF late
<1>10. Cardinality(on) <= count
  <2>1. h(n) \in Nat
    BY <1>1, <1>2
  <2> HIDE DEF E, h
  <2> QED BY <1>7, <1>8, <2>1
<1> QED BY <1>9, <1>10

\* A transaction that reconciles: afterwards exactly the first accounts of each type that are
\* not muted are enabled, and they fill its quota.
LEMMA Reconciles ==
  ASSUME Stored(order', type', muted'), elastic' \in [enabled : BOOLEAN, quota : [AllTypes -> Nat]],
         NEW dis, dis \subseteq ToSet(order'), disabled' = Reconcile(order', elastic', type', dis, muted')
  PROVE  disabled' \subseteq ToSet(order') /\ disabled' = {a \in Present : ~FirstN(a)}'
<1> DEFINE late(k) == Late(order', type', muted', type'[order'[k]], elastic'.quota[type'[order'[k]]], k)
<1>1. /\ disabled' \in SUBSET ToSet(order')
      /\ \A k \in 1 .. Len(order') : order'[k] \in disabled' <=> late(k)
  BY ReconcileFacts
<1>2. \A k \in 1 .. Len(order') : FirstN(order[k])' <=> ~late(k)
  BY FirstIsNotLate
<1> HIDE DEF late
<1>3. ASSUME NEW a \in ToSet(order') PROVE a \in disabled' <=> ~FirstN(a)'
  <2>1. PICK k \in 1 .. Len(order') : order'[k] = a
    BY DEF ToSet, Stored
  <2>2. FirstN(order[k])' <=> ~late(k)
    BY <1>2
  <2>3. FirstN(order[k])' <=> FirstN(a)'
    BY <2>1 DEF FirstN, Ahead, Group, Present
  <2> QED BY <1>1, <2>1, <2>2, <2>3
<1> QED BY <1>1, <1>3 DEF Present

\* Then the quota of every type is used as far as it can be, by accounts that are not muted.
LEMMA QuotaIsFilled ==
  ASSUME Stored(order', type', muted'), elastic' \in [enabled : BOOLEAN, quota : [AllTypes -> Nat]],
         disabled' = {a \in Present : ~FirstN(a)}'
  PROVE  QuotaHolds'
<1> SUFFICES ASSUME NEW t \in AllTypes
             PROVE  LET on == Group(t)' \ disabled'
                    IN  /\ on \cap muted' = {}
                        /\ Cardinality(on) <= elastic'.quota[t]
                        /\ Cardinality(on) < elastic'.quota[t]
                             => Group(t)' \cap disabled' \subseteq muted' \cup recovered'
  BY DEF QuotaHolds
<1> DEFINE on == Group(t)' \ disabled'
           count == elastic'.quota[t]
           late(k) == Late(order', type', muted', t, count, k)
<1>1. /\ Len(order') \in Nat /\ DOMAIN order' = 1 .. Len(order') /\ count \in Nat
      /\ \A a \in Present' : \E k \in 1 .. Len(order') : order'[k] = a
      /\ \A k \in 1 .. Len(order') : order'[k] \in Present'
      /\ Group(t)' = {a \in Present' : type'[a] = t}
      /\ Present' = ToSet(order')
  BY DEF Stored, Present, ToSet, Group
<1>2. \A k \in 1 .. Len(order') : FirstN(order[k])' <=> ~Late(order', type', muted', type'[order'[k]], elastic'.quota[type'[order'[k]]], k)
  BY FirstIsNotLate
<1>3. ASSUME NEW a \in Present', NEW k \in 1 .. Len(order'), order'[k] = a, type'[a] = t
      PROVE  a \in disabled' <=> late(k)
  <2>1. FirstN(order[k])' <=> FirstN(a)'
    BY <1>3 DEF FirstN, Ahead, Group, Present
  <2>2. a \in disabled' <=> ~FirstN(a)'
    BY <1>3
  <2> QED BY <1>2, <1>3, <2>1, <2>2
<1> HIDE DEF late
<1>4. on = {a \in ToSet(order') : type'[a] = t /\ \E k \in 1 .. Len(order') : order'[k] = a /\ ~late(k)}
  BY <1>1, <1>3
<1>5. \A a \in on : a \notin muted'
  BY <1>4 DEF late, Late
<1> HIDE DEF on, count
<1>6. /\ Cardinality(on) <= count
      /\ Cardinality(on) < count => \A k \in 1 .. Len(order') : type'[order'[k]] = t => order'[k] \in muted' \cup on
  BY <1>1, <1>4, EarlyFillQuota DEF late
<1>7. ASSUME Cardinality(on) < count PROVE Group(t)' \cap disabled' \subseteq muted'
  BY <1>1, <1>6, <1>7 DEF on
<1> QED BY <1>5, <1>6, <1>7 DEF on, count

LEMMA StoredHolds ==
  ASSUME ElasticTypeOK
  PROVE  /\ \A m \in SUBSET Present : Stored(order, type, m)
         /\ Present \subseteq Identifiers
BY ElasticAssumption DEF ElasticTypeOK, Stored, Present, ToSet

\* The transactions that reconcile unless the elastic pool is off: what the upstream reports.
Reported(a) == SetMuted(a) \/ SetBanned(a) \/ ClearBanned(a) \/ CoolDown(a)

LEMMA ReportedFacts ==
  ASSUME ElasticTypeOK, NEW a \in Identifiers, Reported(a)
  PROVE  /\ ElasticTypeOK' /\ QuotaHolds'
         /\ elastic'.enabled => disabled' = {x \in Present : ~FirstN(x)}'
<1>1. UNCHANGED <<order, type, elastic>> /\ Hit(a) \subseteq Present /\ edited' = {} /\ recovered' = {}
  BY DEF Reported, SetMuted, SetBanned, ClearBanned, CoolDown, Hit, Recomputed
<1>2. muted' \subseteq Present /\ banned' \subseteq Present /\ cooling' \subseteq Present
  BY <1>1 DEF Reported, SetMuted, SetBanned, ClearBanned, CoolDown, ElasticTypeOK
<1>3. PICK dis \in SUBSET Present : disabled' = ReconcileIfEnabled(order, elastic, type, dis, muted')
  BY <1>1 DEF Reported, SetMuted, SetBanned, ClearBanned, CoolDown, ElasticTypeOK
<1>4. Stored(order', type', muted') /\ elastic' \in [enabled : BOOLEAN, quota : [AllTypes -> Nat]]
  BY <1>1, <1>2, StoredHolds DEF ElasticTypeOK
<1>5. CASE elastic.enabled
  <2>1. disabled' = Reconcile(order', elastic', type', dis, muted')
    BY <1>1, <1>3, <1>5 DEF ReconcileIfEnabled
  <2>2. disabled' \subseteq ToSet(order') /\ disabled' = {x \in Present : ~FirstN(x)}'
    BY <1>1, <1>4, <2>1, Reconciles DEF Present
  <2>3. ElasticTypeOK'
    BY <1>1, <1>2, <2>2 DEF ElasticTypeOK, Present
  <2>4. QuotaHolds'
    BY <1>4, <2>2, QuotaIsFilled
  <2> QED BY <2>2, <2>3, <2>4
<1>6. CASE ~elastic.enabled
  <2>1. disabled' = dis
    BY <1>3, <1>6 DEF ReconcileIfEnabled
  <2> QED BY <1>1, <1>2, <1>6, <2>1 DEF ElasticTypeOK, QuotaHolds, Present
<1> QED BY <1>5, <1>6

\* updateElasticPool.
LEMMA UpdateFacts ==
  ASSUME ElasticTypeOK, NEW ep \in Settings, UpdateElasticPool(ep)
  PROVE  /\ ElasticTypeOK' /\ QuotaHolds'
         /\ elastic'.enabled => disabled' = {x \in Present : ~FirstN(x)}'
<1>1. UNCHANGED <<order, type, muted, banned, cooling>> /\ elastic' = ep /\ edited' = {} /\ recovered' = {}
  BY DEF UpdateElasticPool, Recomputed
<1>2. Stored(order', type', muted') /\ elastic' \in [enabled : BOOLEAN, quota : [AllTypes -> Nat]]
  BY <1>1, StoredHolds, ElasticAssumption DEF ElasticTypeOK
<1>3. CASE ep.enabled
  <2>1. disabled' = Reconcile(order', elastic', type', disabled, muted') /\ disabled \subseteq ToSet(order')
    BY <1>1, <1>3 DEF UpdateElasticPool, ElasticTypeOK, Present
  <2>2. disabled' \subseteq ToSet(order') /\ disabled' = {x \in Present : ~FirstN(x)}'
    BY <1>2, <2>1, Reconciles
  <2>3. ElasticTypeOK'
    BY <1>1, <1>2, <2>2 DEF ElasticTypeOK, Present
  <2>4. QuotaHolds'
    BY <1>2, <2>2, QuotaIsFilled
  <2> QED BY <2>2, <2>3, <2>4
<1>4. CASE ~ep.enabled
  <2>1. disabled' = disabled \ Present
    BY <1>4 DEF UpdateElasticPool
  <2> QED BY <1>1, <1>2, <1>4, <2>1 DEF ElasticTypeOK, QuotaHolds, Present
<1> QED BY <1>3, <1>4

\* The administrator's edits beside the elastic pool, and time.
Edited ==
  \/ \E a \in Identifiers, t \in Types : AddAccount(a, t) \/ UpdateAccountType(a, t)
  \/ \E a \in Identifiers : \/ DeleteAccount(a) \/ ToggleAccount(a)
                            \/ MuteExpires(a) \/ CooldownExpires(a)
  \/ \E enable \in BOOLEAN : BatchToggle(enable)

LEMMA EditsKeepTypes ==
  ASSUME ElasticTypeOK, Edited
  PROVE  ElasticTypeOK'
<1>1. ASSUME NEW a \in Identifiers, NEW t \in Types, AddAccount(a, t) PROVE ElasticTypeOK'
  <2>1. /\ order' = Append(order, a) /\ type' = [type EXCEPT ![a] = t] /\ a \notin ToSet(order)
        /\ UNCHANGED <<disabled, muted, banned, cooling, elastic, recovered>> /\ edited' \subseteq Types
    BY <1>1 DEF AddAccount, EditOf, Present, ElasticTypeOK
  <2>2. order' \in Seq(Identifiers) /\ IsInjective(order') /\ ToSet(order') = ToSet(order) \cup {a}
    BY <2>1, AppendFacts DEF ElasticTypeOK
  <2>3. type' \in [Identifiers -> Types]
    BY <2>1 DEF ElasticTypeOK
  <2> QED BY <2>1, <2>2, <2>3 DEF ElasticTypeOK, Present
<1>2. ASSUME NEW a \in Identifiers, DeleteAccount(a) PROVE ElasticTypeOK'
  <2>1. /\ order' = RemoveFirst(order, a)
        /\ disabled' = disabled \ {a} /\ muted' = muted \ {a} /\ banned' = banned \ {a} /\ cooling' = cooling \ {a}
        /\ recovered' = recovered \ {a} /\ edited' \subseteq Types
        /\ UNCHANGED <<type, elastic>>
    BY <1>2 DEF DeleteAccount, EditOf, ElasticTypeOK
  <2>2. order' \in Seq(Identifiers) /\ IsInjective(order') /\ ToSet(order') = ToSet(order) \ {a}
    BY <2>1, RemoveFirstFacts DEF ElasticTypeOK
  <2> QED BY <2>1, <2>2 DEF ElasticTypeOK, Present
<1>3. ASSUME NEW a \in Identifiers, NEW t \in Types, UpdateAccountType(a, t) PROVE ElasticTypeOK'
  BY <1>3 DEF UpdateAccountType, EditOf, ElasticTypeOK, Present
<1>4. ASSUME NEW a \in Identifiers, ToggleAccount(a) \/ MuteExpires(a) \/ CooldownExpires(a) PROVE ElasticTypeOK'
  BY <1>4 DEF ToggleAccount, EditOf, MuteExpires, CooldownExpires, ElasticTypeOK, Present
<1>5. ASSUME NEW enable \in BOOLEAN, BatchToggle(enable) PROVE ElasticTypeOK'
  BY <1>5 DEF BatchToggle, EditOf, ElasticTypeOK, Present
<1> QED BY <1>1, <1>2, <1>3, <1>4, <1>5 DEF Edited

\* A type nobody edits keeps its accounts and their flags; only mutes may have expired.
\* A step leaves the accounts of type t and their flags alone but for mutes that expire.
Aside(t) ==
  /\ t \notin edited
  /\ Group(t)' = Group(t) /\ Group(t)' \ disabled' = Group(t) \ disabled
  /\ Group(t)' \cap muted' \subseteq muted
  /\ Group(t)' \cap (muted \cup recovered) \subseteq muted' \cup recovered'

LEMMA EditsKeepQuotas ==
  ASSUME ElasticTypeOK, QuotaHolds, Edited
  PROVE  QuotaHolds'
<1> SUFFICES ASSUME elastic'.enabled, NEW t \in AllTypes \ edited'
             PROVE  LET on == Group(t)' \ disabled'
                    IN  /\ on \cap muted' = {}
                        /\ Cardinality(on) <= elastic'.quota[t]
                        /\ Cardinality(on) < elastic'.quota[t]
                             => Group(t)' \cap disabled' \subseteq muted' \cup recovered'
  BY DEF QuotaHolds
<1>1. elastic' = elastic
  BY DEF Edited, AddAccount, UpdateAccountType, DeleteAccount, ToggleAccount, MuteExpires, CooldownExpires, BatchToggle
<1>2. Aside(t)
  <2>1. CASE \E a \in Identifiers, u \in Types : AddAccount(a, u)
    <3>1. PICK a \in Identifiers, u \in Types : AddAccount(a, u)
      BY <2>1
    <3>2. /\ order' = Append(order, a) /\ type' = [type EXCEPT ![a] = u] /\ a \notin ToSet(order) /\ t # u
          /\ UNCHANGED <<disabled, muted, recovered>> /\ edited \subseteq edited'
      BY <1>1, <3>1 DEF AddAccount, EditOf, Present
    <3>3. ToSet(order') = ToSet(order) \cup {a}
      BY <3>2, AppendFacts DEF ElasticTypeOK
    <3> QED BY <3>2, <3>3 DEF Aside, Group, Present, ElasticTypeOK
  <2>2. CASE \E a \in Identifiers : DeleteAccount(a)
    <3>1. PICK a \in Identifiers : DeleteAccount(a)
      BY <2>2
    <3>2. /\ order' = RemoveFirst(order, a) /\ type' = type /\ a \in ToSet(order) /\ t # type[a]
          /\ disabled' = disabled \ {a} /\ muted' = muted \ {a} /\ recovered' = recovered \ {a}
          /\ edited \subseteq edited'
      BY <1>1, <3>1 DEF DeleteAccount, EditOf, Present
    <3>3. ToSet(order') = ToSet(order) \ {a}
      BY <3>2, RemoveFirstFacts DEF ElasticTypeOK
    <3> QED BY <3>2, <3>3 DEF Aside, Group, Present
  <2>3. CASE \E a \in Identifiers, u \in Types : UpdateAccountType(a, u)
    BY <1>1, <2>3 DEF UpdateAccountType, EditOf, Aside, Group, Present, ElasticTypeOK
  <2>4. CASE \E a \in Identifiers : ToggleAccount(a)
    BY <1>1, <2>4 DEF ToggleAccount, EditOf, Aside, Group, Present
  <2>5. CASE \E a \in Identifiers : MuteExpires(a) \/ CooldownExpires(a)
    BY <1>1, <2>5 DEF MuteExpires, CooldownExpires, Aside, Group, Present
  <2>6. CASE \E enable \in BOOLEAN : BatchToggle(enable)
    <3>1. edited' = edited \cup Types /\ UNCHANGED <<order, type, muted, recovered>>
          /\ (disabled' = disabled \ Present \/ disabled' = disabled \cup Present)
      BY <1>1, <2>6 DEF BatchToggle, EditOf
    <3>2. Group(t) = {}
      BY <3>1 DEF Group, Present, ToSet, ElasticTypeOK
    <3> QED BY <3>1, <3>2 DEF Aside, Group, Present
  <2> QED BY <2>1, <2>2, <2>3, <2>4, <2>5, <2>6 DEF Edited
<1> QED BY <1>1, <1>2 DEF Aside, QuotaHolds

LEMMA ElasticInitTypes ==
  ASSUME ElasticInit
  PROVE  ElasticTypeOK
<1> DEFINE D == 1 .. Cardinality(Identifiers)
<1>1. Cardinality(Identifiers) \in Nat
  BY ElasticAssumption, FS_CardinalityType
<1>2. order \in [D -> Identifiers] /\ \A i, j \in D : i # j => order[i] # order[j]
  BY DEF ElasticInit, SetToSeqs
<1>3. order \in Seq(Identifiers) /\ IsInjective(order)
  BY <1>1, <1>2 DEF IsInjective
<1> QED BY <1>3 DEF ElasticInit, ElasticTypeOK

\* KeepsQuota: whatever is edited, reported or expires, no flag is left on an account that is
\* gone, a transaction that reconciles leaves exactly the first accounts of each type that
\* are not muted enabled, and until the next one a type that nobody edits stays within its
\* quota, or short of it only for want of accounts, or by mutes that expired meanwhile; for
\* any store, any order of its accounts, any quotas.
THEOREM ElasticPoolKeepsQuota == ElasticSpec => KeepsQuota
<1>1. ElasticInit => ElasticTypeOK /\ QuotaHolds
  BY ElasticInitTypes DEF ElasticInit, QuotaHolds
<1>2. ElasticTypeOK /\ QuotaHolds /\ [ElasticNext]_elasticVars => (ElasticTypeOK /\ QuotaHolds)'
  <2> SUFFICES ASSUME ElasticTypeOK, QuotaHolds, [ElasticNext]_elasticVars
               PROVE  (ElasticTypeOK /\ QuotaHolds)'
    OBVIOUS
  <2>1. CASE \E ep \in Settings : UpdateElasticPool(ep)
    BY <2>1, UpdateFacts
  <2>2. CASE \E a \in Identifiers : Reported(a)
    BY <2>2, ReportedFacts
  <2>3. CASE UNCHANGED elasticVars
    BY <2>3 DEF elasticVars, ElasticTypeOK, QuotaHolds, Group, Present
  <2>4. CASE Edited
    BY <2>4, EditsKeepTypes, EditsKeepQuotas
  <2> QED BY <2>1, <2>2, <2>3, <2>4 DEF ElasticNext, Admin, Upstream, Login, Reported, Edited
<1>3. ElasticTypeOK /\ [ElasticNext]_elasticVars =>
        [LET reconciles == \/ \E a \in Identifiers : SetMuted(a) \/ SetBanned(a)
                                                  \/ ClearBanned(a) \/ CoolDown(a)
                           \/ \E ep \in Settings : UpdateElasticPool(ep)
         IN  reconciles /\ elastic'.enabled =>
                disabled' = {a \in Present : ~FirstN(a)'}]_elasticVars
  <2> SUFFICES ASSUME ElasticTypeOK, elastic'.enabled,
                      \/ \E a \in Identifiers : Reported(a)
                      \/ \E ep \in Settings : UpdateElasticPool(ep)
               PROVE  disabled' = {a \in Present : ~FirstN(a)'}
    BY DEF Reported
  <2>1. disabled' = {a \in Present : ~FirstN(a)}'
    BY ReportedFacts, UpdateFacts
  <2>2. Present' = Present
    BY DEF Reported, SetMuted, SetBanned, ClearBanned, CoolDown, UpdateElasticPool, Present
  <2> QED BY <2>1, <2>2
<1> QED BY <1>1, <1>2, <1>3, PTL DEF ElasticSpec, KeepsQuota, ReconcilesToFirstN
=============================================================================
