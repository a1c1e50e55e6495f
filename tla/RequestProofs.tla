---------------------------- MODULE RequestProofs ----------------------------
(***************************************************************************)
(* Theorems about a request: how it comes by its account (AuthResolver)    *)
(* and how its answer is told (AnswerStream), for every set of accounts    *)
(* and requests, every limit and whatever the upstream brings.             *)
(*                                                                         *)
(* The invariant of the resolver adds to the type invariant that a request *)
(* owns at most the slot of the account its RequestAuth names: this is     *)
(* what makes the release before a retry give back the right slot.  That   *)
(* of the answer adds to what the history tells at the end what it holds   *)
(* at each phase before.                                                   *)
(***************************************************************************)
EXTENDS AuthResolver, AnswerStream, SequenceLemmas, FiniteSetTheorems, TLAPS

-----------------------------------------------------------------------------
(* The account of a request. *)

\* The owners of an account's slots are finitely many.
LEMMA OwnersFinite ==
    ASSUME NEW a PROVE IsFiniteSet(Owners(a)) /\ Cardinality(Owners(a)) \in Nat
<1>1. Owners(a) \subseteq Requests
  BY DEF Owners
<1> QED BY <1>1, ResolverAssumption, FS_Subset, FS_CardinalityType

\* The counters stay below the number of owners when a request takes a slot.
LEMMA AcquireCounts ==
    ASSUME Inv, NEW r \in Requests, NEW a \in Grantable(r), PoolAcquire(r, a),
           owns[r] = NoAccount
    PROVE  /\ a \in Accounts /\ inUse' \in [Accounts -> 0 .. Cap]
           /\ owns' \in [Requests -> Accounts \cup {NoAccount}]
           /\ \A b \in Accounts : inUse'[b] <= Cardinality(Owners(b)')
<1>1. /\ a \in Accounts /\ inUse[a] < Cap /\ Cap \in Nat
      /\ inUse \in [Accounts -> 0 .. Cap] /\ NoAccount \notin Accounts
      /\ owns \in [Requests -> Accounts \cup {NoAccount}]
      /\ inUse' = [inUse EXCEPT ![a] = @ + 1] /\ owns' = [owns EXCEPT ![r] = a]
  BY ResolverAssumption DEF Grantable, PoolAcquire, Inv, TypeOK
<1>2. ASSUME NEW b \in Accounts PROVE inUse'[b] <= Cardinality(Owners(b)')
  <2>1. inUse[b] <= Cardinality(Owners(b))
    BY DEF Inv, NoSlotLeak
  <2>2. CASE b = a
    <3>1. Owners(b)' = Owners(b) \cup {r} /\ r \notin Owners(b)
      BY <1>1, <2>2 DEF Owners
    <3>2. Cardinality(Owners(b)') = Cardinality(Owners(b)) + 1
      BY <3>1, OwnersFinite, FS_AddElement
    <3> QED BY <1>1, <2>1, <2>2, <3>2, OwnersFinite
  <2>3. CASE b # a
    <3>1. Owners(b)' = Owners(b)
      BY <1>1, <2>3 DEF Owners
    <3> QED BY <1>1, <2>1, <2>3, <3>1
  <2> QED BY <2>2, <2>3
<1> QED BY <1>1, <1>2

\* They stay below it when a request gives one back, even one it does not own.
LEMMA ReleaseCounts ==
    ASSUME Inv, NEW r \in Requests, account[r] \in Accounts, PoolRelease(r, account[r])
    PROVE  /\ inUse' \in [Accounts -> 0 .. Cap]
           /\ owns' = [owns EXCEPT ![r] = NoAccount]
           /\ \A b \in Accounts : inUse'[b] <= Cardinality(Owners(b)')
<1> DEFINE a == account[r]
<1>1. /\ a \in Accounts /\ Cap \in Nat /\ NoAccount \notin Accounts
      /\ inUse \in [Accounts -> 0 .. Cap]
      /\ owns \in [Requests -> Accounts \cup {NoAccount}]
      /\ owns[r] \in {a, NoAccount}
      /\ inUse' = [inUse EXCEPT ![a] = IF @ = 0 THEN 0 ELSE @ - 1]
  BY ResolverAssumption DEF PoolRelease, Inv, TypeOK, OwnsItsAccount
<1>2. owns' = [owns EXCEPT ![r] = NoAccount]
  BY <1>1 DEF PoolRelease
<1> HIDE DEF a
<1>3. inUse' \in [Accounts -> 0 .. Cap]
  BY <1>1
<1>4. ASSUME NEW b \in Accounts PROVE inUse'[b] <= Cardinality(Owners(b)')
  <2>1. inUse[b] <= Cardinality(Owners(b)) /\ inUse[b] \in Nat
    BY <1>1 DEF Inv, NoSlotLeak
  <2>2. CASE b = a
    <3>1. Owners(b)' = Owners(b) \ {r}
      BY <1>1, <1>2, <2>2 DEF Owners
    <3>2. Cardinality(Owners(b)') =
            IF r \in Owners(b) THEN Cardinality(Owners(b)) - 1 ELSE Cardinality(Owners(b))
      BY <3>1, OwnersFinite, FS_RemoveElement
    <3>3. inUse'[b] = IF inUse[b] = 0 THEN 0 ELSE inUse[b] - 1
      BY <1>1, <2>2
    <3>4. r \in Owners(b) => Cardinality(Owners(b)) # 0
      BY OwnersFinite, FS_EmptySet
    <3> QED BY <2>1, <3>2, <3>3, <3>4, OwnersFinite
  <2>3. CASE b # a
    <3>1. Owners(b)' = Owners(b)
      BY <1>1, <1>2, <2>3 DEF Owners
    <3> QED BY <1>1, <2>1, <2>3, <3>1
  <2> QED BY <2>2, <2>3
<1> QED BY <1>2, <1>3, <1>4

\* Steps that touch no slot.
LEMMA CountsFrame ==
    ASSUME Inv, UNCHANGED <<inUse, owns>>
    PROVE  \A b \in Accounts : inUse'[b] <= Cardinality(Owners(b)')
BY DEF Inv, NoSlotLeak, Owners

\* The initial states satisfy the invariant.
LEMMA InitInv == Init => Inv
<1> SUFFICES ASSUME Init PROVE Inv
  OBVIOUS
<1>1. TypeOK
  BY ResolverAssumption DEF Init, TypeOK, Labels
<1>2. \A a \in Accounts : inUse[a] <= Cardinality(Owners(a))
  BY OwnersFinite DEF Init
<1> QED BY <1>1, <1>2 DEF Init, Inv, OwnsItsAccount, NoSlotLeak, TargetKept, SwitchesUnpinned

\* One step of a request, one case per action.
LEMMA RequestInv ==
    ASSUME Inv, NEW r \in Requests,
           \/ Determine(r) \/ Obtain(r) \/ Ensure(r) \/ Refresh(r)
           \/ RefreshRejected(r) \/ SwitchBegin(r) \/ Switch(r) \/ Release(r)
    PROVE  Inv'
<1> DEFINE Rest == OwnsItsAccount /\ TargetKept /\ SwitchesUnpinned
<1>1. /\ TypeOK /\ Rest /\ NoSlotLeak /\ Cap \in Nat \ {0} /\ NoAccount \notin Accounts
      /\ Pins \subseteq Accounts \cup {NoAccount}
  BY ResolverAssumption DEF Inv
<1> USE DEF Ensuring, Labels, Goto
<1>2. CASE Determine(r) \/ Refuse(r) \/ KeepToken(r) \/ Login(r) \/ Refresh(r)
           \/ RefreshRejected(r) \/ SwitchFails(r)
  <2>1. UNCHANGED <<inUse, owns>>
    BY <1>2 DEF Determine, Refuse, KeepToken, Login, Refresh, RefreshRejected, SwitchFails
  <2>2. TypeOK'
    <3>1. CASE Determine(r)
      BY <1>1, <3>1 DEF TypeOK, Determine
    <3>2. CASE Refuse(r)
      BY <1>1, <3>2 DEF TypeOK, Refuse
    <3>3. CASE KeepToken(r)
      BY <1>1, <3>3 DEF TypeOK, KeepToken
    <3>4. CASE Login(r)
      BY <1>1, <3>4 DEF TypeOK, Login, LoginRecords
    <3>5. CASE Refresh(r)
      BY <1>1, <3>5 DEF TypeOK, Refresh, LoginRecords
    <3>6. CASE RefreshRejected(r)
      BY <1>1, <3>6 DEF TypeOK, RefreshRejected, RejectionRecords
    <3>7. CASE SwitchFails(r)
      BY <1>1, <3>7 DEF TypeOK, SwitchFails
    <3> QED BY <1>2, <3>1, <3>2, <3>3, <3>4, <3>5, <3>6, <3>7
  <2>3. Rest'
    BY <1>1, <1>2 DEF TypeOK, NoSlotLeak, OwnsItsAccount, TargetKept, SwitchesUnpinned,
       Determine, Refuse, KeepToken, Login, Refresh, RefreshRejected, SwitchFails
  <2>4. \A q \in Requests : pc'[q] \in {"idle", "acquiring", "switching"}
            => owns'[q] = NoAccount
    BY <1>1, <1>2 DEF TypeOK, NoSlotLeak,
       Determine, Refuse, KeepToken, Login, Refresh, RefreshRejected, SwitchFails
  <2> QED BY <2>1, <2>2, <2>3, <2>4, CountsFrame DEF Inv, NoSlotLeak
<1>3. CASE Acquire(r) \/ SwitchAcquire(r)
  <2>1. PICK a \in Grantable(r) : PoolAcquire(r, a)
    BY <1>3 DEF Acquire, SwitchAcquire
  <2>2. owns[r] = NoAccount
    BY <1>1, <1>3 DEF Acquire, SwitchAcquire, NoSlotLeak
  <2>3. /\ a \in Accounts /\ inUse' \in [Accounts -> 0 .. Cap]
        /\ owns' \in [Requests -> Accounts \cup {NoAccount}]
        /\ \A b \in Accounts : inUse'[b] <= Cardinality(Owners(b)')
    BY <2>1, <2>2, AcquireCounts
  <2>4. account' = [account EXCEPT ![r] = a] /\ owns' = [owns EXCEPT ![r] = a]
    BY <2>1 DEF PoolAcquire
  <2>5. TypeOK'
    <3>1. token' \in [Requests -> BOOLEAN]
      <4>1. token \in [Requests -> BOOLEAN] /\ (a \in stored) \in BOOLEAN
        BY <1>1 DEF TypeOK
      <4>2. token' = [token EXCEPT ![r] = a \in stored]
        BY <2>1 DEF PoolAcquire
      <4> QED BY <4>1, <4>2, Zenon
    <3>2. /\ account' \in [Requests -> Accounts \cup {NoAccount}]
          /\ pc' \in [Requests -> Labels]
          /\ \A q \in Requests :
                pc'[q] \notin {"idle", "acquiring"} => account'[q] # NoAccount
      BY <1>1, <1>3, <2>3, <2>4 DEF TypeOK, Acquire, SwitchAcquire
    <3> QED BY <1>1, <1>3, <2>3, <3>1, <3>2 DEF TypeOK, Acquire, SwitchAcquire
  <2>6. Rest'
    BY <1>1, <1>3, <2>1, <2>3, <2>4 DEF TypeOK, OwnsItsAccount, TargetKept,
       SwitchesUnpinned, Acquire, SwitchAcquire, Grantable
  <2>7. \A q \in Requests : pc'[q] \in {"idle", "acquiring", "switching"}
            => owns'[q] = NoAccount
    BY <1>1, <1>3, <2>4 DEF TypeOK, NoSlotLeak, Acquire, SwitchAcquire
  <2> QED BY <2>3, <2>5, <2>6, <2>7 DEF Inv, NoSlotLeak
<1>4. CASE LoginFails(r) \/ SwitchBegin(r) \/ Release(r)
  <2>1. account[r] \in Accounts /\ PoolRelease(r, account[r])
    BY <1>1, <1>4 DEF TypeOK, LoginFails, SwitchBegin, Release
  <2>2. /\ inUse' \in [Accounts -> 0 .. Cap]
        /\ owns' = [owns EXCEPT ![r] = NoAccount]
        /\ \A b \in Accounts : inUse'[b] <= Cardinality(Owners(b)')
    BY <2>1, ReleaseCounts
  <2>3. TypeOK'
    BY <1>1, <1>4, <2>1, <2>2 DEF TypeOK, LoginFails, SwitchBegin, Release, RejectionRecords
  <2>4. Rest'
    BY <1>1, <1>4, <2>2 DEF TypeOK, OwnsItsAccount, TargetKept, SwitchesUnpinned,
       LoginFails, SwitchBegin, Release
  <2>5. \A q \in Requests : pc'[q] \in {"idle", "acquiring", "switching"}
            => owns'[q] = NoAccount
    BY <1>1, <1>4, <2>2 DEF TypeOK, NoSlotLeak, LoginFails, SwitchBegin, Release
  <2> QED BY <2>2, <2>3, <2>4, <2>5 DEF Inv, NoSlotLeak
<1> QED BY <1>2, <1>3, <1>4 DEF Obtain, Ensure, Switch

\* Every step keeps the invariant.
LEMMA NextInv == Inv /\ [Next]_vars => Inv'
<1> SUFFICES ASSUME Inv, [Next]_vars PROVE Inv'
  OBVIOUS
<1>1. CASE PoolReset
  <2>1. Cap \in Nat
    BY ResolverAssumption
  <2>2. TypeOK'
    BY <1>1, <2>1 DEF PoolReset, requestVars, Inv, TypeOK
  <2>3. \A a \in Accounts : inUse'[a] <= Cardinality(Owners(a)')
    <3>1. \A a \in Accounts : Owners(a)' = Owners(a) /\ inUse'[a] = 0
      BY <1>1 DEF PoolReset, requestVars, Owners
    <3> QED BY <3>1, OwnersFinite
  <2> QED BY <1>1, <2>2, <2>3 DEF PoolReset, requestVars, Inv, OwnsItsAccount,
             NoSlotLeak, TargetKept, SwitchesUnpinned
<1>2. CASE UNCHANGED vars \/ \E a \in Accounts : TestAccount(a)
  <2>1. UNCHANGED <<inUse, requestVars>> /\ stored' \in SUBSET Accounts /\ sched' \in SUBSET Accounts
    BY <1>2 DEF vars, requestVars, TestAccount, LoginRecords, Inv, TypeOK
  <2>2. \A a \in Accounts : inUse'[a] <= Cardinality(Owners(a)')
    BY <2>1, CountsFrame DEF requestVars
  <2> QED BY <2>1, <2>2 DEF requestVars, Inv, TypeOK, OwnsItsAccount, NoSlotLeak,
             TargetKept, SwitchesUnpinned
<1> QED BY <1>1, <1>2, RequestInv DEF Next

\* Failed logins, refreshes and switches leave no slot counted that nobody will give
\* back, and no request with the slot of an account it does not name (request.go,
\* acquireManagedRequestAuth and SwitchAccount).
THEOREM ResolverIsConsistent == Spec => []Inv
BY InitInv, NextInv, PTL DEF Spec

\* A request that names its account runs on no other (request.go).
THEOREM ResolverKeepsPin == Spec => []PinnedStays
<1>1. Inv => PinnedStays
  BY DEF Inv, TargetKept, PinnedStays
<1> QED BY <1>1, ResolverIsConsistent, PTL

-----------------------------------------------------------------------------
(* The entry of a request in the history. *)

\* Before its last step a handler has no entry in the history; when it asks the upstream
\* the entry is there, unless the history is off; on Vercel there is none.
HistoryReady ==
  /\ history \in [on : BOOLEAN, present : BOOLEAN, disabled : BOOLEAN,
                  status : {"none", "streaming", "success", "error", "stopped"}]
  /\ phase = "preparing" => history.disabled /\ ~history.present
  /\ phase = "start" => history.disabled = ~history.on
  /\ phase \in {"start", "streaming", "deferred"} => step = Len(Steps(surface))
  /\ surface = "vercel" => history.disabled /\ ~history.on

AskedInv ==
  /\ surface \in Surfaces /\ opts \in Options /\ managed \in BOOLEAN
  /\ surface = "vercel" => opts.stream

HistoryInv == AskedInv /\ AnswerTypeOK /\ HistoryReady /\ HistoryTold

LEMMA StepsAre ==
  ASSUME NEW sf \in Surfaces
  PROVE  Len(Steps(sf)) \in Nat /\ (Steps(sf) = <<>> <=> sf = "vercel") /\ (Steps(sf) = <<>> <=> Len(Steps(sf)) = 0)
  BY DEF Surfaces, Steps, ChatSteps, ResponsesSteps, ClaudeSteps, GeminiSteps

Entries == [on : BOOLEAN, present : BOOLEAN, disabled : BOOLEAN,
            status : {"none", "streaming", "success", "error", "stopped"}]

\* A write reaches the entry, which is created again if it is missing, or finds the
\* store off and gives up; a session that has given up stays so.
LEMMA PersistUpdateIs ==
  ASSUME NEW h \in Entries, NEW status \in {"streaming", "success", "error", "stopped"}
  PROVE  LET k == PersistUpdate(h, status)
         IN  /\ k \in Entries /\ k.on = h.on /\ (h.disabled => k = h)
             /\ k.disabled => h.disabled \/ ~h.on
             /\ ~k.disabled => k.present /\ k.status = status
  BY DEF Entries, PersistUpdate, HandlePersistError, RetryMissingEntry

LEMMA BoundsAre == MaxResults \in Nat /\ MaxRetries \in Nat /\ MaxSwitches \in Nat
  BY AnswerAssumption

LEMMA HistoryInvInit == AnswerInit => HistoryInv
<1> SUFFICES ASSUME AnswerInit PROVE HistoryInv
  OBVIOUS
<1>1. PICK r \in Asked :
        /\ surface = r.surface /\ opts = Effective(r.surface, r.opts) /\ managed = r.managed
        /\ surface = "vercel" => opts.stream
        /\ history = [NoSession EXCEPT !.on = r.on /\ r.surface # "vercel"]
  BY DEF AnswerInit
<1>2. r.surface \in Surfaces /\ r.opts \in Options /\ r.managed \in BOOLEAN /\ r.on \in BOOLEAN
  BY AnswerAssumption
<1>3. Effective(r.surface, r.opts) \in Options
  BY <1>2 DEF Effective, Options
<1>4. /\ surface \in Surfaces /\ opts \in Options /\ managed \in BOOLEAN
      /\ surface = "vercel" => opts.stream
      /\ surface \in {q.surface : q \in Asked}
  <2>1. surface = r.surface /\ opts = Effective(r.surface, r.opts) /\ managed = r.managed
    BY <1>1
  <2> QED BY <1>1, <1>2, <1>3, <2>1
<1>5. history = [on |-> r.on /\ r.surface # "vercel", present |-> FALSE, disabled |-> TRUE, status |-> "none"]
  BY <1>1 DEF NoSession
<1>6. /\ step = 0 /\ phase = (IF Steps(surface) = <<>> THEN "start" ELSE "preparing")
      /\ how = "" /\ attempts = 0 /\ switches = 0 /\ limited = FALSE /\ results = 0
  BY DEF AnswerInit
<1> DEFINE n == Len(Steps(surface))
<1>7. n \in Nat /\ phase = (IF n = 0 THEN "start" ELSE "preparing") /\ (n = 0 <=> surface = "vercel")
  BY <1>4, <1>6, StepsAre
<1> HIDE DEF n
<1>8. step \in 0..n /\ (phase = "preparing" => step < n) /\ (phase = "start" => step = n)
  <2>1. step = 0
    BY <1>6
  <2> QED BY <2>1, <1>7
<1>9. attempts \in 0..MaxRetries /\ switches \in 0..MaxSwitches /\ results \in 0..MaxResults
  <2>1. attempts = 0 /\ switches = 0 /\ results = 0
    BY <1>6
  <2> QED BY <2>1, BoundsAre
<1>10. /\ history.disabled = TRUE /\ history.present = FALSE /\ history.status = "none"
       /\ history \in Entries /\ (surface = "vercel" => ~history.on)
  <2>1. surface = r.surface
    BY <1>1
  <2> QED BY <1>2, <1>5, <2>1 DEF Entries
<1>11. phase \in {"start", "preparing"} /\ (phase = "start" => surface = "vercel")
  BY <1>7
<1> HIDE DEF n
<1>12. AnswerTypeOK
  BY <1>4, <1>6, <1>8, <1>9, <1>10, <1>11 DEF AnswerTypeOK, n
<1>13. HistoryReady
  BY <1>8, <1>10, <1>11 DEF HistoryReady, Entries, n
<1>14. HistoryTold
  <2>1. history.disabled => ~history.on \/ step < n
    BY <1>8, <1>10, <1>11
  <2> QED BY <1>11, <2>1 DEF HistoryTold, n
<1> QED BY <1>4, <1>12, <1>13, <1>14 DEF HistoryInv, AskedInv

\* What the invariant says of the state, and what a step leaves as it is.
LEMMA RequestStays ==
  ASSUME AskedInv, UNCHANGED request
  PROVE  AskedInv' /\ Steps(surface)' = Steps(surface) /\ Len(Steps(surface)) \in Nat
                     /\ surface' = surface /\ opts' = opts /\ managed' = managed /\ step' = step
<1>1. surface' = surface /\ opts' = opts /\ managed' = managed /\ step' = step
  BY DEF request
<1> QED BY <1>1, StepsAre DEF AskedInv

LEMMA PrepareKeeps == ASSUME HistoryInv, Prepare PROVE HistoryInv'
<1>1. /\ surface' = surface /\ opts' = opts /\ managed' = managed /\ how' = how /\ rt' = rt
      /\ attempts' = attempts /\ switches' = switches /\ limited' = limited /\ results' = results
      /\ phase = "preparing" /\ step' = step + 1
  BY DEF Prepare, tries
<1> DEFINE n == Len(Steps(surface))
<1>2. n \in Nat /\ n' = n /\ n # 0 /\ surface \in Surfaces /\ surface # "vercel"
  <2>1. surface \in Surfaces /\ n' = n
    BY <1>1 DEF HistoryInv, AskedInv
  <2>2. phase = "preparing" => step < n /\ step \in 0..n
    BY DEF HistoryInv, AnswerTypeOK
  <2> QED BY <1>1, <2>1, <2>2, StepsAre
<1>3. step \in 0..n /\ step < n
  BY <1>1 DEF HistoryInv, AnswerTypeOK
<1> HIDE DEF n
<1>4. AskedInv'
  BY <1>1 DEF HistoryInv, AskedInv
<1>5. history \in Entries /\ history.disabled = TRUE /\ history.present = FALSE /\ how = ""
  BY <1>1 DEF HistoryInv, HistoryReady, AnswerTypeOK, Entries
<1>6. CASE step' = n
  <2>1. phase' = "start" /\ history' = HistoryStart(history)
    BY <1>6 DEF Prepare, n
  <2>2. /\ history' \in Entries /\ history'.disabled = ~history'.on
    BY <1>5, <2>1 DEF HistoryStart, Entries
  <2>3. step' \in 0..n
    BY <1>2, <1>3, <1>6
  <2>4. AnswerTypeOK'
    BY <1>1, <1>2, <1>5, <2>1, <2>2, <2>3 DEF HistoryInv, AnswerTypeOK, n, Entries
  <2>5. HistoryReady'
    BY <1>1, <1>2, <1>6, <2>1, <2>2 DEF HistoryReady, n, Entries
  <2>6. HistoryTold'
    BY <1>1, <1>2, <2>1, <2>2 DEF HistoryTold, n
  <2> QED BY <1>4, <2>4, <2>5, <2>6 DEF HistoryInv
<1>7. CASE step' # n
  <2>1. phase' = phase /\ history' = history
    BY <1>7 DEF Prepare, n
  <2>2. step' \in 0..n /\ step' < n
    BY <1>1, <1>2, <1>3, <1>7
  <2>3. AnswerTypeOK'
    BY <1>1, <1>2, <1>5, <2>1, <2>2 DEF HistoryInv, AnswerTypeOK, n, Entries
  <2>4. HistoryReady'
    BY <1>1, <1>2, <1>5, <2>1 DEF HistoryReady, n, Entries
  <2>5. HistoryTold'
    BY <1>1, <1>2, <2>1, <2>2 DEF HistoryTold, n
  <2> QED BY <1>4, <2>3, <2>4, <2>5 DEF HistoryInv
<1> QED BY <1>6, <1>7

\* HistoryTold, case by case.
Recorded ==
  \/ how \in {"refused", "discarded"} /\ ~history.present
  \/ how = "retry_failed" /\ opts.stream /\ surface \in {"claude", "gemini"}
  \/ how = "cancelled" /\ surface = "responses"
  \/ history.present /\ how = "cancelled" /\ history.status = "stopped"
  \/ history.present /\ how = "terminal" /\ Last(rt.sent).e = "error" /\ history.status = "error"
  \/ history.present /\ how = "terminal" /\ Last(rt.sent).e # "error" /\ history.status = "success"
  \/ history.present /\ how \notin {"cancelled", "terminal"} /\ history.status = "error"

LEMMA ToldIfRecorded ==
  ASSUME history'.disabled => ~history'.on \/ step' < Len(Steps(surface))',
         phase' = "ended" /\ ~history'.disabled => Recorded'
  PROVE  HistoryTold'
  BY DEF HistoryTold, Recorded

\* While a request is under way.
UnderWay == {"start", "streaming", "deferred"}
LEMMA UnderWayFacts ==
  ASSUME HistoryInv, phase \in UnderWay
  PROVE  /\ history \in Entries /\ how = "" /\ step = Len(Steps(surface)) /\ Len(Steps(surface)) \in Nat
         /\ surface \in Surfaces /\ (surface = "vercel" => history.disabled /\ ~history.on)
         /\ history.disabled => ~history.on
         /\ attempts \in 0..MaxRetries /\ switches \in 0..MaxSwitches /\ results \in 0..MaxResults
         /\ (limited => switches > 0) /\ surface \in {q.surface : q \in Asked}
         /\ step \in 0..Len(Steps(surface))
<1>1. surface \in Surfaces
  BY DEF HistoryInv, AskedInv
<1>2. Len(Steps(surface)) \in Nat
  BY <1>1, StepsAre
<1>3. step = Len(Steps(surface)) /\ how = "" /\ history \in Entries
  BY DEF HistoryInv, HistoryReady, AnswerTypeOK, UnderWay, Entries
<1>4. history.disabled => ~history.on
  <2>1. history.disabled => ~history.on \/ step < Len(Steps(surface))
    BY DEF HistoryInv, HistoryTold
  <2>2. ASSUME NEW n \in Nat, step = n PROVE ~(step < n)
    BY <2>2
  <2>3. ~(step < Len(Steps(surface)))
    BY <1>2, <1>3, <2>2
  <2> QED BY <2>1, <2>3
<1> QED BY <1>1, <1>2, <1>3, <1>4 DEF HistoryInv, HistoryReady, AnswerTypeOK

\* A step of a request under way that keeps it so, or ends it with a record.
LEMMA UnderWayKeeps ==
  ASSUME HistoryInv, phase \in UnderWay, UNCHANGED request,
         phase' \in {"streaming", "deferred", "ended"},
         how' \in {"", "terminal", "retry_failed", "cancelled", "refused", "rejected", "discarded", "thrown"},
         phase' = "ended" <=> how' # "",
         history' \in Entries, surface = "vercel" => history'.disabled /\ ~history'.on,
         history'.disabled => ~history'.on,
         phase' = "ended" /\ ~history'.disabled => Recorded',
         attempts' \in 0..MaxRetries, switches' \in 0..MaxSwitches, results' \in 0..MaxResults,
         limited' => switches' > 0
  PROVE  HistoryInv'
<1> DEFINE n == Len(Steps(surface))
<1>1. /\ AskedInv' /\ surface' = surface /\ step' = step /\ n' = n
  BY RequestStays DEF HistoryInv
<1>2. n \in Nat /\ step = n /\ step \in 0..n /\ surface \in {q.surface : q \in Asked}
  BY UnderWayFacts
<1> HIDE DEF n
<1>3. AnswerTypeOK'
  BY <1>1, <1>2 DEF AnswerTypeOK, Entries, n
<1>4. HistoryReady'
  BY <1>1, <1>2 DEF HistoryReady, Entries, n
<1>5. HistoryTold'
  BY <1>1, <1>2, ToldIfRecorded DEF n
<1> QED BY <1>1, <1>3, <1>4, <1>5 DEF HistoryInv

\* Frame of the steps that are not about a try.
LEMMA TriesStay ==
  ASSUME HistoryInv, phase \in UnderWay, UNCHANGED tries, UNCHANGED results
  PROVE  /\ attempts' \in 0..MaxRetries /\ switches' \in 0..MaxSwitches /\ results' \in 0..MaxResults
         /\ limited' => switches' > 0
<1>1. attempts' = attempts /\ switches' = switches /\ limited' = limited /\ results' = results
  BY DEF tries
<1> QED BY <1>1, UnderWayFacts

LEMMA RefuseKeeps == ASSUME HistoryInv, RefuseRequest PROVE HistoryInv'
<1>1. /\ UNCHANGED request /\ UNCHANGED tries /\ results' = results /\ history' = history
      /\ phase = "preparing" /\ phase' = "ended" /\ how' = "refused"
  BY DEF RefuseRequest
<1>2. attempts' = attempts /\ switches' = switches /\ limited' = limited
  BY <1>1 DEF tries
<1>3. AskedInv' /\ Steps(surface)' = Steps(surface) /\ surface' = surface /\ step' = step
  BY <1>1, RequestStays DEF HistoryInv
<1>4. /\ history \in Entries /\ history.disabled /\ ~history.present /\ (surface = "vercel" => ~history.on)
      /\ step < Len(Steps(surface)) /\ step \in 0..Len(Steps(surface))
  BY <1>1 DEF HistoryInv, HistoryReady, AnswerTypeOK, Entries
<1>5. AnswerTypeOK'
  BY <1>1, <1>2, <1>3, <1>4 DEF HistoryInv, AnswerTypeOK, Entries
<1>6. HistoryReady'
  BY <1>1, <1>3, <1>4 DEF HistoryReady, Entries
<1>7. HistoryTold'
  BY <1>1, <1>3, <1>4 DEF HistoryTold
<1> QED BY <1>3, <1>5, <1>6, <1>7 DEF HistoryInv

LEMMA BeginKeeps == ASSUME HistoryInv, Begin PROVE HistoryInv'
<1>1. /\ UNCHANGED request /\ UNCHANGED tries /\ results' = results /\ history' = history
      /\ phase = "start" /\ phase' = "streaming" /\ how' = how
  BY DEF Begin
<1> QED BY <1>1, UnderWayFacts, TriesStay, UnderWayKeeps DEF UnderWay

LEMMA VercelBeginKeeps == ASSUME HistoryInv, NEW body \in FirstBodies, VercelBegin(body) PROVE HistoryInv'
<1>1. /\ UNCHANGED request /\ attempts' = attempts /\ limited' = limited /\ results' = results /\ history' = history
      /\ surface = "vercel" /\ phase = "start" /\ phase' = (IF body = "json" THEN "ended" ELSE "streaming")
      /\ how' = (IF body = "json" THEN "thrown" ELSE how)
      /\ switches' = switches \/ (switches < MaxSwitches /\ switches' = switches + 1)
  BY DEF VercelBegin
<1>2. phase \in UnderWay
  BY <1>1 DEF UnderWay
<1>3. /\ history \in Entries /\ how = "" /\ history.disabled /\ ~history.on
      /\ attempts \in 0..MaxRetries /\ switches \in 0..MaxSwitches /\ results \in 0..MaxResults
      /\ (limited => switches > 0)
  BY <1>1, <1>2, UnderWayFacts
<1>4. /\ switches' \in 0..MaxSwitches /\ (limited' => switches' > 0)
  <2>1. limited' = limited /\ (switches' = switches \/ (switches < MaxSwitches /\ switches' = switches + 1))
    BY <1>1
  <2>2. switches \in 0..MaxSwitches /\ (limited => switches > 0)
    BY <1>3
  <2> QED BY <2>1, <2>2, BoundsAre
<1> QED BY <1>1, <1>2, <1>3, <1>4, UnderWayKeeps

LEMMA RejectKeeps == ASSUME HistoryInv, Reject PROVE HistoryInv'
<1>1. /\ UNCHANGED request /\ UNCHANGED tries /\ results' = results
      /\ phase = "start" /\ phase' = "ended"
      /\ \/ how' = "rejected" /\ history' = HistoryError(history)
         \/ how' = "discarded" /\ history' = HistoryDiscard(history)
  BY DEF Reject
<1>2. phase \in UnderWay
  BY <1>1 DEF UnderWay
<1>3. /\ history \in Entries /\ history.disabled = ~history.on
      /\ (surface = "vercel" => history.disabled /\ ~history.on)
  BY <1>1, <1>2, UnderWayFacts DEF HistoryInv, HistoryReady
<1>4. CASE how' = "rejected" /\ history' = HistoryError(history)
  <2>1. /\ history' \in Entries /\ history'.on = history.on /\ (history.disabled => history' = history)
        /\ history'.disabled => history.disabled \/ ~history.on
        /\ ~history'.disabled => history'.present /\ history'.status = "error"
    BY <1>3, <1>4, PersistUpdateIs DEF HistoryError
  <2>2. ~history'.disabled => Recorded'
    BY <1>4, <2>1 DEF Recorded
  <2> QED BY <1>1, <1>2, <1>3, <1>4, <2>1, <2>2, TriesStay, UnderWayKeeps
<1>5. CASE how' = "discarded" /\ history' = HistoryDiscard(history)
  <2>1. /\ history' \in Entries /\ history'.on = history.on /\ history'.disabled = history.disabled
        /\ ~history'.disabled => ~history'.present
    BY <1>3, <1>5 DEF HistoryDiscard, Entries
  <2>2. ~history'.disabled => Recorded'
    BY <1>5, <2>1 DEF Recorded
  <2> QED BY <1>1, <1>2, <1>3, <1>5, <2>1, <2>2, TriesStay, UnderWayKeeps
<1> QED BY <1>1, <1>4, <1>5

LEMMA ResultKeeps == ASSUME HistoryInv, NEW r \in Results, Result(r) PROVE HistoryInv'
<1>1. /\ UNCHANGED request /\ UNCHANGED tries /\ phase' = phase /\ how' = how
      /\ phase = "streaming" /\ results < MaxResults /\ results' = results + 1
      /\ history' \in HistoryProgress(history)
  BY DEF Result
<1>2. phase \in UnderWay
  BY <1>1 DEF UnderWay
<1>3. /\ history \in Entries /\ how = "" /\ (surface = "vercel" => history.disabled /\ ~history.on)
      /\ history.disabled => ~history.on
      /\ attempts \in 0..MaxRetries /\ switches \in 0..MaxSwitches /\ results \in 0..MaxResults
      /\ (limited => switches > 0)
  BY <1>2, UnderWayFacts
<1>4. /\ history' \in Entries /\ history'.on = history.on /\ (history.disabled => history' = history)
      /\ history'.disabled => history.disabled \/ ~history.on
  <2>1. history' = history \/ history' = PersistUpdate(history, "streaming")
    BY <1>1 DEF HistoryProgress
  <2>2. history \in Entries
    BY <1>3
  <2> DEFINE k == PersistUpdate(history, "streaming")
  <2>3. k \in Entries /\ k.on = history.on /\ (history.disabled => k = history)
        /\ (k.disabled => history.disabled \/ ~history.on)
    BY <2>2, PersistUpdateIs
  <2> HIDE DEF k
  <2> QED BY <2>1, <2>2, <2>3 DEF k
<1>5. /\ attempts' = attempts /\ switches' = switches /\ limited' = limited /\ results' \in 0..MaxResults
  <2>1. results < MaxResults /\ results' = results + 1 /\ results \in 0..MaxResults
    BY <1>1, <1>3
  <2>2. results' \in 0..MaxResults
    BY <2>1, BoundsAre
  <2> QED BY <1>1, <2>2 DEF tries
<1> QED BY <1>1, <1>2, <1>3, <1>4, <1>5, UnderWayKeeps

\* A terminal event that an attempt leaves is the last one it has written, and an error
\* just if it is told as one.
LEMMA LeftIs ==
  ASSUME NEW s, NEW before
  PROVE  LET l == Left(s, before)
         IN  /\ l.rt = s /\ l.status \in {"none", "error", "success"}
             /\ l.status = "error" => Last(s.sent).e = "error"
             /\ l.status = "success" => Last(s.sent).e # "error"
<1> DEFINE told == Len(s.sent) > Len(before.sent) /\ Terminal(Last(s.sent))
           err == Last(s.sent).e = "error"
<1>1. Left(s, before) = [rt |-> s, status |-> CASE ~told -> "none" [] told /\ err -> "error" [] OTHER -> "success"]
  BY DEF Left
<1>2. told \in BOOLEAN /\ err \in BOOLEAN
  OBVIOUS
<1>3. err <=> Last(s.sent).e = "error"
  OBVIOUS
<1> HIDE DEF told, err
<1>4. /\ Left(s, before).rt = s
      /\ Left(s, before).status \in {"none", "error", "success"}
      /\ Left(s, before).status = "error" => err
      /\ Left(s, before).status = "success" => ~err
  BY <1>1, <1>2
<1> QED BY <1>3, <1>4

LEMMA EndAttemptKeeps == ASSUME HistoryInv, EndAttempt PROVE HistoryInv'
<1>1. PICK e \in Ends : \E l \in {Left(Finalized(rt, e.bad, e.defer), rt)} : Concluded(l)
  BY DEF EndAttempt
<1> DEFINE s == Finalized(rt, e.bad, e.defer)
           l == Left(s, rt)
<1>2. Concluded(l)
  BY <1>1
<1>3. phase \in {"streaming", "deferred"}
  BY <1>1 DEF Ends
<1> HIDE DEF s
<1>4. /\ l.rt = s /\ l.status \in {"none", "error", "success"}
      /\ l.status = "error" => Last(s.sent).e = "error"
      /\ l.status = "success" => Last(s.sent).e # "error"
  BY LeftIs
<1> HIDE DEF l
<1>5. /\ rt' = s /\ phase' = (IF l.status = "none" THEN "deferred" ELSE "ended")
      /\ how' = (IF l.status = "none" THEN how ELSE "terminal")
      /\ history' = HistoryEnd(history, l.status)
  BY <1>2, <1>4 DEF Concluded
<1>6. UNCHANGED request /\ UNCHANGED tries /\ UNCHANGED results
  BY DEF EndAttempt
<1>7. phase \in UnderWay
  BY <1>3 DEF UnderWay
<1>8. /\ history \in Entries /\ how = "" /\ (surface = "vercel" => history.disabled /\ ~history.on)
      /\ history.disabled => ~history.on
  BY <1>7, UnderWayFacts
<1>9. CASE l.status = "none"
  <2>1. history' = history /\ phase' = "deferred" /\ how' = ""
    BY <1>5, <1>8, <1>9 DEF HistoryEnd
  <2> QED BY <1>6, <1>7, <1>8, <2>1, TriesStay, UnderWayKeeps
<1>10. CASE l.status # "none"
  <2>1. phase' = "ended" /\ how' = "terminal" /\ history' = PersistUpdate(history, l.status)
    BY <1>4, <1>5, <1>10 DEF HistoryEnd, HistorySuccess, HistoryError
  <2>2. /\ history' \in Entries /\ history'.on = history.on /\ (history.disabled => history' = history)
        /\ history'.disabled => history.disabled \/ ~history.on
        /\ ~history'.disabled => history'.present /\ history'.status = l.status
    <3>1. history \in Entries /\ l.status \in {"streaming", "success", "error", "stopped"}
      BY <1>4, <1>8, <1>10
    <3> DEFINE st == l.status
    <3> HIDE DEF st
    <3>2. history \in Entries /\ st \in {"streaming", "success", "error", "stopped"} /\ history' = PersistUpdate(history, st)
      BY <3>1, <2>1 DEF st
    <3>3. /\ history' \in Entries /\ history'.on = history.on /\ (history.disabled => history' = history)
          /\ history'.disabled => history.disabled \/ ~history.on
          /\ ~history'.disabled => history'.present /\ history'.status = st
      BY <3>2, PersistUpdateIs
    <3> QED BY <3>3 DEF st
  <2>3. (l.status = "error" => Last(rt'.sent).e = "error") /\ (l.status = "success" => Last(rt'.sent).e # "error")
    BY <1>4, <1>5
  <2>4. ~history'.disabled => Recorded'
    BY <1>4, <1>10, <2>1, <2>2, <2>3 DEF Recorded
  <2> QED BY <1>6, <1>7, <1>8, <2>1, <2>2, <2>4, TriesStay, UnderWayKeeps
<1> QED BY <1>9, <1>10

LEMMA CancelKeeps == ASSUME HistoryInv, Cancel PROVE HistoryInv'
<1>1. /\ UNCHANGED request /\ UNCHANGED tries /\ UNCHANGED results
      /\ phase = "streaming" /\ phase' = "ended" /\ how' = "cancelled" /\ surface \in {"chat", "responses", "vercel"}
      /\ history' = IF surface = "chat" THEN HistoryStopped(history) ELSE history
  BY DEF Cancel
<1>2. phase \in UnderWay /\ surface' = surface
  BY <1>1 DEF UnderWay, request
<1>3. /\ history \in Entries /\ (surface = "vercel" => history.disabled /\ ~history.on)
      /\ history.disabled => ~history.on
  BY <1>2, UnderWayFacts
<1>4. /\ history' \in Entries /\ history'.on = history.on /\ (history.disabled => history' = history)
      /\ history'.disabled => history.disabled \/ ~history.on
      /\ surface = "chat" /\ ~history'.disabled => history'.present /\ history'.status = "stopped"
  BY <1>1, <1>3, PersistUpdateIs DEF HistoryStopped
<1>5. ~history'.disabled => Recorded'
  BY <1>1, <1>2, <1>3, <1>4 DEF Recorded
<1> QED BY <1>1, <1>2, <1>3, <1>4, <1>5, TriesStay, UnderWayKeeps

\* An attempt that is begun anew leaves the history alone.
LEMMA RestartKeeps ==
  ASSUME HistoryInv, NEW n \in {0, 1}, NEW sw \in {0, 1}, Restart(n, sw),
         n = 1 => attempts < MaxRetries, sw = 1 => switches < MaxSwitches,
         limited' = limited \/ sw = 1
  PROVE  HistoryInv'
<1>1. /\ UNCHANGED request /\ how' = how /\ results' = results /\ history' = history
      /\ phase = "deferred" /\ phase' = "streaming" /\ attempts' = attempts + n /\ switches' = switches + sw
  BY DEF Restart
<1>2. phase \in UnderWay
  BY <1>1 DEF UnderWay
<1>3. /\ history \in Entries /\ how = "" /\ (surface = "vercel" => history.disabled /\ ~history.on)
      /\ history.disabled => ~history.on
  BY <1>2, UnderWayFacts
<1>4. /\ attempts \in 0..MaxRetries /\ switches \in 0..MaxSwitches /\ results \in 0..MaxResults
      /\ (limited => switches > 0)
  BY <1>2, UnderWayFacts
<1>5. /\ attempts' \in 0..MaxRetries /\ switches' \in 0..MaxSwitches /\ results' \in 0..MaxResults
      /\ (limited' => switches' > 0)
  <2>1. attempts' = attempts + n /\ switches' = switches + sw /\ results' = results
    BY <1>1
  <2> QED BY <1>4, <2>1, BoundsAre
<1> QED BY <1>1, <1>2, <1>3, <1>5, UnderWayKeeps

LEMMA SwitchAtOnceKeeps == ASSUME HistoryInv, SwitchAtOnce PROVE HistoryInv'
<1>1. /\ UNCHANGED request /\ phase' = phase /\ how' = how /\ attempts' = attempts /\ results' = results
      /\ history' = history /\ phase = "streaming" /\ switches < MaxSwitches /\ switches' = switches + 1
  BY DEF SwitchAtOnce, SwitchesAfter, NoStream
<1>2. phase \in UnderWay
  BY <1>1 DEF UnderWay
<1>3. /\ history \in Entries /\ how = "" /\ (surface = "vercel" => history.disabled /\ ~history.on)
      /\ history.disabled => ~history.on
  BY <1>2, UnderWayFacts
<1>4. attempts \in 0..MaxRetries /\ switches \in 0..MaxSwitches /\ results \in 0..MaxResults
  BY <1>2, UnderWayFacts
<1>5. attempts' \in 0..MaxRetries /\ switches' \in 0..MaxSwitches /\ results' \in 0..MaxResults /\ switches' > 0
  BY <1>1, <1>4, BoundsAre
<1> QED BY <1>1, <1>2, <1>3, <1>5, UnderWayKeeps

LEMMA RestartsKeep ==
  ASSUME HistoryInv, Retry \/ SwitchAccount \/ SwitchAtOnce \/ SwitchInRetry \/ VercelSwitch PROVE HistoryInv'
<1>1. CASE Retry
  BY <1>1, RestartKeeps DEF Retry
<1>2. CASE SwitchAccount
  BY <1>2, RestartKeeps DEF SwitchAccount, SwitchesAfter
<1>3. CASE SwitchInRetry
  BY <1>3, RestartKeeps DEF SwitchInRetry, SwitchesAfter
<1>4. CASE VercelSwitch
  BY <1>4, RestartKeeps DEF VercelSwitch
<1>5. CASE SwitchAtOnce
  BY <1>5, SwitchAtOnceKeeps
<1> QED BY <1>1, <1>2, <1>3, <1>4, <1>5

LEMMA RetryFailsKeeps == ASSUME HistoryInv, RetryFails PROVE HistoryInv'
<1>1. /\ UNCHANGED request /\ UNCHANGED tries /\ UNCHANGED results
      /\ phase \in {"streaming", "deferred"} /\ phase' = "ended" /\ how' = "retry_failed"
      /\ history' = IF ~opts.stream \/ surface \in {"chat", "responses"} THEN HistoryError(history) ELSE history
  BY DEF RetryFails, NoStream
<1>2. phase \in UnderWay /\ surface' = surface /\ opts' = opts
  BY <1>1 DEF UnderWay, request
<1>3. /\ history \in Entries /\ (surface = "vercel" => history.disabled /\ ~history.on)
      /\ history.disabled => ~history.on
  BY <1>2, UnderWayFacts
<1>4. surface \in Surfaces /\ opts.stream \in BOOLEAN /\ (surface = "vercel" => opts.stream)
  BY DEF HistoryInv, AskedInv, Options
<1>5. CASE ~opts.stream \/ surface \in {"chat", "responses"}
  <2>1. history' = PersistUpdate(history, "error")
    BY <1>1, <1>5 DEF HistoryError
  <2>2. /\ history' \in Entries /\ history'.on = history.on /\ (history.disabled => history' = history)
        /\ history'.disabled => history.disabled \/ ~history.on
        /\ ~history'.disabled => history'.present /\ history'.status = "error"
    BY <1>3, <2>1, PersistUpdateIs
  <2>3. ~history'.disabled => Recorded'
    BY <1>1, <2>2 DEF Recorded
  <2> QED BY <1>1, <1>2, <1>3, <2>2, <2>3, TriesStay, UnderWayKeeps
<1>6. CASE ~(~opts.stream \/ surface \in {"chat", "responses"})
  <2>1. history' = history
    BY <1>1, <1>6
  <2>2. ~history'.disabled => Recorded'
    BY <1>1, <1>2, <1>3, <1>4, <1>6, <2>1 DEF Recorded, Surfaces
  <2> QED BY <1>1, <1>2, <1>3, <2>1, <2>2, TriesStay, UnderWayKeeps
<1> QED BY <1>5, <1>6

LEMMA InterfereKeeps == ASSUME HistoryInv, Interfere PROVE HistoryInv'
<1>1. /\ UNCHANGED request /\ UNCHANGED tries /\ UNCHANGED results /\ phase' = phase /\ how' = how
      /\ phase \in {"streaming", "deferred"} /\ history.on
      /\ \/ history' = [history EXCEPT !.present = FALSE]
         \/ history' = [history EXCEPT !.on = FALSE]
  BY DEF Interfere
<1>2. phase \in UnderWay
  BY <1>1 DEF UnderWay
<1>3. /\ history \in Entries /\ how = "" /\ (surface = "vercel" => history.disabled /\ ~history.on)
      /\ history.disabled => ~history.on
  BY <1>2, UnderWayFacts
<1>4. history' \in Entries /\ ~history'.disabled /\ surface # "vercel"
  BY <1>1, <1>3 DEF Entries
<1> QED BY <1>1, <1>2, <1>3, <1>4, TriesStay, UnderWayKeeps

LEMMA VercelThrowsKeeps == ASSUME HistoryInv, VercelThrows PROVE HistoryInv'
<1>1. /\ UNCHANGED request /\ UNCHANGED tries /\ UNCHANGED results /\ history' = history
      /\ surface = "vercel" /\ phase # "ended" /\ phase' = "ended" /\ how' = "thrown"
  BY DEF VercelThrows
<1>2. phase # "preparing"
  <2>1. Len(Steps(surface)) = 0
    BY <1>1, StepsAre DEF Surfaces
  <2>2. phase = "preparing" => step < 0 /\ step \in 0..0
    BY <2>1 DEF HistoryInv, AnswerTypeOK
  <2> QED BY <2>2
<1>3. phase \in UnderWay
  BY <1>1, <1>2 DEF HistoryInv, AnswerTypeOK, UnderWay
<1>4. history \in Entries /\ history.disabled /\ ~history.on
  BY <1>1, <1>3, UnderWayFacts
<1> QED BY <1>1, <1>3, <1>4, TriesStay, UnderWayKeeps

LEMMA HistoryInvNext == HistoryInv /\ [AnswerNext]_answerVars => HistoryInv'
<1> SUFFICES ASSUME HistoryInv, [AnswerNext]_answerVars PROVE HistoryInv'
  OBVIOUS
<1>1. CASE Prepare
  BY <1>1, PrepareKeeps
<1>2. CASE RefuseRequest
  BY <1>2, RefuseKeeps
<1>3. CASE Begin
  BY <1>3, BeginKeeps
<1>4. CASE Reject
  BY <1>4, RejectKeeps
<1>5. CASE Cancel
  BY <1>5, CancelKeeps
<1>6. CASE Retry \/ SwitchAccount \/ SwitchAtOnce \/ SwitchInRetry \/ VercelSwitch
  BY <1>6, RestartsKeep
<1>7. CASE EndAttempt
  BY <1>7, EndAttemptKeeps
<1>8. CASE RetryFails
  BY <1>8, RetryFailsKeeps
<1>9. CASE VercelThrows
  BY <1>9, VercelThrowsKeeps
<1>10. CASE Interfere
  BY <1>10, InterfereKeeps
<1>11. CASE \E r \in Results : Result(r)
  BY <1>11, ResultKeeps
<1>12. CASE \E body \in FirstBodies : VercelBegin(body)
  BY <1>12, VercelBeginKeeps
<1>13. CASE UNCHANGED answerVars
  <2>1. /\ surface' = surface /\ opts' = opts /\ managed' = managed /\ step' = step
        /\ phase' = phase /\ how' = how /\ rt' = rt /\ attempts' = attempts /\ switches' = switches
        /\ limited' = limited /\ results' = results /\ history' = history
    BY <1>13 DEF answerVars
  <2>2. AskedInv'
    BY <2>1 DEF HistoryInv, AskedInv
  <2>3. AnswerTypeOK'
    BY <2>1 DEF HistoryInv, AnswerTypeOK
  <2>4. HistoryReady'
    BY <2>1 DEF HistoryInv, HistoryReady
  <2>5. HistoryTold'
    BY <2>1 DEF HistoryInv, HistoryTold
  <2> QED BY <2>2, <2>3, <2>4, <2>5 DEF HistoryInv
<1> QED BY <1>1, <1>2, <1>3, <1>4, <1>5, <1>6, <1>7, <1>8, <1>9, <1>10, <1>11, <1>12, <1>13 DEF AnswerNext

THEOREM AnswerIsRecorded == AnswerSpec => []HistoryTold
<1>1. HistoryInv => HistoryTold
  BY DEF HistoryInv
<1> QED BY <1>1, HistoryInvInit, HistoryInvNext, PTL DEF AnswerSpec
=============================================================================
