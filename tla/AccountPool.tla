----------------------------- MODULE AccountPool -----------------------------
(***************************************************************************)
(* The pool of upstream accounts shared by every request of the gateway    *)
(* (internal/account/pool_*.go).  A request asks for a concurrency slot on *)
(* an account, either a given one or the first in rotation order that can  *)
(* serve it.  If all the slots are taken it parks in a bounded FIFO of     *)
(* waiters; every release closes the channel of the waiter at the head,    *)
(* which starts its loop over.  A request that was given an account may    *)
(* change it for another, and when it finds none it keeps the name of the  *)
(* one it has given back.  Concurrently, the admin API and the             *)
(* authentication code change the account store under the pool's feet and  *)
(* rebuild the pool from it (Reset), or only change its limits.            *)
(***************************************************************************)
EXTENDS Integers, Sequences, FiniteSets, SequencesExt

CONSTANTS
    Accounts,    \* identifiers an account of the store may have
    NoAccount,   \* the empty identifier
    Requests,    \* the goroutines that serve client requests
    Admins,      \* the goroutines that change the pool's limits
    Resetters,   \* those of them that may rebuild it from the store
    Configs,     \* the states the account store may be in
    Wants,       \* what a request may ask for: target, exclusions, tools flag
    MayCancel,   \* the requests whose client may disconnect
    MaySwitch    \* the requests that may ask for another account

\* The order of a rebuilt queue: accounts that hold a token first, otherwise
\* the order of the store (pool_core.go, sort.SliceStable).
ResetOrder(c) ==
    SelectSeq(c.order, LAMBDA a : a \in c.tokened)
        \o SelectSeq(c.order, LAMBDA a : a \notin c.tokened)

PoolTypes == {"default", "no_tools", "tools_only"}

\* A limit that neither the settings nor the environment name; an explicit
\* queue size of zero is a size.
Unset == -1

ConfigType ==
    [order : Seq(Accounts), sched : SUBSET Accounts, tokened : SUBSET Accounts,
     type : [Accounts -> PoolTypes], per : Nat \ {0},
     maxQueue : Nat \cup {Unset}, global : (Nat \ {0}) \cup {Unset}]

WantType == [target : Accounts \cup {NoAccount},
             exclude : SUBSET Accounts, tools : BOOLEAN]

\* What a request that is not being served asks for.
Blank == [target |-> NoAccount, exclude |-> {}, tools |-> FALSE]

ASSUME ConstantsAssumption ==
    /\ IsFiniteSet(Accounts) /\ IsFiniteSet(Requests)
    /\ NoAccount \notin Accounts
    /\ MayCancel \subseteq Requests /\ MaySwitch \subseteq Requests
    /\ Resetters \subseteq Admins
    /\ \A w \in Wants : w \in WantType

ASSUME ConfigsAssumption ==
    /\ Configs # {}
    /\ \A c \in Configs :
        /\ c \in ConfigType
        /\ ResetOrder(c) \in Seq(Accounts)
        /\ IsInjective(ResetOrder(c))
        /\ ToSet(ResetOrder(c)) = ToSet(c.order)

VARIABLES
    store,      \* the account store and its runtime settings
    queue,      \* Pool.queue: rotation order
    inUse,      \* Pool.inUse: slots taken on each account
    waiters,    \* Pool.waiters: the parked requests, oldest first
    limits,     \* Pool.maxInflightPerAccount, maxQueueSize, globalMaxInflight
    pc,         \* where each request is
    want,       \* what it asked for
    lease,      \* the account it was given
    named,      \* the account it still names while it owns no slot
    woken,      \* the parked requests whose channel has been closed
    cancelled,  \* the requests whose context is done
    job,        \* the progress of each admin goroutine
    forgotten   \* history: live leases on each account that the pool does
                \* not count, after a Reset or a second release

poolVars == <<queue, inUse, waiters, woken>>
reqVars == <<pc, want, lease, named, cancelled>>
vars == <<store, poolVars, limits, reqVars, job, forgotten>>

-----------------------------------------------------------------------------
(* What the pool reads.                                                    *)

\* The store's accounts and the pool's type filter are read at each attempt.
Matches(type, tools) ==
    CASE type = "no_tools"   -> ~tools
      [] type = "tools_only" -> tools
      [] OTHER               -> TRUE

Serves(a, w) ==
    /\ a \in ToSet(store.order) \cap store.sched
    /\ Matches(store.type[a], w.tools)
    /\ a \notin w.exclude

\* The accounts a request may be given, whether or not they have a free slot.
Candidates(w) ==
    {a \in IF w.target = NoAccount THEN ToSet(queue) ELSE {w.target} :
        Serves(a, w)}

\* The slots taken, as a set of pairs, so that its size is the sum of inUse.
Slots == UNION {{a} \X (1 .. inUse[a]) : a \in Accounts}
SlotsInUse == Cardinality(Slots)

\* Mutant: no global limit.
HasSlotOnAccount(a) == inUse[a] < limits.per

HasSlot(a) ==
    /\ inUse[a] < limits.per
    /\ limits.global > 0 => SlotsInUse < limits.global

Grantable(w) == {a \in Candidates(w) : HasSlot(a)}

CanQueue(w) ==
    /\ Len(waiters) < limits.maxQueue
    /\ Candidates(w) # {}

\* The account an attempt returns: the target, or the first in rotation.
FirstGrantable(w, a) ==
    /\ a \in Grantable(w)
    /\ w.target = NoAccount =>
        \E i \in DOMAIN queue :
            /\ queue[i] = a
            /\ \A j \in 1 .. i - 1 : queue[j] \notin Grantable(w)

-----------------------------------------------------------------------------
(* What the pool does under its lock.                                      *)

\* Mutant: the account is appended but not taken out first.
BumpTwice(a) == queue' = IF a \in ToSet(queue) THEN Append(queue, a) ELSE queue

\* bumpQueue: an account that was granted goes to the back of the rotation.
Bump(a) ==
    queue' = IF a \in ToSet(queue) THEN Append(RemoveFirst(queue, a), a)
                                   ELSE queue

TakeSlot(a) ==
    /\ inUse' = [inUse EXCEPT ![a] = @ + 1]
    /\ Bump(a)

\* Mutants: the channel is closed but stays in the slice; the newest waiter
\* goes first.
NotifyHead ==
    /\ woken' = woken \cup (IF waiters = <<>> THEN {} ELSE {Head(waiters)})
    /\ UNCHANGED waiters

NotifyNewest ==
    IF waiters = <<>>
    THEN UNCHANGED <<waiters, woken>>
    ELSE /\ waiters' = Front(waiters)
         /\ woken' = woken \cup {Last(waiters)}

NotifyOne ==
    IF waiters = <<>>
    THEN UNCHANGED <<waiters, woken>>
    ELSE /\ waiters' = Tail(waiters)
         /\ woken' = woken \cup {Head(waiters)}

\* Mutants: nobody is told; the whole counter is deleted.
FreeSlotQuietly(a) ==
    /\ IF inUse[a] = 0
       THEN forgotten' = [forgotten EXCEPT ![a] = @ - 1] /\ UNCHANGED inUse
       ELSE inUse' = [inUse EXCEPT ![a] = @ - 1] /\ UNCHANGED forgotten
    /\ UNCHANGED <<waiters, woken>>

FreeAllSlots(a) ==
    IF inUse[a] = 0
    THEN /\ forgotten' = [forgotten EXCEPT ![a] = @ - 1]
         /\ UNCHANGED <<inUse, waiters, woken>>
    ELSE /\ inUse' = [inUse EXCEPT ![a] = 0]
         /\ NotifyOne
         /\ UNCHANGED forgotten

\* Release: an account without a taken slot is left alone, nobody is told.
FreeSlot(a) ==
    IF inUse[a] = 0
    THEN /\ forgotten' = [forgotten EXCEPT ![a] = @ - 1]
         /\ UNCHANGED <<inUse, waiters, woken>>
    ELSE /\ inUse' = [inUse EXCEPT ![a] = @ - 1]
         /\ NotifyOne
         /\ UNCHANGED forgotten

-----------------------------------------------------------------------------
(* Requests.                                                               *)

Begin(r) ==
    /\ pc[r] = "idle"
    /\ \E w \in Wants : want' = [want EXCEPT ![r] = w]
    /\ pc' = [pc EXCEPT ![r] = "trying"]
    /\ UNCHANGED <<store, poolVars, limits, lease, named, cancelled, job,
                   forgotten>>

\* The client disconnects; a request that holds a slot goes on to release it.
Disconnect(r) ==
    /\ r \in MayCancel \ cancelled
    /\ pc[r] \in {"trying", "parked"}
    /\ cancelled' = cancelled \cup {r}
    /\ UNCHANGED <<store, poolVars, limits, pc, want, lease, named, job,
                   forgotten>>

Leave(r) ==
    /\ pc' = [pc EXCEPT ![r] = "idle"]
    /\ want' = [want EXCEPT ![r] = Blank]
    /\ cancelled' = cancelled \ {r}

\* AcquireWait, under the lock: a slot is free.  A client that disconnects
\* after the check at the top of the loop does not prevent it.
Grant(r) ==
    /\ pc[r] = "trying"
    /\ \E a \in Accounts :
        /\ FirstGrantable(want[r], a)
        /\ TakeSlot(a)
        /\ lease' = [lease EXCEPT ![r] = a]
    /\ pc' = [pc EXCEPT ![r] = "holding"]
    /\ cancelled' = cancelled \ {r}
    /\ UNCHANGED <<store, waiters, woken, limits, want, named, job, forgotten>>

\* AcquireWait, under the lock: no slot is free but one may become so.
Park(r) ==
    /\ pc[r] = "trying"
    /\ Grantable(want[r]) = {}
    /\ CanQueue(want[r])
    /\ waiters' = Append(waiters, r)
    /\ pc' = [pc EXCEPT ![r] = "parked"]
    /\ UNCHANGED <<store, queue, inUse, woken, limits, want, lease, named,
                   cancelled, job, forgotten>>

\* AcquireWait, under the lock: nothing to wait for, or no room to wait.
Refuse(r) ==
    /\ pc[r] = "trying"
    /\ Grantable(want[r]) = {}
    /\ ~CanQueue(want[r])
    /\ Leave(r)
    /\ UNCHANGED <<store, poolVars, limits, lease, named, job, forgotten>>

\* The check at the top of the loop.
GiveUp(r) ==
    /\ pc[r] = "trying"
    /\ r \in cancelled
    /\ Leave(r)
    /\ UNCHANGED <<store, poolVars, limits, lease, named, job, forgotten>>

\* The channel is closed: the loop starts over, behind whoever is waiting.
Wake(r) ==
    /\ pc[r] = "parked"
    /\ r \in woken \ cancelled
    /\ woken' = woken \ {r}
    /\ pc' = [pc EXCEPT ![r] = "trying"]
    /\ UNCHANGED <<store, queue, inUse, waiters, limits, want, lease, named,
                   cancelled, job, forgotten>>

\* The context is done: the request leaves the waiters if it is still among
\* them; if its channel has been closed the wake-up is not passed on.
Abandon(r) ==
    /\ pc[r] = "parked"
    /\ r \in cancelled
    /\ waiters' = RemoveFirst(waiters, r)
    /\ woken' = woken \ {r}
    /\ Leave(r)
    /\ UNCHANGED <<store, queue, inUse, limits, lease, named, job, forgotten>>

Release(r) ==
    /\ pc[r] = "holding"
    /\ FreeSlot(lease[r])
    /\ lease' = [lease EXCEPT ![r] = NoAccount]
    /\ Leave(r)
    /\ UNCHANGED <<store, queue, limits, named, job>>

\* SwitchAccount: the request gives its slot back and asks for any account it
\* has not tried; a request pinned to an account does not.  An account whose
\* login fails is given back in the same way.
SwitchBegin(r) ==
    /\ r \in MaySwitch
    /\ pc[r] = "holding"
    /\ want[r].target = NoAccount
    /\ FreeSlot(lease[r])
    /\ lease' = [lease EXCEPT ![r] = NoAccount]
    /\ named' = [named EXCEPT ![r] = lease[r]]
    /\ want' = [want EXCEPT ![r].exclude = @ \cup {lease[r]}]
    /\ pc' = [pc EXCEPT ![r] = "switching"]
    /\ UNCHANGED <<store, queue, limits, cancelled, job>>

\* Acquire, under the lock: it never waits.
SwitchTake(r) ==
    /\ pc[r] = "switching"
    /\ \E a \in Accounts :
        /\ FirstGrantable(want[r], a)
        /\ TakeSlot(a)
        /\ lease' = [lease EXCEPT ![r] = a]
    /\ named' = [named EXCEPT ![r] = NoAccount]
    /\ pc' = [pc EXCEPT ![r] = "holding"]
    /\ UNCHANGED <<store, waiters, woken, limits, want, cancelled, job, forgotten>>

\* Nothing can be granted: the request goes on without a slot, and with the
\* account it has given back still in its AccountID.
SwitchFails(r) ==
    /\ pc[r] = "switching"
    /\ Grantable(want[r]) = {}
    /\ pc' = [pc EXCEPT ![r] = "stray"]
    /\ UNCHANGED <<store, poolVars, limits, want, lease, named, cancelled, job,
                   forgotten>>

\* Release of an account whose slot the caller has given back before: if one
\* is taken it is another request's.
FreeSlotOfAnother(a) ==
    IF inUse[a] = 0
    THEN UNCHANGED <<inUse, waiters, woken, forgotten>>
    ELSE /\ inUse' = [inUse EXCEPT ![a] = @ - 1]
         /\ forgotten' = [forgotten EXCEPT ![a] = @ + 1]
         /\ NotifyOne

\* After a failed switch the request ends, or asks for another account once
\* more: both begin with a release of the account it names.
ReleaseAgain(r) ==
    /\ pc[r] = "stray"
    /\ FreeSlotOfAnother(named[r])
    /\ \/ /\ named' = [named EXCEPT ![r] = NoAccount]
          /\ Leave(r)
       \/ /\ pc' = [pc EXCEPT ![r] = "switching"]
          /\ UNCHANGED <<want, named, cancelled>>
    /\ UNCHANGED <<store, queue, limits, lease, job>>

-----------------------------------------------------------------------------
(* The store, and the goroutines that rebuild the pool from it.            *)

\* An account is added, removed, muted, banned, cooled down or refreshed, a
\* mute or a cooldown expires, a setting changes: Store.Update takes only the
\* store's own lock.
StoreChange ==
    /\ \E c \in Configs \ {store} : store' = c
    /\ UNCHANGED <<poolVars, limits, reqVars, job, forgotten>>

\* A limit that is not set stands for the recommended concurrency.
OrDefault(setting, recommended) ==
    IF setting = Unset THEN recommended ELSE setting

Idle == [task |-> "none", step |-> "idle", ids |-> <<>>, per |-> 1,
         recommended |-> 0, maxQueue |-> 0, global |-> 0]

\* What a goroutine of the admin API does before it takes the pool's lock.
Unlocked(w, new) ==
    /\ job' = [job EXCEPT ![w] = new]
    /\ UNCHANGED <<store, poolVars, reqVars, forgotten>>

\* Reset reads the accounts from the store, outside the pool's lock.
ResetScan(w) ==
    /\ w \in Resetters
    /\ job[w] = Idle
    /\ Unlocked(w, [Idle EXCEPT !.task = "reset", !.step = "scanned",
                               !.ids = ResetOrder(store)])
    /\ UNCHANGED limits

\* It then writes the per-account limit, still outside the lock.
ResetPer(w) ==
    /\ job[w].step = "scanned"
    /\ limits' = [limits EXCEPT !.per = store.per]
    /\ Unlocked(w, [job[w] EXCEPT !.step = "written"])

\* It reads the limit back to compute the default of the two others.
ResetRecommended(w) ==
    /\ job[w].step = "written"
    /\ Unlocked(w, [job[w] EXCEPT !.step = "recommended",
                    !.recommended = Len(job[w].ids) * limits.per])
    /\ UNCHANGED limits

\* applyRuntimeSettings counts the accounts of the store ...
SettingsCount(w) ==
    /\ job[w] = Idle
    /\ Unlocked(w, [Idle EXCEPT !.task = "settings", !.step = "counted",
          !.recommended = IF store.order = <<>> THEN 1 ELSE Len(store.order)])
    /\ UNCHANGED limits

\* ... and reads the per-account limit.
SettingsPer(w) ==
    /\ job[w].step = "counted"
    /\ Unlocked(w, [job[w] EXCEPT !.step = "recommended", !.per = store.per,
                                  !.recommended = @ * store.per])
    /\ UNCHANGED limits

\* Both then read the two other limits, each under the store's lock.
ReadMaxQueue(w) ==
    /\ job[w].step = "recommended"
    /\ Unlocked(w, [job[w] EXCEPT !.step = "queue",
            !.maxQueue = OrDefault(store.maxQueue, job[w].recommended)])
    /\ UNCHANGED limits

ReadGlobal(w) ==
    /\ job[w].step = "queue"
    /\ Unlocked(w, [job[w] EXCEPT !.step = "computed",
            !.global = OrDefault(store.global, job[w].recommended)])
    /\ UNCHANGED limits

\* Reset, under the lock: every waiter is woken, every slot is forgotten.
ResetInstall(w) ==
    /\ job[w].task = "reset" /\ job[w].step = "computed"
    /\ woken' = woken \cup ToSet(waiters)
    /\ waiters' = <<>>
    /\ queue' = job[w].ids
    /\ forgotten' = [a \in Accounts |-> forgotten[a] + inUse[a]]
    /\ inUse' = [a \in Accounts |-> 0]
    /\ limits' = [limits EXCEPT !.maxQueue = job[w].maxQueue,
                                !.global = job[w].global]
    /\ job' = [job EXCEPT ![w] = Idle]
    /\ UNCHANGED <<store, reqVars>>

\* ApplyRuntimeLimits, under the lock: one waiter is woken.
SettingsApply(w) ==
    /\ job[w].task = "settings" /\ job[w].step = "computed"
    /\ limits' = [per |-> job[w].per, maxQueue |-> job[w].maxQueue,
                  global |-> job[w].global]
    /\ NotifyOne
    /\ job' = [job EXCEPT ![w] = Idle]
    /\ UNCHANGED <<store, queue, inUse, reqVars, forgotten>>

-----------------------------------------------------------------------------
\* NewPool runs Reset once before any request is served.
Init ==
    /\ store \in Configs
    /\ queue = ResetOrder(store)
    /\ inUse = [a \in Accounts |-> 0]
    /\ waiters = <<>>
    /\ LET recommended == Len(queue) * store.per
       IN  limits = [per |-> store.per,
                     maxQueue |-> OrDefault(store.maxQueue, recommended),
                     global |-> OrDefault(store.global, recommended)]
    /\ pc = [r \in Requests |-> "idle"]
    /\ want = [r \in Requests |-> Blank]
    /\ lease = [r \in Requests |-> NoAccount]
    /\ named = [r \in Requests |-> NoAccount]
    /\ woken = {}
    /\ cancelled = {}
    /\ job = [w \in Admins |-> Idle]
    /\ forgotten = [a \in Accounts |-> 0]

RequestStep(r) ==
    \/ Begin(r) \/ Disconnect(r) \/ Grant(r) \/ Park(r) \/ Refuse(r)
    \/ GiveUp(r) \/ Wake(r) \/ Abandon(r) \/ Release(r)
    \/ SwitchBegin(r) \/ SwitchTake(r) \/ SwitchFails(r) \/ ReleaseAgain(r)

AdminStep(w) ==
    \/ ResetScan(w) \/ ResetPer(w) \/ ResetRecommended(w)
    \/ SettingsCount(w) \/ SettingsPer(w)
    \/ ReadMaxQueue(w) \/ ReadGlobal(w) \/ ResetInstall(w) \/ SettingsApply(w)

Next ==
    \/ \E r \in Requests : RequestStep(r)
    \/ \E w \in Admins : AdminStep(w)
    \/ StoreChange

Spec == Init /\ [][Next]_vars

\* A goroutine that can run does: the attempt, the wake-up and the end of a
\* request are not left pending for ever.  Arrivals, disconnections, store
\* changes and admin calls are not promised.
Fairness ==
    \A r \in Requests :
        /\ WF_vars(Grant(r) \/ Park(r) \/ Refuse(r) \/ GiveUp(r))
        /\ WF_vars(Wake(r) \/ Abandon(r))
        /\ WF_vars(Release(r) \/ ReleaseAgain(r))
        /\ WF_vars(SwitchTake(r) \/ SwitchFails(r))

FairSpec == Spec /\ Fairness
-----------------------------------------------------------------------------
Steps == {"idle", "scanned", "written", "counted", "recommended", "queue",
          "computed"}

Labels == {"idle", "trying", "parked", "holding", "switching", "stray"}

LimitsType == [per : Nat \ {0}, maxQueue : Nat, global : Nat]

JobType == [task : {"none", "reset", "settings"}, step : Steps,
            ids : Seq(Accounts), per : Nat \ {0}, recommended : Nat,
            maxQueue : Nat, global : Nat]

\* The type invariant: every variable has its type, a request has a lease
\* exactly when it holds a slot and names another exactly while it has none
\* after a switch began, and a rotation order names no account twice.
TypeOK ==
    /\ store \in Configs
    /\ queue \in Seq(Accounts) /\ IsInjective(queue)
    /\ inUse \in [Accounts -> Nat]
    /\ waiters \in Seq(Requests)
    /\ limits \in LimitsType
    /\ pc \in [Requests -> Labels]
    /\ want \in [Requests -> WantType]
    /\ lease \in [Requests -> Accounts \cup {NoAccount}]
    /\ \A r \in Requests : lease[r] # NoAccount <=> pc[r] = "holding"
    /\ named \in [Requests -> Accounts \cup {NoAccount}]
    /\ \A r \in Requests : named[r] # NoAccount <=> pc[r] \in {"switching", "stray"}
    /\ woken \subseteq Requests
    /\ cancelled \subseteq MayCancel
    /\ job \in [Admins -> JobType]
    /\ \A w \in Admins : IsInjective(job[w].ids)
    /\ forgotten \in [Accounts -> Nat]

Holders(a) == {r \in Requests : lease[r] = a}

\* The pool's count of each account is exact but for the leases a Reset wiped
\* (pool_core.go, Reset sets inUse to the empty map; Release stops at zero) or
\* a second release took the slot of (request.go:366 and 394): no slot leaks,
\* and the pool itself releases none twice.
ExactAccounting ==
    \A a \in Accounts : Cardinality(Holders(a)) = inUse[a] + forgotten[a]

\* A request waits for a wake-up exactly while its channel is in the FIFO or
\* closed, never both, and no channel is there twice (pool_waiters.go).
WaitersWellFormed ==
    /\ IsInjective(waiters)
    /\ ToSet(waiters) \cap woken = {}
    /\ ToSet(waiters) \cup woken = {r \in Requests : pc[r] = "parked"}

\* As long as somebody is parked in the FIFO, somebody else is bound to call
\* notifyWaiterLocked: a slot is taken, and will be released, or a request
\* that can still be served is about to try and will then hold one.
NoStrandedWaiters ==
    waiters # <<>> =>
        \/ \E a \in Accounts : inUse[a] > 0
        \/ \E r \in Requests : /\ pc[r] = "trying" \/ r \in woken
                               /\ Candidates(want[r]) # {}

\* Nobody overtakes an older waiter but by disconnecting: wake-ups go to the
\* head of the FIFO, and the order of those who stay is kept.
FifoWakeups ==
    [][\A i, j \in DOMAIN waiters : i < j =>
        /\ waiters[i] \in ToSet(waiters') /\ waiters[j] \notin ToSet(waiters')
            => waiters[j] \in cancelled
        /\ \A k, l \in DOMAIN waiters' :
            waiters'[k] = waiters[i] /\ waiters'[l] = waiters[j] => k < l
      ]_vars

\* The promise of SlotPool, which the pool keeps whenever neither a rebuild nor a second
\* release has made it forget a slot: with its rotation, its waiters and a count of slots instead of the slots themselves,
\* it grants no slot beyond the limits of the moment.
Promise == INSTANCE SlotPool WITH per <- limits.per, global <- limits.global

NothingForgotten == \A a \in Accounts : forgotten[a] = 0

KeepsPromise ==
    /\ Promise!Init
    /\ [][NothingForgotten => Promise!Next]_<<lease, limits.per, limits.global>>

\* Waiting is not hanging: a parked request does not stay in the FIFO for
\* ever (pool_waiters.go: a request queues only if that makes sense, so that
\* it does not hang indefinitely).
EveryWaiterIsNotified ==
    \A r \in Requests :
        (r \in ToSet(waiters)) ~> (r \notin ToSet(waiters))

\* The books of the pool, in the form that every step preserves: the accounting of slots
\* and the waiters, which rest on one another and on the types.
Inv == TypeOK /\ ExactAccounting /\ WaitersWellFormed
=============================================================================
