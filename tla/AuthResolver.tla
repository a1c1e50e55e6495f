----------------------------- MODULE AuthResolver ----------------------------
(***************************************************************************)
(* How a request obtains, keeps, exchanges and gives back an upstream      *)
(* account (internal/auth/request.go): Determine acquires a slot and makes *)
(* sure the account has a token, logging in if need be and trying another  *)
(* account when the login fails; the upstream client may refresh the token *)
(* or switch accounts in the middle of the request; the handler's deferred *)
(* Release ends it.  The pool is reduced to its counters (AccountPool has  *)
(* the rest); Release is the pool's, which does not know who calls it.     *)
(***************************************************************************)
EXTENDS Naturals, FiniteSets

CONSTANTS
    Accounts,   \* identifiers
    NoAccount,  \* the empty identifier
    Requests,   \* request goroutines, with a managed API key
    Cap,        \* Pool.maxInflightPerAccount
    Pins,       \* values of the X-Ds2-Target-Account header, or NoAccount
    Resets      \* TRUE if somebody may call Pool.Reset meanwhile

ASSUME ResolverAssumption ==
    /\ IsFiniteSet(Accounts) /\ IsFiniteSet(Requests)
    /\ NoAccount \notin Accounts
    /\ Cap \in Nat \ {0}
    /\ Pins \subseteq Accounts \cup {NoAccount}
    /\ Resets \in BOOLEAN

VARIABLES
    inUse,      \* Pool.inUse
    sched,      \* accounts the store deems schedulable
    stored,     \* accounts whose token is in the store
    pc,         \* where each request is
    target,     \* RequestAuth.TargetAccount
    account,    \* RequestAuth.AccountID
    token,      \* whether RequestAuth.Account.Token is not empty
    tried,      \* RequestAuth.TriedAccounts
    owns        \* history: the account whose slot the request has taken and
                \* not given back

vars == <<inUse, sched, stored, pc, target, account, token, tried, owns>>
requestVars == <<pc, target, account, token, tried, owns>>

\* Mutants: one slot too many; the pin, the accounts given up on, ignored.
GrantableOverCap(r) ==
    {a \in sched \ tried[r] :
        inUse[a] <= Cap /\ target[r] \in {a, NoAccount}}

GrantableUnpinned(r) == {a \in sched \ tried[r] : inUse[a] < Cap}

GrantableAgain(r) ==
    {a \in sched : inUse[a] < Cap /\ target[r] \in {a, NoAccount}}

\* What the pool would grant: AccountPool.Grantable, without the global limit.
Grantable(r) ==
    {a \in sched \ tried[r] :
        inUse[a] < Cap /\ target[r] \in {a, NoAccount}}

\* Mutant: the last slot of an account stays counted.
PoolReleaseKeepsLast(r, a) ==
    /\ inUse' = [inUse EXCEPT ![a] = IF @ <= 1 THEN @ ELSE @ - 1]
    /\ owns' = [owns EXCEPT ![r] = IF @ = a THEN NoAccount ELSE @]

\* Pool.Release stops at zero; the slot given back is whosever it was.
PoolRelease(r, a) ==
    /\ inUse' = [inUse EXCEPT ![a] = IF @ = 0 THEN 0 ELSE @ - 1]
    /\ owns' = [owns EXCEPT ![r] = IF @ = a THEN NoAccount ELSE @]

PoolAcquire(r, a) ==
    /\ inUse' = [inUse EXCEPT ![a] = @ + 1]
    /\ owns' = [owns EXCEPT ![r] = a]
    /\ account' = [account EXCEPT ![r] = a]
    /\ token' = [token EXCEPT ![r] = a \in stored]

\* What Client.Login records: an account that is suspended when it fails; when it succeeds,
\* one that is muted all the same, or whose suspension the new token lifts.
RejectionRecords(a) == sched' \in {sched, sched \ {a}}
LoginRecords(a) == sched' \in {sched, sched \ {a}, sched \cup {a}}

Goto(r, label) == pc' = [pc EXCEPT ![r] = label]

-----------------------------------------------------------------------------
(* Determine and acquireManagedRequestAuth.                                *)

Determine(r) ==
    /\ pc[r] = "idle"
    /\ \E t \in Pins : target' = [target EXCEPT ![r] = t]
    /\ tried' = [tried EXCEPT ![r] = {}]
    /\ Goto(r, "acquiring")
    /\ UNCHANGED <<inUse, sched, stored, account, token, owns>>

\* AcquireWait returns an account.
Acquire(r) ==
    /\ pc[r] = "acquiring"
    /\ \E a \in Grantable(r) : PoolAcquire(r, a)
    /\ Goto(r, "ensuring")
    /\ UNCHANGED <<sched, stored, target, tried>>

\* AcquireWait returns none (queue full, nothing to wait for, client gone), or
\* every account has been tried: ErrNoAccount, and no RequestAuth to release.
Refuse(r) ==
    /\ pc[r] = "acquiring"
    /\ account' = [account EXCEPT ![r] = NoAccount]
    /\ Goto(r, "idle")
    /\ UNCHANGED <<inUse, sched, stored, target, token, tried, owns>>

-----------------------------------------------------------------------------
(* ensureManagedToken and loginAndPersist, called by Determine ("ensuring")*)
(* and by SwitchAccount ("reensuring").                                    *)

Ensuring == {"ensuring", "reensuring"}

\* The account has a token, and it is not due for a forced refresh.
KeepToken(r) ==
    /\ pc[r] \in Ensuring
    /\ token[r]
    /\ Goto(r, "using")
    /\ UNCHANGED <<inUse, sched, stored, target, account, token, tried, owns>>

\* The account has none, or the refresh interval has elapsed.
Login(r) ==
    /\ pc[r] \in Ensuring
    /\ stored' = stored \cup {account[r]}
    /\ token' = [token EXCEPT ![r] = TRUE]
    /\ LoginRecords(account[r])
    /\ Goto(r, "using")
    /\ UNCHANGED <<inUse, target, account, tried, owns>>

\* The slot goes back and another account is tried, unless one is pinned.
LoginFails(r) ==
    /\ pc[r] \in Ensuring
    /\ tried' = [tried EXCEPT ![r] = @ \cup {account[r]}]
    /\ PoolRelease(r, account[r])
    /\ RejectionRecords(account[r])
    /\ Goto(r, IF pc[r] = "reensuring" THEN "switching"
               ELSE IF target[r] = NoAccount THEN "acquiring" ELSE "idle")
    /\ UNCHANGED <<stored, target, account, token>>

-----------------------------------------------------------------------------
(* The request runs on its account: CreateSession, GetPow, completion.     *)

\* RefreshToken: the login succeeds.
Refresh(r) ==
    /\ pc[r] = "using"
    /\ stored' = stored \cup {account[r]}
    /\ token' = [token EXCEPT ![r] = TRUE]
    /\ LoginRecords(account[r])
    /\ UNCHANGED <<inUse, pc, target, account, tried, owns>>

\* RefreshToken: the upstream rejects the login (MarkTokenInvalid).  When the
\* failure is transient nothing changes.
RefreshRejected(r) ==
    /\ pc[r] = "using"
    /\ stored' = stored \ {account[r]}
    /\ token' = [token EXCEPT ![r] = FALSE]
    /\ RejectionRecords(account[r])
    /\ UNCHANGED <<inUse, pc, target, account, tried, owns>>

\* SwitchAccount gives the current account back first ...
SwitchBegin(r) ==
    /\ pc[r] = "using"
    /\ target[r] = NoAccount
    /\ tried' = [tried EXCEPT ![r] = @ \cup {account[r]}]
    /\ PoolRelease(r, account[r])
    /\ Goto(r, "switching")
    /\ UNCHANGED <<sched, stored, target, account, token>>

\* ... then takes another one without waiting for it ...
SwitchAcquire(r) ==
    /\ pc[r] = "switching"
    /\ \E a \in Grantable(r) : PoolAcquire(r, a)
    /\ Goto(r, "reensuring")
    /\ UNCHANGED <<sched, stored, target, tried>>

\* ... or fails: no account is free, the global limit is reached, or none is of the pool
\* type the request needs.  The RequestAuth still names an account, and the client's loops
\* go on with it.
SwitchFails(r) ==
    /\ pc[r] = "switching"
    /\ Goto(r, "using")
    /\ UNCHANGED <<inUse, sched, stored, target, account, token, tried, owns>>

\* The handler returns: its deferred Release.
Release(r) ==
    /\ pc[r] = "using"
    /\ PoolRelease(r, account[r])
    /\ account' = [account EXCEPT ![r] = NoAccount]
    /\ Goto(r, "idle")
    /\ UNCHANGED <<sched, stored, target, token, tried>>

-----------------------------------------------------------------------------
\* The administrator tests an account: it logs in, a second time if the token does not
\* serve, and stores each token, without a slot and whoever is using the account.
TestAccount(a) ==
    /\ stored' = stored \cup {a}
    /\ LoginRecords(a)
    /\ UNCHANGED <<inUse, requestVars>>

\* Somebody changes the store and calls Pool.Reset, which forgets the slots.
PoolReset ==
    /\ Resets
    /\ inUse' = [a \in Accounts |-> 0]
    /\ sched' \in SUBSET Accounts
    /\ UNCHANGED <<stored, requestVars>>

Init ==
    /\ inUse = [a \in Accounts |-> 0]
    /\ sched = Accounts
    /\ stored = {}   \* tokens are not kept in the file
    /\ pc = [r \in Requests |-> "idle"]
    /\ target = [r \in Requests |-> NoAccount]
    /\ account = [r \in Requests |-> NoAccount]
    /\ token = [r \in Requests |-> FALSE]
    /\ tried = [r \in Requests |-> {}]
    /\ owns = [r \in Requests |-> NoAccount]

Obtain(r) == Acquire(r) \/ Refuse(r)
Ensure(r) == KeepToken(r) \/ Login(r) \/ LoginFails(r)
Switch(r) == SwitchAcquire(r) \/ SwitchFails(r)

Next ==
    \/ \E r \in Requests :
        \/ Determine(r) \/ Obtain(r) \/ Ensure(r) \/ Refresh(r)
        \/ RefreshRejected(r) \/ SwitchBegin(r) \/ Switch(r) \/ Release(r)
    \/ \E a \in Accounts : TestAccount(a)
    \/ PoolReset

Spec == Init /\ [][Next]_vars

\* Logins and waits end, one way or the other: they are HTTP calls with
\* timeouts, and the pool's waits are AccountPool's matter.
FairSpec ==
    Spec /\ \A r \in Requests :
        WF_vars(Obtain(r)) /\ WF_vars(Ensure(r)) /\ WF_vars(Switch(r))

-----------------------------------------------------------------------------
Labels == {"idle", "acquiring", "ensuring", "using", "switching", "reensuring"}

\* The type invariant: no counter passes the limit, and a request that is past
\* the acquisition names an account.
TypeOK ==
    /\ inUse \in [Accounts -> 0 .. Cap]
    /\ sched \subseteq Accounts /\ stored \subseteq Accounts
    /\ pc \in [Requests -> Labels]
    /\ target \in [Requests -> Accounts \cup {NoAccount}]
    /\ account \in [Requests -> Accounts \cup {NoAccount}]
    /\ token \in [Requests -> BOOLEAN]
    /\ tried \in [Requests -> SUBSET Accounts]
    /\ owns \in [Requests -> Accounts \cup {NoAccount}]
    /\ \A r \in Requests : pc[r] \notin {"idle", "acquiring"} => account[r] # NoAccount

Owners(a) == {r \in Requests : owns[r] = a}
\* Whatever path a request takes through failed logins, refreshes and
\* switches, the pool never counts a slot that nobody will give back.
NoSlotLeak ==
    /\ \A a \in Accounts : inUse[a] <= Cardinality(Owners(a))
    /\ \A r \in Requests :
        pc[r] \in {"idle", "acquiring", "switching"} => owns[r] = NoAccount

\* A request that names its account runs on no other, through every retry.
PinnedStays ==
    \A r \in Requests :
        pc[r] = "using" => target[r] \in {account[r], NoAccount}

\* The loops of acquireManagedRequestAuth and of SwitchAccount end: each
\* failed login rules an account out.
EnsureEnds ==
    \A r \in Requests :
        (pc[r] \in {"acquiring", "switching"} \cup Ensuring)
            ~> (pc[r] \in {"idle", "using"})

\* What a request gives back is the slot it has taken.
OwnsItsAccount == \A r \in Requests : owns[r] \in {account[r], NoAccount}

\* A request that names its account logs in to no other.
TargetKept ==
    \A r \in Requests :
        pc[r] \in {"ensuring", "using"} /\ target[r] # NoAccount
            => account[r] = target[r]

\* Only a request that names none looks for another.
SwitchesUnpinned ==
    \A r \in Requests : pc[r] \in {"switching", "reensuring"} => target[r] = NoAccount

\* The books of the resolver, in the form that every step preserves: no slot is counted
\* without an owner, a request owns at most the slot of the account it names, and the one
\* that names its account from the beginning keeps to it and never switches.
Inv == TypeOK /\ OwnsItsAccount /\ NoSlotLeak /\ TargetKept /\ SwitchesUnpinned
=============================================================================
