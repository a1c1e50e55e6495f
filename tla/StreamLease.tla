----------------------------- MODULE StreamLease -----------------------------
(***************************************************************************)
(* The leases of the Vercel streaming path                                 *)
(* (internal/httpapi/openai/chat/vercel_stream.go).  A Node function that  *)
(* streams to the client asks the Go side to prepare the completion; the   *)
(* account slot it acquires stays with a lease in a table.  With the lease *)
(* the function (internal/js/chat-stream) may ask for a proof of work or   *)
(* for another account, and it gives the lease back at the end.  If it     *)
(* does not, some later call finds the lease expired and releases its      *)
(* account.  The pool is reduced to its counters, as in AuthResolver.      *)
(***************************************************************************)
EXTENDS Naturals, FiniteSets

CONSTANTS
    Accounts,   \* identifiers
    NoAccount,  \* the empty identifier
    Streams,    \* the functions, and the leases they are given
    Cap         \* Pool.maxInflightPerAccount

ASSUME LeaseAssumption ==
    /\ IsFiniteSet(Accounts) /\ IsFiniteSet(Streams)
    /\ NoAccount \notin Accounts
    /\ Cap \in Nat \ {0}

VARIABLES
    inUse,      \* Pool.inUse
    fn,         \* the function: the call it awaits ("prepare", "pow", "switch"),
                \* "running", "ending" (it has nothing left to do but to give
                \* the lease back) or "none"
    returning,  \* the streams whose release call is on its way
    call,       \* the Go handler that runs for the stream
    switch,     \* the progress of SwitchAccount in that handler
    account,    \* RequestAuth.AccountID
    tried,      \* RequestAuth.TriedAccounts
    session,    \* Handler.streamLeases: the account of the lease's SessionID,
                \* NoAccount if there is no such lease
    expired,    \* leases past their ExpiresAt
    popped,     \* leases out of the table whose account is to be released
    owns,       \* history: the slot the stream has taken and not given back
    overrun,    \* history: the streams whose lease left the table while a
                \* call on it was running
    broken,     \* history: the streams one of whose calls went unanswered
    late        \* history: the streams whose lease has expired

vars == <<inUse, fn, returning, call, switch, account, tried, session, expired,
          popped, owns, overrun, broken, late>>

\* What the remote side has, and what the Go handlers work with.
remote == <<fn, returning, broken>>

Leased == {s \in Streams : session[s] # NoAccount}

\* Mutant: one slot too many.
FreeOverCap(s) == {a \in Accounts \ tried[s] : inUse[a] <= Cap}

\* What the pool may grant.  Which accounts are schedulable, of what pool type, and whether
\* the global limit is reached is left open: an attempt may also fail while one is free.
Free(s) == {a \in Accounts \ tried[s] : inUse[a] < Cap}

\* Mutant: the last slot of an account stays counted.
PoolReleaseKeepsLast(s) ==
    /\ inUse' = [inUse EXCEPT ![account[s]] = IF @ <= 1 THEN @ ELSE @ - 1]
    /\ owns' = [owns EXCEPT ![s] = IF @ = account[s] THEN NoAccount ELSE @]

PoolRelease(s) ==
    /\ inUse' = [inUse EXCEPT ![account[s]] = IF @ = 0 THEN 0 ELSE @ - 1]
    /\ owns' = [owns EXCEPT ![s] = IF @ = account[s] THEN NoAccount ELSE @]

PoolAcquire(s, a) ==
    /\ inUse' = [inUse EXCEPT ![a] = @ + 1]
    /\ owns' = [owns EXCEPT ![s] = a]
    /\ account' = [account EXCEPT ![s] = a]

\* Mutant: the leases that expired leave the table unreleased.
PopUnreleased(given, taken) ==
    LET out == Leased \cap (expired \cup given)
    IN  /\ popped' = popped \cup (out \cap given)
        /\ expired' = expired \ out
        /\ overrun' = overrun \cup {s \in out : call[s] # "none"}
        /\ session' = [s \in Streams |-> IF s \in out THEN NoAccount
                                         ELSE IF s \in taken THEN account[s]
                                         ELSE session[s]]

\* popExpiredLeasesLocked, with what else the caller does to the table in the
\* same critical section: the leases in 'given' are given back, the lease of
\* a stream in 'taken' is entered.
PopExpired(given, taken) ==
    LET out == Leased \cap (expired \cup given)
    IN  /\ popped' = popped \cup out
        /\ expired' = expired \ out
        /\ overrun' = overrun \cup {s \in out : call[s] # "none"}
        /\ session' = [s \in Streams |-> IF s \in out THEN NoAccount
                                         ELSE IF s \in taken THEN account[s]
                                         ELSE session[s]]

\* Mutant: the lease is written back without a look at the table.
UpdateBlindly(s) == session' = [session EXCEPT ![s] = account[s]]

\* updateStreamLeaseState: nothing is recorded for a lease that is gone.
UpdateLease(s) ==
    session' = [session EXCEPT ![s] = IF @ = NoAccount THEN @ ELSE account[s]]

-----------------------------------------------------------------------------
(* handleVercelStreamPrepare, and the function that awaits it.             *)

\* fetchStreamPrepare.  The name of a stream is used again once nothing is left of it.
Arrive(s) ==
    /\ fn[s] = "none" /\ call[s] = "none"
    /\ s \notin returning \cup popped \cup Leased \cup overrun
    /\ fn' = [fn EXCEPT ![s] = "prepare"]
    /\ call' = [call EXCEPT ![s] = "prepare"]
    /\ tried' = [tried EXCEPT ![s] = {}]
    /\ broken' = broken \ {s} /\ late' = late \ {s}
    /\ PopExpired({}, {})
    /\ UNCHANGED <<inUse, returning, switch, account, owns>>

\* A handler ends, and its answer reaches the function that awaits it.
Reply(s, next) ==
    /\ call' = [call EXCEPT ![s] = "none"]
    /\ fn' = [fn EXCEPT ![s] = IF @ \in {"prepare", "pow", "switch"} THEN next ELSE @]
    /\ UNCHANGED <<returning, broken>>

Determine(s) ==
    /\ call[s] = "prepare"
    /\ \E a \in Free(s) : PoolAcquire(s, a)
    /\ call' = [call EXCEPT ![s] = "prepared"]
    /\ UNCHANGED <<remote, switch, tried, session, expired, popped, overrun, late>>

DetermineFails(s) ==
    /\ call[s] = "prepare"
    /\ Reply(s, "none")
    /\ UNCHANGED <<inUse, switch, account, tried, session, expired, popped,
                   owns, overrun, late>>

\* The payload is ready: holdStreamLease.
Hold(s) ==
    /\ call[s] = "prepared" /\ switch[s] = "no"
    /\ PopExpired({}, {s})
    /\ Reply(s, "running")
    /\ UNCHANGED <<inUse, switch, account, tried, owns, late>>

\* An early return: the deferred Release, since there is no lease.
PrepareFails(s) ==
    /\ call[s] = "prepared" /\ switch[s] = "no"
    /\ PoolRelease(s)
    /\ Reply(s, "none")
    /\ UNCHANGED <<switch, account, tried, session, expired, popped, overrun, late>>

-----------------------------------------------------------------------------
(* handleVercelStreamPow and handleVercelStreamSwitch: look the lease up,  *)
(* then work on its RequestAuth without any lock.  A handler whose caller  *)
(* has given up goes on; the next call of its stream is taken to come after*)
(* its end, the release call is not.                                       *)

\* fetchStreamPow; with a lease that is gone the function keeps the proof it has.
CallPow(s) ==
    /\ fn[s] = "running" /\ s \in Leased \ expired /\ call[s] = "none"
    /\ fn' = [fn EXCEPT ![s] = "pow"]
    /\ call' = [call EXCEPT ![s] = "pow"]
    /\ UNCHANGED <<inUse, returning, switch, account, tried, session, expired,
                   popped, owns, overrun, broken, late>>

\* fetchStreamSwitch.  The call sweeps first; if its own lease is swept it answers 404.
CallSwitch(s) ==
    /\ fn[s] = "running" /\ call[s] = "none"
    /\ PopExpired({}, {})
    /\ LET found == session'[s] # NoAccount
       IN  /\ call' = [call EXCEPT ![s] = IF found THEN "exchange" ELSE "none"]
           /\ fn' = [fn EXCEPT ![s] = IF found THEN "switch" ELSE "ending"]
           /\ switch' = [switch EXCEPT ![s] = IF found THEN "asked" ELSE "no"]
    /\ UNCHANGED <<inUse, returning, account, tried, owns, broken, late>>

\* SetAccountMutedUntil and SetAccountBanned, for what the function was told of its account:
\* the store marks it, and Pool.Reset forgets the slots, those of other requests too.
Report(s) ==
    /\ switch[s] = "asked"
    /\ inUse' = [a \in Accounts |-> 0]
    /\ UNCHANGED <<remote, call, switch, account, tried, session, expired, popped,
                   owns, overrun, late>>

\* SwitchAccount, called by the switch handler, or by CreateSession and GetPow
\* in any of the three handlers.
SwitchBegin(s) ==
    /\ call[s] \in {"prepared", "pow", "exchange"} /\ switch[s] \in {"no", "asked"}
    /\ tried' = [tried EXCEPT ![s] = @ \cup {account[s]}]
    /\ PoolRelease(s)
    /\ switch' = [switch EXCEPT ![s] = "begun"]
    /\ UNCHANGED <<remote, call, account, session, expired, popped, overrun, late>>

SwitchAcquire(s) ==
    /\ switch[s] = "begun"
    /\ \E a \in Free(s) : PoolAcquire(s, a)
    /\ switch' = [switch EXCEPT ![s] = "ensuring"]
    /\ UNCHANGED <<remote, call, tried, session, expired, popped, overrun, late>>

SwitchFails(s) ==
    /\ switch[s] = "begun"
    /\ switch' = [switch EXCEPT ![s] = "no"]
    /\ UNCHANGED <<remote, inUse, call, account, tried, session, expired,
                   popped, owns, overrun, late>>

\* ensureManagedToken has a token for the new account ...
Ensured(s) ==
    /\ switch[s] = "ensuring"
    /\ switch' = [switch EXCEPT ![s] = "no"]
    /\ UNCHANGED <<remote, inUse, call, account, tried, session, expired,
                   popped, owns, overrun, late>>

\* ... or gets none, and yet another account is tried.
EnsureFails(s) ==
    /\ switch[s] = "ensuring"
    /\ tried' = [tried EXCEPT ![s] = @ \cup {account[s]}]
    /\ PoolRelease(s)
    /\ switch' = [switch EXCEPT ![s] = "begun"]
    /\ UNCHANGED <<remote, call, account, session, expired, popped, overrun, late>>

\* The switch handler succeeds and records the session of the new account.
EndSwitch(s) ==
    /\ call[s] = "exchange" /\ switch[s] = "no"
    /\ UpdateLease(s)
    /\ Reply(s, "running")
    /\ UNCHANGED <<inUse, switch, account, tried, expired, popped, owns, overrun, late>>

\* A proof of work, or an error of either handler, changes no lease.  A function that
\* asked for another account and gets none ends; so does one whose account is pinned.
EndCall(s) ==
    /\ call[s] \in {"pow", "exchange"} /\ switch[s] \in {"no", "asked"}
    /\ switch' = [switch EXCEPT ![s] = "no"]
    /\ Reply(s, IF call[s] = "pow" THEN "running" ELSE "ending")
    /\ UNCHANGED <<inUse, account, tried, session, expired, popped,
                   owns, overrun, late>>

\* A call breaks off.  Without the answer to prepare the function has no lease to give
\* back; a failed proof of work is ignored (refreshPowHeader); a failed switch is thrown.
Broken(s) ==
    /\ fn[s] \in {"prepare", "pow", "switch"}
    /\ fn' = [fn EXCEPT ![s] = CASE @ = "prepare" -> "none"
                                 [] @ = "pow" -> "running"
                                 [] @ = "switch" -> "ending"]
    /\ broken' = broken \cup {s}
    /\ UNCHANGED <<inUse, returning, call, switch, account, tried, session, expired,
                   popped, owns, overrun, late>>

-----------------------------------------------------------------------------
(* The end of a stream.                                                    *)

\* Mutant: the lease is given back as soon as the client leaves, whatever is awaited.
LeavesAtOnce(s) == fn[s] \in {"running", "ending", "pow", "switch"}

\* The finally block is reached when nothing is awaited: a client that leaves aborts the
\* upstream's stream, not the calls to the Go side.
Leaves(s) == fn[s] \in {"running", "ending"}

\* createLeaseReleaser: the release is called once, and nobody waits for it longer than
\* its timeout.
CallRelease(s) ==
    /\ Leaves(s)
    /\ fn' = [fn EXCEPT ![s] = "none"]
    /\ returning' = returning \cup {s}
    /\ UNCHANGED <<inUse, call, switch, account, tried, session, expired, popped,
                   owns, overrun, broken, late>>

\* The call arrives, at handleVercelStreamRelease: the lease and the expired ones leave
\* the table.
GiveBack(s) ==
    /\ s \in returning
    /\ returning' = returning \ {s}
    /\ PopExpired({s}, {})
    /\ UNCHANGED <<inUse, fn, call, switch, account, tried, owns, broken, late>>

\* Or it does not: its errors are ignored.
Lost(s) ==
    /\ s \in returning
    /\ returning' = returning \ {s}
    /\ UNCHANGED <<inUse, fn, call, switch, account, tried, session, expired,
                   popped, owns, overrun, broken, late>>

\* The platform stops the function.
Vanish(s) ==
    /\ fn[s] # "none"
    /\ fn' = [fn EXCEPT ![s] = "none"]
    /\ UNCHANGED <<inUse, returning, call, switch, account, tried, session, expired,
                   popped, owns, overrun, broken, late>>

\* ExpiresAt is set by Hold and never moved.
Expire(s) ==
    /\ s \in Leased \ expired
    /\ expired' = expired \cup {s}
    /\ late' = late \cup {s}
    /\ UNCHANGED <<remote, inUse, call, switch, account, tried, session, popped,
                   owns, overrun>>

\* A call that goes no further than its sweep: refused, malformed, or about a
\* lease that does not exist.
Sweep ==
    /\ Leased \cap expired # {}
    /\ PopExpired({}, {})
    /\ UNCHANGED <<remote, inUse, call, switch, account, tried, owns, late>>

\* releaseExpiredAuths, or the deferred Release of handleVercelStreamRelease
\* once the remote session is deleted: the account the RequestAuth names now.
ReleasePopped(s) ==
    /\ s \in popped
    /\ PoolRelease(s)
    /\ popped' = popped \ {s}
    /\ UNCHANGED <<remote, call, switch, account, tried, session, expired, overrun, late>>

-----------------------------------------------------------------------------
Init ==
    /\ inUse = [a \in Accounts |-> 0]
    /\ fn = [s \in Streams |-> "none"] /\ returning = {}
    /\ call = [s \in Streams |-> "none"]
    /\ switch = [s \in Streams |-> "no"]
    /\ account = [s \in Streams |-> NoAccount]
    /\ tried = [s \in Streams |-> {}]
    /\ session = [s \in Streams |-> NoAccount]
    /\ expired = {} /\ popped = {}
    /\ owns = [s \in Streams |-> NoAccount]
    /\ overrun = {} /\ broken = {} /\ late = {}

Prepare(s) == Arrive(s) \/ Determine(s) \/ DetermineFails(s) \/ Hold(s) \/ PrepareFails(s)
Use(s) == CallPow(s) \/ CallSwitch(s) \/ EndSwitch(s) \/ EndCall(s) \/ Broken(s)
Switch(s) ==
    Report(s) \/ SwitchBegin(s) \/ SwitchAcquire(s) \/ SwitchFails(s) \/ Ensured(s) \/ EnsureFails(s)
Finish(s) ==
    \/ CallRelease(s) \/ GiveBack(s) \/ Lost(s) \/ Vanish(s)
    \/ Expire(s) \/ ReleasePopped(s)

Next ==
    \/ \E s \in Streams : Prepare(s) \/ Use(s) \/ Switch(s) \/ Finish(s)
    \/ Sweep

Spec == Init /\ [][Next]_vars

-----------------------------------------------------------------------------
\* The type invariant; what is popped has left the table, and whoever works on
\* a RequestAuth, or keeps one for later, has an account in it.
TypeOK ==
    /\ inUse \in [Accounts -> 0 .. Cap]
    /\ fn \in [Streams -> {"none", "prepare", "running", "pow", "switch", "ending"}]
    /\ returning \cup broken \cup late \subseteq Streams
    /\ call \in [Streams -> {"none", "prepare", "prepared", "pow", "exchange"}]
    /\ switch \in [Streams -> {"no", "asked", "begun", "ensuring"}]
    /\ account \in [Streams -> Accounts \cup {NoAccount}]
    /\ tried \in [Streams -> SUBSET Accounts]
    /\ session \in [Streams -> Accounts \cup {NoAccount}]
    /\ expired \subseteq Leased
    /\ popped \subseteq Streams \ Leased
    /\ owns \in [Streams -> Accounts \cup {NoAccount}]
    /\ overrun \subseteq Streams
    /\ \A s \in Streams :
        /\ switch[s] # "no" => call[s] \in {"prepared", "pow", "exchange"}
        /\ s \in Leased \cup popped \/ call[s] \in {"prepared", "pow", "exchange"}
            => account[s] # NoAccount

\* Somebody has the slot to give back: the handler that runs for the stream,
\* the lease in the table or whoever took that lease out.
Attended(s) == call[s] # "none" \/ s \in Leased \/ s \in popped

\* No slot is lost, whatever fails, expires, is lost or comes twice, as long as
\* no lease leaves the table under a call that is working on it.
NoOrphanSlot ==
    \A s \in Streams \ overrun : owns[s] # NoAccount => Attended(s)

\* A lease leaves the table under a running call only if it expired, or if that call broke
\* off and the function went on to its end: one that is answered gives the lease back when
\* all its calls are over, also if the client is gone.
CallsEndFirst == overrun \subseteq broken \cup late

\* The pool counts no slot that none of the streams has taken, through failed
\* prepares, switches, releases and sweeps.
Owners(a) == {s \in Streams : owns[s] = a}
NoPhantomSlot ==
    \A a \in Accounts : inUse[a] <= Cardinality(Owners(a))

\* A lease that has been given back or swept does not come back, not even when
\* a switch that looked it up before ends after: only Prepare enters a lease.
NoResurrection ==
    [][\A s \in Streams :
        session[s] = NoAccount /\ session'[s] # NoAccount =>
            call[s] = "prepared"]_vars

\* The pool's counters and the leases tell the same: each slot counted was taken by a stream,
\* and each slot taken has somebody who will give it back.
SlotsAttended == TypeOK /\ NoPhantomSlot /\ NoOrphanSlot
=============================================================================
