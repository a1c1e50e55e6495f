------------------------------ MODULE SlotPool -------------------------------
(***************************************************************************)
(* What the account pool promises, with no queue and no waiter: a request  *)
(* is given a slot on an account only while fewer requests hold one than   *)
(* the limits allow, and gives it back once.  The limits may change at any *)
(* time; slots that were granted before stay granted.  AccountPool takes   *)
(* steps of this from every state in which it counts every slot.           *)
(***************************************************************************)
EXTENDS Naturals, FiniteSets

CONSTANTS Accounts, NoAccount, Requests

VARIABLES
    lease,   \* the account each request has a slot on
    per,     \* slots per account
    global   \* slots over all accounts, 0 for no limit

Holders(a) == {r \in Requests : lease[r] = a}
Held == {r \in Requests : lease[r] # NoAccount}

Init ==
    /\ lease = [r \in Requests |-> NoAccount]
    /\ per \in Nat \ {0}
    /\ global \in Nat

Acquire(r, a) ==
    /\ lease[r] = NoAccount
    /\ Cardinality(Holders(a)) < per
    /\ global > 0 => Cardinality(Held) < global
    /\ lease' = [lease EXCEPT ![r] = a]
    /\ UNCHANGED <<per, global>>

Release(r) ==
    /\ lease[r] # NoAccount
    /\ lease' = [lease EXCEPT ![r] = NoAccount]
    /\ UNCHANGED <<per, global>>

SetLimits ==
    /\ per' \in Nat \ {0}
    /\ global' \in Nat
    /\ UNCHANGED lease

Next ==
    \/ \E r \in Requests : Release(r) \/ \E a \in Accounts : Acquire(r, a)
    \/ SetLimits

Spec == Init /\ [][Next]_<<lease, per, global>>
=============================================================================
