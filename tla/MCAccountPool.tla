---------------------------- MODULE MCAccountPool ----------------------------
(* Small instances of AccountPool. *)
EXTENDS AccountPool

CONSTANTS a1, a2, r1, r2, r3, w1, w2

AnyWant == Blank
OnlyA1 == [target |-> a1, exclude |-> {}, tools |-> FALSE]
NotA1 == [target |-> NoAccount, exclude |-> {a1}, tools |-> FALSE]
WithTools == [target |-> NoAccount, exclude |-> {}, tools |-> TRUE]

Types == [a \in Accounts |-> IF a = a2 THEN "no_tools" ELSE "default"]

\* Both accounts usable, one slot each, two waiters at most.
Base == [order |-> <<a1, a2>>, sched |-> {a1, a2}, tokened |-> {a2},
         type |-> Types, per |-> 1, maxQueue |-> 2, global |-> Unset]

\* The same with wider limits, and after a1 was removed too, which a request
\* may be waiting for, and the queue size set to zero.
Wider == [Base EXCEPT !.per = 2, !.global = 2]
Removed == [Wider EXCEPT !.order = <<a2>>, !.maxQueue = 0]

AllConfigs == {Base, Removed}
StableConfigs == {Base, Wider}

SomeWants == {AnyWant, OnlyA1}

\* The requests that do the same; the third may switch and disconnect.
RequestSymmetry == Permutations({r1, r2})
=============================================================================
