---------------------------- MODULE MCElasticPool ----------------------------
(* Small instances of ElasticPool. *)
EXTENDS ElasticPool

CONSTANTS a1, a2, a3

Quota(d, n, t) ==
    [enabled |-> TRUE,
     quota |-> [default |-> d, no_tools |-> n, tools_only |-> t]]
Off == [enabled |-> FALSE, quota |-> [t \in AllTypes |-> 0]]

TwoTypes == {"default", "no_tools"}
\* Enough for the edits of the accounts: one quota that leaves a reserve.
FewSettings == {Off, Quota(2, 1, 0)}

AccountSymmetry == Permutations(Identifiers)
=============================================================================
