---------------------------- MODULE MCStreamLease ----------------------------
(* StreamLease on a small instance: interchangeable streams.               *)
EXTENDS StreamLease, TLC

Symmetric == Permutations(Streams) \cup Permutations(Accounts)
=============================================================================
