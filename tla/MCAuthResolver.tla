--------------------------- MODULE MCAuthResolver ----------------------------
(* Small instances of AuthResolver. *)
EXTENDS AuthResolver, TLC

CONSTANTS a1, a2

RequestSymmetry == Permutations(Requests)
=============================================================================
