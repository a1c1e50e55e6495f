---------------------------- MODULE MCChatHistory ----------------------------
(* Small instances of ChatHistory. *)
EXTENDS ChatHistory, TLC

CONSTANTS h1, h2, h3, h4

IdSymmetry == Permutations(Ids)
=============================================================================
