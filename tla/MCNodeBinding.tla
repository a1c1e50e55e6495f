--------------------------- MODULE MCNodeBinding ---------------------------
(* Small instances of NodeBinding. *)
EXTENDS NodeBinding

CONSTANTS a1, a2, n1, n2, s1, s2

TwoAccounts == <<a1, a2>>
TwoNodes == <<n1, n2>>

Apart == n1 :> s1 @@ n2 :> s2

\* Nothing bound yet; and every account bound, as after AssignAccounts and a restart.
Fresh ==
  [auto |-> TRUE, apiPort |-> 2, sub |-> [s \in Subs |-> "live"],
   status |-> [n \in Nodes |-> "unknown"], port |-> [n \in Nodes |-> 0],
   proxy |-> [n \in Nodes |-> 0], bound |-> [a \in Accounts |-> NoNode],
   disabled |-> {}, noProxy |-> {}, cooling |-> {}, left |-> {}]
OneSub ==
  [Fresh EXCEPT !.sub[s2] = "new", !.status = [n \in Nodes |-> IF SubOf[n] = s2 THEN "gone" ELSE @[n]],
                !.disabled = {a2}]
BothBound ==
  [Fresh EXCEPT !.port = n1 :> 1 @@ n2 :> 3, !.proxy = n1 :> 1 @@ n2 :> 3, !.bound = a1 :> n1 @@ a2 :> n2]
\* n1 left its subscription and came back, while the API was moved to its old port.
Returned == [BothBound EXCEPT !.port[n1] = 0, !.apiPort = 1, !.left = {n1}]
\* n1 failed lately, and a1 was moved to n2.
Moved ==
  [BothBound EXCEPT !.status[n1] = "fail", !.port[n1] = 0, !.proxy[n1] = 0, !.bound[a1] = n2, !.cooling = {a1}]
StoredConfigs == {OneSub, BothBound, Returned, Moved}
=============================================================================
