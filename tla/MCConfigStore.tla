--------------------------- MODULE MCConfigStore ---------------------------
(* Small instances of ConfigStore. *)
EXTENDS ConfigStore, TLC

CONSTANTS k1, a1, p1, s1, s2

File(c, embedded, tested) == [is |-> "text", core |-> Core(c), embedded |-> embedded, tested |-> tested]

Bound == [proxy |-> p1, banned |-> FALSE]
\* One of everything; as the environment, a legacy file and an import may hold it.
Full ==
  [keys |-> {k1}, api |-> k1 :> TRUE, accounts |-> a1 :> Bound, proxies |-> {p1},
   limits |-> [per |-> 2, global |-> 2], apiPort |-> 2, subs |-> {}]
WithLegacySubs == [Full EXCEPT !.subs = {s1}]

\* The first entry gives a port that the API may be given too; the second is a subscription.
SomePorts == s1 :> 1 @@ s2 :> 0
SomeApiPorts == {1, 2}

\* The path only matters where the environment holds no configuration.
SomeSetups ==
  [env : {"unset"}, writeback : {FALSE}, path : {"explicit", "default", "container"}]
  \cup [env : {"valid", "invalid"}, writeback : BOOLEAN, path : {"explicit"}]

\* No files; files as the program writes them; an old file with the subscriptions in
\* it; one that also holds test results; and a main file torn by an earlier crash.
FirstDisks ==
  {[main |-> Absent, subs |-> Absent],
   [main |-> File(Full, {}, FALSE), subs |-> SubsText(WithLegacySubs)],
   [main |-> File(Full, {s1}, FALSE), subs |-> Absent],
   [main |-> File(Full, {s1}, TRUE), subs |-> Absent],
   [main |-> Torn, subs |-> Absent]}

SomeRequests == {[per |-> 1, global |-> 1], [per |-> 0, global |-> 1], [per |-> 2, global |-> 0]}
SomeImports ==
  {[Full EXCEPT !.apiPort = 1],
   [Full EXCEPT !.accounts = a1 :> [proxy |-> None, banned |-> FALSE], !.subs = {s1}]}
=============================================================================
