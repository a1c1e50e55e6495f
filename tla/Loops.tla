-------------------------------- MODULE Loops --------------------------------
(***************************************************************************)
(* Loops over lists, as recursive functions: what SelectSeq and FlattenSeq *)
(* say of a list, in a form in which the provers can follow one turn of    *)
(* the loop after the other (SequenceLemmas has the lemmas).               *)
(***************************************************************************)
EXTENDS Naturals, Sequences

\* What of a list is in S, in the order of the list.
Keep(kept, x, S) == IF x \in S THEN Append(kept, x) ELSE kept
Among(list, S) ==
  LET kept[i \in 0..Len(list)] == IF i = 0 THEN <<>> ELSE Keep(kept[i - 1], list[i], S)
  IN  kept[Len(list)]

\* A list of lists, one behind the other.
Behind(joined, list) == joined \o list
Joined(lists) ==
  LET joined[i \in 0..Len(lists)] == IF i = 0 THEN <<>> ELSE Behind(joined[i - 1], lists[i])
  IN  joined[Len(lists)]

\* Is s what is left of t when some of it is left out?
Within(s, t) ==
  LET found[i \in 0..Len(t)] ==
        IF i = 0 THEN 0
        ELSE IF found[i - 1] < Len(s) /\ s[found[i - 1] + 1] = t[i] THEN found[i - 1] + 1 ELSE found[i - 1]
  IN  found[Len(t)] = Len(s)
=============================================================================
