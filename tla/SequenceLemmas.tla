--------------------------- MODULE SequenceLemmas ---------------------------
(***************************************************************************)
(* Sequences that name no element twice, such as the rotation order of     *)
(* the pool and its waiters: what appending, taking the head and removing  *)
(* an element do to them, and that the order of what stays is kept.        *)
(***************************************************************************)
EXTENDS Naturals, Sequences, Loops, SequencesExt, SequenceTheorems, WellFoundedInduction, TLAPS

\* A new element at the end (the waiters of AcquireWait, bumpQueue).
LEMMA AppendFacts ==
    ASSUME NEW S, NEW s \in Seq(S), IsInjective(s), NEW x \in S, x \notin ToSet(s)
    PROVE  /\ Append(s, x) \in Seq(S)
           /\ IsInjective(Append(s, x))
           /\ ToSet(Append(s, x)) = ToSet(s) \cup {x}
<1> DEFINE t == Append(s, x)
<1>1. /\ Len(s) \in Nat /\ DOMAIN s = 1 .. Len(s)
      /\ t \in Seq(S) /\ DOMAIN t = 1 .. Len(s) + 1
      /\ \A i \in 1 .. Len(s) : t[i] = s[i]
      /\ t[Len(s) + 1] = x
  OBVIOUS
<1> HIDE DEF t
<1>2. \A i \in 1 .. Len(s) : t[i] # x
  BY <1>1 DEF ToSet
<1>3. IsInjective(t)
  <2> SUFFICES ASSUME NEW i \in 1 .. Len(s) + 1, NEW j \in 1 .. Len(s) + 1,
                      t[i] = t[j]
               PROVE  i = j
    BY <1>1 DEF IsInjective
  <2>1. CASE i \in 1 .. Len(s) /\ j \in 1 .. Len(s)
    BY <1>1, <2>1 DEF IsInjective
  <2>2. CASE i = Len(s) + 1 \/ j = Len(s) + 1
    BY <1>1, <1>2, <2>2
  <2> QED BY <1>1, <2>1, <2>2
<1>4. \A y : y \in ToSet(t) <=> y \in ToSet(s) \cup {x}
  BY <1>1 DEF ToSet
<1> QED BY <1>1, <1>3, <1>4 DEF t

\* The first element leaves (notifyWaiterLocked).
LEMMA TailFacts ==
    ASSUME NEW S, NEW s \in Seq(S), IsInjective(s), s # <<>>
    PROVE  /\ Head(s) \in S /\ Head(s) \in ToSet(s)
           /\ Tail(s) \in Seq(S)
           /\ IsInjective(Tail(s))
           /\ ToSet(Tail(s)) = ToSet(s) \ {Head(s)}
<1> DEFINE t == Tail(s)
<1>1. /\ Head(s) = s[1] /\ Len(s) \in Nat \ {0} /\ DOMAIN s = 1 .. Len(s)
      /\ t \in Seq(S) /\ DOMAIN t = 1 .. Len(s) - 1
      /\ \A i \in 1 .. Len(s) - 1 : t[i] = s[i + 1]
  OBVIOUS
<1> HIDE DEF t
<1>2. IsInjective(t)
  <2> SUFFICES ASSUME NEW i \in 1 .. Len(s) - 1, NEW j \in 1 .. Len(s) - 1,
                      t[i] = t[j]
               PROVE  i = j
    BY <1>1 DEF IsInjective
  <2>1. i + 1 \in DOMAIN s /\ j + 1 \in DOMAIN s /\ s[i + 1] = s[j + 1]
    BY <1>1
  <2>2. i + 1 = j + 1
    BY <2>1 DEF IsInjective
  <2> QED BY <2>2
<1>3. \A y \in ToSet(t) : y \in ToSet(s) /\ y # Head(s)
  BY <1>1 DEF IsInjective, ToSet
<1>4. ASSUME NEW y \in ToSet(s), y # Head(s) PROVE y \in ToSet(t)
  <2>1. PICK i \in 2 .. Len(s) : y = s[i]
    BY <1>1, <1>4 DEF ToSet
  <2>2. i - 1 \in 1 .. Len(s) - 1 /\ s[i] = t[i - 1]
    BY <1>1, <2>1
  <2> QED BY <1>1, <2>1, <2>2 DEF ToSet
<1>5. Head(s) \in S /\ Head(s) \in ToSet(s)
  BY <1>1 DEF ToSet
<1>6. ToSet(t) = ToSet(s) \ {Head(s)}
  BY <1>3, <1>4
<1> QED BY <1>1, <1>2, <1>5, <1>6 DEF t

\* The part of a sequence that follows its i-th element.
LEMMA DropFacts ==
    ASSUME NEW S, NEW s \in Seq(S), NEW i \in 1 .. Len(s)
    PROVE  LET t == SubSeq(s, i + 1, Len(s))
           IN  /\ t \in Seq(S) /\ Len(t) = Len(s) - i
               /\ \A j \in 1 .. Len(s) - i : t[j] = s[i + j]
<1> DEFINE t == SubSeq(s, i + 1, Len(s))
           n == Len(t)
<1>1. Len(s) \in Nat
  OBVIOUS
<1>2. /\ t \in Seq(S)
      /\ n = IF i + 1 <= Len(s) THEN Len(s) - (i + 1) + 1 ELSE 0
      /\ \A j \in 1 .. Len(s) - (i + 1) + 1 : t[j] = s[i + 1 + j - 1]
  BY <1>1, SubSeqProperties, SMTT(30)
<1> HIDE DEF n
<1>3. n = Len(s) - i
  BY <1>1, <1>2
<1> HIDE DEF t
<1>4. ASSUME NEW j \in 1 .. Len(s) - i PROVE t[j] = s[i + j]
  <2>1. j \in 1 .. Len(s) - (i + 1) + 1 /\ i + 1 + j - 1 = i + j
    BY <1>1
  <2> QED BY <1>2, <2>1
<1> QED BY <1>2, <1>3, <1>4 DEF n, t

\* The i-th element leaves, those behind it move up.
LEMMA RemoveAtElements ==
    ASSUME NEW S, NEW s \in Seq(S), NEW i \in 1 .. Len(s)
    PROVE  LET t == RemoveAt(s, i)
           IN  /\ t \in Seq(S) /\ DOMAIN t = 1 .. Len(s) - 1
               /\ \A j \in 1 .. Len(s) - 1 : t[j] = IF j < i THEN s[j] ELSE s[j + 1]
<1> DEFINE u == SubSeq(s, 1, i - 1)
           v == SubSeq(s, i + 1, Len(s))
           t == u \o v
<1>1. Len(s) \in Nat /\ DOMAIN s = 1 .. Len(s) /\ i \in 1 .. Len(s)
  OBVIOUS
<1>2. /\ u \in Seq(S) /\ Len(u) = i - 1
      /\ \A j \in 1 .. i - 1 : u[j] = s[j]
  BY <1>1
<1>3. /\ v \in Seq(S) /\ Len(v) = Len(s) - i
      /\ \A j \in 1 .. Len(s) - i : v[j] = s[i + j]
  BY DropFacts
<1> HIDE DEF u, v
<1>4. /\ t \in Seq(S) /\ DOMAIN t = 1 .. Len(s) - 1
      /\ \A j \in 1 .. Len(s) - 1 : t[j] = IF j < i THEN s[j] ELSE s[j + 1]
  <2>1. t \in Seq(S) /\ Len(t) = Len(s) - 1 /\ DOMAIN t = 1 .. Len(s) - 1
    <3>1. t \in Seq(S) /\ Len(t) = Len(u) + Len(v)
      BY <1>2, <1>3, ConcatProperties
    <3> HIDE DEF t
    <3> QED BY <1>1, <1>2, <1>3, <3>1
  <2>2. ASSUME NEW j \in 1 .. Len(s) - 1, j < i PROVE t[j] = s[j]
    BY <1>1, <1>2, <1>3, <2>2
  <2>3. ASSUME NEW j \in 1 .. Len(s) - 1, ~ j < i PROVE t[j] = s[j + 1]
    <3>1. t[j] = v[j - (i - 1)] /\ j - (i - 1) \in 1 .. Len(s) - i
      BY <1>1, <1>2, <1>3, <2>3
    <3> QED BY <1>1, <1>3, <2>3, <3>1
  <2> QED BY <2>1, <2>2, <2>3
<1>5. RemoveAt(s, i) = t
  BY DEF RemoveAt, t, u, v
<1> QED BY <1>4, <1>5

LEMMA RemoveAtFacts ==
    ASSUME NEW S, NEW s \in Seq(S), IsInjective(s), NEW i \in 1 .. Len(s)
    PROVE  /\ IsInjective(RemoveAt(s, i))
           /\ ToSet(RemoveAt(s, i)) = ToSet(s) \ {s[i]}
<1> DEFINE t == RemoveAt(s, i)
<1>1. Len(s) \in Nat /\ DOMAIN s = 1 .. Len(s) /\ i \in 1 .. Len(s)
  OBVIOUS
<1>4. /\ t \in Seq(S) /\ DOMAIN t = 1 .. Len(s) - 1
      /\ \A j \in 1 .. Len(s) - 1 : t[j] = IF j < i THEN s[j] ELSE s[j + 1]
  BY RemoveAtElements
<1> HIDE DEF t
<1>5. IsInjective(t)
  <2> DEFINE old(j) == IF j < i THEN j ELSE j + 1
  <2> SUFFICES ASSUME NEW j \in 1 .. Len(s) - 1, NEW k \in 1 .. Len(s) - 1,
                      t[j] = t[k]
               PROVE  j = k
    BY <1>4 DEF IsInjective
  <2>1. /\ old(j) \in DOMAIN s /\ old(k) \in DOMAIN s
        /\ s[old(j)] = s[old(k)]
    BY <1>1, <1>4
  <2>2. old(j) = old(k)
    BY <2>1 DEF IsInjective
  <2> QED BY <1>1, <2>2
<1>6. \A y \in ToSet(t) : y \in ToSet(s) /\ y # s[i]
  BY <1>1, <1>4 DEF IsInjective, ToSet
<1>7. ASSUME NEW y \in ToSet(s), y # s[i] PROVE y \in ToSet(t)
  <2>1. PICK k \in 1 .. Len(s) : y = s[k] /\ k # i
    BY <1>1, <1>7 DEF ToSet
  <2>2. CASE k < i
    BY <1>1, <1>4, <2>1, <2>2 DEF ToSet
  <2>3. CASE k > i
    <3>1. k - 1 \in 1 .. Len(s) - 1 /\ t[k - 1] = s[k]
      BY <1>1, <1>4, <2>1, <2>3
    <3> QED BY <1>4, <2>1, <3>1 DEF ToSet
  <2> QED BY <1>1, <2>1, <2>2, <2>3
<1>8. ToSet(t) = ToSet(s) \ {s[i]}
  BY <1>6, <1>7
<1> QED BY <1>5, <1>8 DEF t

\* RemoveFirst is one or the other of a sequence without repetitions.
LEMMA RemoveFirstIs ==
    ASSUME NEW S, NEW s \in Seq(S), IsInjective(s), NEW x
    PROVE  \/ x \notin ToSet(s) /\ RemoveFirst(s, x) = s
           \/ \E k \in 1 .. Len(s) : s[k] = x /\ RemoveFirst(s, x) = RemoveAt(s, k)
<1>1. CASE ~ \E i \in 1 .. Len(s) : s[i] = x
  <2>1. RemoveFirst(s, x) = s
    BY <1>1 DEF RemoveFirst
  <2>2. x \notin ToSet(s)
    BY <1>1 DEF ToSet
  <2> QED BY <2>1, <2>2
<1>2. CASE \E i \in 1 .. Len(s) : s[i] = x
  <2> DEFINE I == {i \in 1 .. Len(s) : s[i] = x}
  <2>1. PICK k \in 1 .. Len(s) : s[k] = x
    BY <1>2
  <2>2. I = {k}
    BY <2>1 DEF IsInjective
  <2>3. Min({k}) = k
    BY <2>1 DEF Min
  <2>4. SelectInSeq(s, LAMBDA v : v = x) = k
    BY <2>2, <2>3 DEF SelectInSeq
  <2>5. RemoveFirst(s, x) = RemoveAt(s, k)
    BY <1>2, <2>4 DEF RemoveFirst
  <2> QED BY <2>1, <2>5
<1> QED BY <1>1, <1>2

\* A given element leaves, if it is there (removeWaiterLocked, bumpQueue).
LEMMA RemoveFirstFacts ==
    ASSUME NEW S, NEW s \in Seq(S), IsInjective(s), NEW x
    PROVE  /\ RemoveFirst(s, x) \in Seq(S)
           /\ IsInjective(RemoveFirst(s, x))
           /\ ToSet(RemoveFirst(s, x)) = ToSet(s) \ {x}
<1>1. CASE x \notin ToSet(s) /\ RemoveFirst(s, x) = s
  BY <1>1
<1>2. ASSUME NEW k \in 1 .. Len(s), s[k] = x, RemoveFirst(s, x) = RemoveAt(s, k)
      PROVE  /\ RemoveFirst(s, x) \in Seq(S)
             /\ IsInjective(RemoveFirst(s, x))
             /\ ToSet(RemoveFirst(s, x)) = ToSet(s) \ {x}
  BY <1>2, RemoveAtElements, RemoveAtFacts
<1> QED BY <1>1, <1>2, RemoveFirstIs
-----------------------------------------------------------------------------
\* What is in both sequences comes in the same order in both.
KeepsOrder(s, t) ==
    \A i, j \in DOMAIN s : i < j =>
        \A k, l \in DOMAIN t : t[k] = s[i] /\ t[l] = s[j] => k < l

\* So it does if each element of t is found in s, further on than those before it.
LEMMA OrderByPlaces ==
    ASSUME NEW s, DOMAIN s \subseteq Nat, IsInjective(s),
           NEW t, DOMAIN t \subseteq Nat,
           NEW old \in [DOMAIN t -> Nat],
           \A k \in DOMAIN t : old[k] \in DOMAIN s => t[k] = s[old[k]],
           \A k \in DOMAIN t : old[k] \notin DOMAIN s => t[k] \notin ToSet(s),
           \A k, l \in DOMAIN t : k < l => old[k] < old[l]
    PROVE  KeepsOrder(s, t)
<1> SUFFICES ASSUME NEW i \in DOMAIN s, NEW j \in DOMAIN s, i < j,
                    NEW k \in DOMAIN t, NEW l \in DOMAIN t, t[k] = s[i], t[l] = s[j]
             PROVE  k < l
  BY DEF KeepsOrder
<1>1. s[i] \in ToSet(s) /\ s[j] \in ToSet(s)
  BY DEF ToSet
<1>2. old[k] = i /\ old[l] = j
  BY <1>1 DEF IsInjective
<1>3. k \in Nat /\ l \in Nat /\ i \in Nat /\ j \in Nat
  OBVIOUS
<1>4. l < k => j < i
  BY <1>2
<1>5. l # k
  BY <1>2, <1>3
<1> QED BY <1>3, <1>4, <1>5

LEMMA AppendOrder ==
    ASSUME NEW S, NEW s \in Seq(S), IsInjective(s), NEW x \in S, x \notin ToSet(s)
    PROVE  KeepsOrder(s, Append(s, x))
<1> DEFINE t == Append(s, x)
           old == [k \in DOMAIN t |-> k]
<1>1. /\ Len(s) \in Nat /\ DOMAIN s = 1 .. Len(s) /\ DOMAIN t = 1 .. Len(s) + 1
      /\ \A i \in 1 .. Len(s) : t[i] = s[i]
      /\ t[Len(s) + 1] = x
  OBVIOUS
<1> HIDE DEF t
<1>2. DOMAIN s \subseteq Nat /\ DOMAIN t \subseteq Nat /\ old \in [DOMAIN t -> Nat]
  BY <1>1
<1>3. /\ \A k \in DOMAIN t : old[k] \in DOMAIN s => t[k] = s[old[k]]
      /\ \A k \in DOMAIN t : old[k] \notin DOMAIN s => t[k] \notin ToSet(s)
      /\ \A k, l \in DOMAIN t : k < l => old[k] < old[l]
  BY <1>1
<1> HIDE DEF old
<1>4. KeepsOrder(s, t)
  BY <1>2, <1>3, OrderByPlaces
<1> QED BY <1>4 DEF t

LEMMA TailOrder ==
    ASSUME NEW S, NEW s \in Seq(S), IsInjective(s), s # <<>>
    PROVE  KeepsOrder(s, Tail(s))
<1> DEFINE t == Tail(s)
           old == [k \in DOMAIN t |-> k + 1]
<1>1. /\ Len(s) \in Nat \ {0} /\ DOMAIN s = 1 .. Len(s) /\ DOMAIN t = 1 .. Len(s) - 1
      /\ \A i \in 1 .. Len(s) - 1 : t[i] = s[i + 1]
  OBVIOUS
<1> HIDE DEF t
<1>2. DOMAIN s \subseteq Nat /\ DOMAIN t \subseteq Nat /\ old \in [DOMAIN t -> Nat]
  BY <1>1
<1>3. /\ \A k \in DOMAIN t : old[k] \in DOMAIN s /\ t[k] = s[old[k]]
      /\ \A k, l \in DOMAIN t : k < l => old[k] < old[l]
  BY <1>1
<1> HIDE DEF old
<1>4. KeepsOrder(s, t)
  BY <1>2, <1>3, OrderByPlaces
<1> QED BY <1>4 DEF t

LEMMA RemoveFirstOrder ==
    ASSUME NEW S, NEW s \in Seq(S), IsInjective(s), NEW x
    PROVE  KeepsOrder(s, RemoveFirst(s, x))
<1>1. CASE RemoveFirst(s, x) = s
  <2>1. DOMAIN s = 1 .. Len(s) /\ Len(s) \in Nat
    OBVIOUS
  <2> QED BY <1>1, <2>1 DEF KeepsOrder, IsInjective
<1>2. ASSUME NEW i \in 1 .. Len(s) PROVE KeepsOrder(s, RemoveAt(s, i))
  <2> DEFINE t == RemoveAt(s, i)
             old == [k \in DOMAIN t |-> IF k < i THEN k ELSE k + 1]
  <2>1. /\ Len(s) \in Nat \ {0} /\ DOMAIN s = 1 .. Len(s) /\ DOMAIN t = 1 .. Len(s) - 1
        /\ \A j \in 1 .. Len(s) - 1 : t[j] = IF j < i THEN s[j] ELSE s[j + 1]
    BY RemoveAtElements
  <2> HIDE DEF t
  <2>2. DOMAIN s \subseteq Nat /\ DOMAIN t \subseteq Nat /\ old \in [DOMAIN t -> Nat]
    BY <2>1
  <2>3. /\ \A k \in DOMAIN t : old[k] \in DOMAIN s /\ t[k] = s[old[k]]
        /\ \A k, l \in DOMAIN t : k < l => old[k] < old[l]
    BY <2>1
  <2> HIDE DEF old
  <2>4. KeepsOrder(s, t)
    BY <2>2, <2>3, OrderByPlaces
  <2> QED BY <2>4 DEF t
<1> QED BY <1>1, <1>2, RemoveFirstIs

-----------------------------------------------------------------------------
(* Induction over the natural numbers, and the loops defined by it.        *)

\* The order of the numbers as a relation.
LEMMA LessIsRel == \A x, y \in Nat : <<x, y>> \in OpToRel(<, Nat) <=> x < y
  BY DEF OpToRel

LEMMA LessAsRelation == \E R : IsWellFoundedOn(R, Nat) /\ \A x, y \in Nat : <<x, y>> \in R <=> x < y
BY LessIsRel, NatLessThanWellFounded, Zenon

\* A set of numbers has a least one.  This stands in for induction over a predicate: the
\* numbers at which a fact fails are a set.
LEMMA LeastNatural ==
  ASSUME NEW T \in SUBSET Nat, T # {}
  PROVE  \E m \in T : \A k \in T : m <= k
<1>1. PICK R : IsWellFoundedOn(R, Nat) /\ \A x, y \in Nat : <<x, y>> \in R <=> x < y
  BY LessAsRelation
<1>2. T \subseteq Nat
  OBVIOUS
<1>6. IsWellFoundedOn(R, Nat)
  BY <1>1
<1>3. \E m \in T : \A k \in T : ~(<<k, m>> \in R)
  <2>1. \A S : IsWellFoundedOn(R, S) /\ T \subseteq S /\ T # {} => \E x \in T : \A y \in T : ~ (<<y, x>> \in R)
    BY WFMin, Zenon
  <2> QED BY <1>6, <1>2, <2>1, Zenon
<1>4. PICK m \in T : \A k \in T : ~(<<k, m>> \in R)
  BY <1>3
<1>5. ASSUME NEW k \in T PROVE m <= k
  <2>1. m \in Nat /\ k \in Nat
    BY <1>2
  <2>2. ~(k < m)
    BY <1>1, <1>4, <2>1, Zenon
  <2> QED BY <2>1, <2>2
<1> QED BY <1>5

\* A set of numbers with zero and the successors of its elements has them all.
LEMMA Induction ==
  ASSUME NEW T \in SUBSET Nat, 0 \in T, \A n \in T : n + 1 \in T
  PROVE  T = Nat
<1> SUFFICES ASSUME T # Nat PROVE FALSE
  OBVIOUS
<1>1. PICK m \in Nat \ T : \A k \in Nat \ T : m <= k
  BY LeastNatural
<1>2. m - 1 \in Nat /\ m - 1 \in T
  BY <1>1
<1> QED BY <1>1, <1>2

\* f gathers what the steps 1 to n make of base.
Iterates(f, n, base, step) == f[0] = base /\ \A i \in 1 .. n : f[i] = step[i][f[i - 1]]

\* What a recursive function is defined by has a solution.
LEMMA Recursion ==
  ASSUME NEW V, NEW base \in V, NEW step \in [Nat -> [V -> V]]
  PROVE  \A n \in Nat : \E f \in [0 .. n -> V] : Iterates(f, n, base, step)
<1> DEFINE T == {n \in Nat : \E f \in [0 .. n -> V] : Iterates(f, n, base, step)}
<1>1. 0 \in T
  <2> DEFINE f == [i \in 0 .. 0 |-> base]
  <2>1. f \in [0 .. 0 -> V] /\ Iterates(f, 0, base, step)
    BY DEF Iterates
  <2> QED BY <2>1
<1>2. ASSUME NEW n \in T PROVE n + 1 \in T
  <2>1. n \in Nat
    OBVIOUS
  <2>2. PICK f \in [0 .. n -> V] : Iterates(f, n, base, step)
    OBVIOUS
  <2> DEFINE g == [i \in 0 .. (n + 1) |-> IF i = n + 1 THEN step[n + 1][f[n]] ELSE f[i]]
  <2>3. g \in [0 .. (n + 1) -> V]
    BY <2>1
  <2>4. g[0] = base
    BY <2>1, <2>2 DEF Iterates
  <2>5. ASSUME NEW i \in 1 .. (n + 1) PROVE g[i] = step[i][g[i - 1]]
    <3>1. CASE i = n + 1
      BY <2>1, <3>1
    <3>2. CASE i \in 1 .. n
      BY <2>1, <2>2, <3>2 DEF Iterates
    <3> QED BY <2>1, <3>1, <3>2
  <2>6. Iterates(g, n + 1, base, step)
    BY <2>4, <2>5 DEF Iterates
  <2> HIDE DEF g
  <2>7. \E h \in [0 .. (n + 1) -> V] : Iterates(h, n + 1, base, step)
    BY <2>3, <2>6
  <2> QED BY <2>1, <2>7
<1>3. T = Nat
  <2> HIDE DEF T
  <2>1. T \in SUBSET Nat
    BY DEF T
  <2> QED BY <1>1, <1>2, <2>1, Induction
<1> QED BY <1>3

\* What every step of a loop keeps holds at its end.
LEMMA LoopType ==
  ASSUME NEW V, NEW n \in Nat, NEW g, g[0] \in V,
         \A i \in 1 .. n : g[i - 1] \in V => g[i] \in V
  PROVE  \A i \in 0 .. n : g[i] \in V
<1> DEFINE T == {i \in Nat : i <= n => g[i] \in V}
<1>1. 0 \in T
  OBVIOUS
<1>2. ASSUME NEW i \in T PROVE i + 1 \in T
  <2>1. i \in Nat /\ (i <= n => g[i] \in V)
    OBVIOUS
  <2>2. ASSUME i + 1 <= n PROVE g[i + 1] \in V
    <3>1. i + 1 \in 1 .. n /\ (i + 1) - 1 = i
      BY <2>1, <2>2
    <3> QED BY <2>1, <2>2, <3>1
  <2> QED BY <2>1, <2>2
<1>3. T = Nat
  <2>1. T \in SUBSET Nat
    OBVIOUS
  <2> HIDE DEF T
  <2> QED BY <1>1, <1>2, <2>1, Induction
<1> QED BY <1>3

\* Two loops that start alike and take the same turns end alike.
LEMMA LoopsAgree ==
  ASSUME NEW n \in Nat, NEW f, NEW g, f[0] = g[0],
         \A i \in 1 .. n : f[i - 1] = g[i - 1] => f[i] = g[i]
  PROVE  \A i \in 0 .. n : f[i] = g[i]
<1> DEFINE T == {i \in Nat : i <= n => f[i] = g[i]}
<1>1. 0 \in T
  OBVIOUS
<1>2. ASSUME NEW i \in T PROVE i + 1 \in T
  <2>1. i \in Nat /\ (i <= n => f[i] = g[i])
    OBVIOUS
  <2>2. ASSUME i + 1 <= n PROVE f[i + 1] = g[i + 1]
    <3>1. i + 1 \in 1 .. n /\ (i + 1) - 1 = i /\ i <= n
      BY <2>1, <2>2
    <3> QED BY <2>1, <3>1
  <2> QED BY <2>1, <2>2
<1>3. T \in SUBSET Nat
  OBVIOUS
<1> HIDE DEF T
<1>4. T = Nat
  BY <1>1, <1>2, <1>3, Induction
<1> QED BY <1>4 DEF T

\* The same for their ends.
SameTurns(n, f, g) == f[0] = g[0] /\ \A i \in 1 .. n : f[i - 1] = g[i - 1] => f[i] = g[i]

LEMMA LoopsEnd ==
  ASSUME NEW n \in Nat, NEW f, NEW g, SameTurns(n, f, g)
  PROVE  f[n] = g[n]
<1>1. \A i \in 0 .. n : f[i] = g[i]
  <2>1. f[0] = g[0] /\ \A i \in 1 .. n : f[i - 1] = g[i - 1] => f[i] = g[i]
    BY DEF SameTurns
  <2> QED BY <2>1, LoopsAgree
<1>2. n \in 0 .. n
  OBVIOUS
<1> QED BY <1>1, <1>2

-----------------------------------------------------------------------------
(* What is kept of a list.                                                 *)

LEMMA KeepType ==
  ASSUME NEW A, NEW S, NEW v \in Seq(A), NEW x \in A
  PROVE  Keep(v, x, S) \in Seq(A)
BY DEF Keep

LEMMA AmongLoop ==
  ASSUME NEW A, NEW list \in Seq(A), NEW S
  PROVE  \E f : f = [i \in 0 .. Len(list) |-> IF i = 0 THEN <<>> ELSE Keep(f[i - 1], list[i], S)]
<1> DEFINE V == Seq(A)
           n == Len(list)
           base == <<>>
           step == [i \in Nat |-> [v \in V |-> IF i \in 1 .. n THEN Keep(v, list[i], S) ELSE v]]
<1>1. step \in [Nat -> [V -> V]]
  BY KeepType
<1>2. n \in Nat /\ base \in V
  OBVIOUS
<1>3. \A i \in 1 .. n, v \in V : step[i][v] = Keep(v, list[i], S)
  OBVIOUS
<1> HIDE DEF V, step, n, base
<1>4. PICK f \in [0 .. n -> V] : Iterates(f, n, base, step)
  BY <1>1, <1>2, Recursion
<1>5. \A i \in 1 .. n : f[i] = Keep(f[i - 1], list[i], S)
  BY <1>2, <1>3, <1>4 DEF Iterates
<1>6. f = [i \in 0 .. n |-> IF i = 0 THEN base ELSE Keep(f[i - 1], list[i], S)]
  BY <1>2, <1>4, <1>5 DEF Iterates
<1> QED BY <1>6 DEF n, base

\* What is kept of a list is a list of what is kept.
LEMMA AmongType ==
  ASSUME NEW A, NEW list \in Seq(A), NEW S
  PROVE  Among(list, S) \in Seq(A \cap S)
<1> DEFINE g == CHOOSE f : f = [i \in 0 .. Len(list) |-> IF i = 0 THEN <<>> ELSE Keep(f[i - 1], list[i], S)]
<1>1. g = [i \in 0 .. Len(list) |-> IF i = 0 THEN <<>> ELSE Keep(g[i - 1], list[i], S)]
  BY AmongLoop, Zenon
<1>2. Among(list, S) = g[Len(list)]
  BY DEF Among
<1> HIDE DEF g
<1>3. Len(list) \in Nat
  OBVIOUS
<1>4. g[0] \in Seq(A \cap S)
  BY <1>1, <1>3
<1>5. ASSUME NEW i \in 1 .. Len(list), g[i - 1] \in Seq(A \cap S) PROVE g[i] \in Seq(A \cap S)
  <2>1. g[i] = Keep(g[i - 1], list[i], S)
    BY <1>1, <1>3
  <2> QED BY <1>5, <2>1 DEF Keep
<1>6. \A i \in 0 .. Len(list) : g[i] \in Seq(A \cap S)
  BY <1>3, <1>4, <1>5, LoopType
<1> QED BY <1>2, <1>3, <1>6

\* A longer list: one turn more.
LEMMA AmongAppend ==
  ASSUME NEW A, NEW list \in Seq(A), NEW x \in A, NEW S
  PROVE  Among(Append(list, x), S) = Keep(Among(list, S), x, S)
<1> DEFINE long == Append(list, x)
           n == Len(list)
           f == CHOOSE h : h = [i \in 0 .. Len(list) |-> IF i = 0 THEN <<>> ELSE Keep(h[i - 1], list[i], S)]
           g == CHOOSE h : h = [i \in 0 .. Len(long) |-> IF i = 0 THEN <<>> ELSE Keep(h[i - 1], long[i], S)]
<1>1. f = [i \in 0 .. Len(list) |-> IF i = 0 THEN <<>> ELSE Keep(f[i - 1], list[i], S)]
  BY AmongLoop, Zenon
<1>2. Among(list, S) = f[Len(list)]
  BY DEF Among
<1>3. /\ long \in Seq(A) /\ n \in Nat /\ Len(long) = n + 1 /\ long[n + 1] = x
      /\ \A i \in 1 .. n : long[i] = list[i]
  OBVIOUS
<1> HIDE DEF f, long
<1>4. g = [i \in 0 .. Len(long) |-> IF i = 0 THEN <<>> ELSE Keep(g[i - 1], long[i], S)]
  BY <1>3, AmongLoop, Zenon
<1>5. Among(long, S) = g[Len(long)]
  BY DEF Among
<1> HIDE DEF g
<1>6. f[0] = g[0]
  BY <1>1, <1>3, <1>4
<1>7. \A i \in 1 .. n : f[i - 1] = g[i - 1] => f[i] = g[i]
  <2> SUFFICES ASSUME NEW i \in 1 .. n, f[i - 1] = g[i - 1] PROVE f[i] = g[i]
    OBVIOUS
  <2>1. f[i] = Keep(f[i - 1], list[i], S)
    BY <1>1, <1>3
  <2>2. g[i] = Keep(g[i - 1], long[i], S)
    BY <1>3, <1>4
  <2> QED BY <1>3, <2>1, <2>2
<1>8. f[n] = g[n]
  <2>0. n \in Nat
    BY <1>3
  <2>1. SameTurns(n, f, g)
    BY <1>6, <1>7 DEF SameTurns
  <2> QED BY <2>0, <2>1, LoopsEnd
<1>9. g[n + 1] = Keep(g[n], long[n + 1], S)
  BY <1>3, <1>4
<1> QED BY <1>2, <1>3, <1>5, <1>8, <1>9 DEF long

LEMMA AmongNothing ==
  ASSUME NEW S
  PROVE  Among(<<>>, S) = <<>>
<1> DEFINE A == {<<>>}
           f == CHOOSE h : h = [i \in 0 .. Len(<<>>) |-> IF i = 0 THEN <<>> ELSE Keep(h[i - 1], <<>>[i], S)]
<1>1. <<>> \in Seq(A) /\ Len(<<>>) = 0
  OBVIOUS
<1>2. f = [i \in 0 .. Len(<<>>) |-> IF i = 0 THEN <<>> ELSE Keep(f[i - 1], <<>>[i], S)]
  <2>1. \A l \in Seq(A) : \E h : h = [i \in 0 .. Len(l) |-> IF i = 0 THEN <<>> ELSE Keep(h[i - 1], l[i], S)]
    BY AmongLoop
  <2>2. \E h : h = [i \in 0 .. Len(<<>>) |-> IF i = 0 THEN <<>> ELSE Keep(h[i - 1], <<>>[i], S)]
    BY <1>1, <2>1
  <2> QED BY <2>2, Zenon
<1>3. Among(<<>>, S) = f[Len(<<>>)]
  BY DEF Among
<1> HIDE DEF f
<1> QED BY <1>1, <1>2, <1>3

LEMMA LastTurn ==
  ASSUME NEW A, NEW t \in Seq(A), NEW n \in Nat, Len(t) = n + 1
  PROVE  \E u \in Seq(A), x \in A : t = Append(u, x) /\ Len(u) = n
<1> DEFINE u == [i \in 1 .. n |-> t[i]]
<1>1. u \in Seq(A) /\ Len(u) = n /\ t[n + 1] \in A
  OBVIOUS
<1>2. t = Append(u, t[n + 1])
  OBVIOUS
<1> HIDE DEF u
<1> QED BY <1>1, <1>2

LEMMA AppendLater ==
  ASSUME NEW A, NEW s \in Seq(A), NEW u \in Seq(A), NEW x \in A
  PROVE  s \o Append(u, x) = Append(s \o u, x)
OBVIOUS

LEMMA AmongConcat ==
  ASSUME NEW A, NEW s \in Seq(A), NEW S
  PROVE  \A t \in Seq(A) : Among(s \o t, S) = Among(s, S) \o Among(t, S)
<1> DEFINE T == {n \in Nat : \A t \in Seq(A) : Len(t) = n => Among(s \o t, S) = Among(s, S) \o Among(t, S)}
<1>0. \A t \in Seq(A) : Among(t, S) \in Seq(A \cap S)
  BY AmongType
<1>1. 0 \in T
  <2> SUFFICES ASSUME NEW t \in Seq(A), Len(t) = 0 PROVE Among(s \o t, S) = Among(s, S) \o Among(t, S)
    OBVIOUS
  <2>1. t = <<>> /\ s \o t = s
    OBVIOUS
  <2>2. Among(s, S) \o <<>> = Among(s, S)
    BY <1>0
  <2> QED BY <2>1, <2>2, AmongNothing
<1>2. ASSUME NEW n \in T PROVE n + 1 \in T
  <2> SUFFICES ASSUME NEW t \in Seq(A), Len(t) = n + 1
               PROVE  Among(s \o t, S) = Among(s, S) \o Among(t, S)
    OBVIOUS
  <2>1. PICK u \in Seq(A), x \in A : t = Append(u, x) /\ Len(u) = n
    BY LastTurn
  <2>2. Among(s \o u, S) = Among(s, S) \o Among(u, S)
    BY <2>1
  <2>3. s \o t = Append(s \o u, x) /\ s \o u \in Seq(A)
    BY <2>1, AppendLater
  <2>4. Among(s \o t, S) = Keep(Among(s, S) \o Among(u, S), x, S)
    <3>1. \A l \in Seq(A) : Among(Append(l, x), S) = Keep(Among(l, S), x, S)
      BY AmongAppend
    <3>2. Among(s \o t, S) = Keep(Among(s \o u, S), x, S)
      BY <2>3, <3>1
    <3> QED BY <2>2, <3>2
  <2>5. Among(t, S) = Keep(Among(u, S), x, S)
    BY <2>1, AmongAppend
  <2>6. \A k \in Seq(A \cap S) : Keep(Among(s, S) \o k, x, S) = Among(s, S) \o Keep(k, x, S)
    <3>1. Among(s, S) \in Seq(A \cap S)
      BY <1>0
    <3>2. ASSUME NEW k \in Seq(A \cap S) PROVE Keep(Among(s, S) \o k, x, S) = Among(s, S) \o Keep(k, x, S)
      <4>1. CASE x \in S
        <5>1. x \in A \cap S
          BY <4>1
        <5>2. Among(s, S) \o Append(k, x) = Append(Among(s, S) \o k, x)
          BY <3>1, <5>1, AppendLater
        <5> QED BY <4>1, <5>2 DEF Keep
      <4>2. CASE x \notin S
        BY <4>2 DEF Keep
      <4> QED BY <4>1, <4>2
    <3> QED BY <3>2
  <2> QED BY <1>0, <2>1, <2>4, <2>5, <2>6
<1>3. T \in SUBSET Nat
  OBVIOUS
<1> HIDE DEF T
<1>4. T = Nat
  BY <1>1, <1>2, <1>3, Induction
<1> SUFFICES ASSUME NEW t \in Seq(A) PROVE Among(s \o t, S) = Among(s, S) \o Among(t, S)
  OBVIOUS
<1>5. Len(t) \in Nat
  OBVIOUS
<1> QED BY <1>4, <1>5 DEF T

-----------------------------------------------------------------------------
(* Lists, one behind the other.                                            *)

LEMMA JoinedLoop ==
  ASSUME NEW S, NEW lists \in Seq(Seq(S))
  PROVE  \E f : f = [i \in 0 .. Len(lists) |-> IF i = 0 THEN <<>> ELSE Behind(f[i - 1], lists[i])]
<1> DEFINE V == Seq(S)
           n == Len(lists)
           base == <<>>
           step == [i \in Nat |-> [v \in V |-> IF i \in 1 .. n THEN Behind(v, lists[i]) ELSE v]]
<1>1. step \in [Nat -> [V -> V]]
  <2>1. \A i \in 1 .. n, v \in V : Behind(v, lists[i]) \in V
    BY DEF Behind
  <2> HIDE DEF V, n
  <2> QED BY <2>1
<1>2. n \in Nat /\ base \in V
  OBVIOUS
<1>3. \A i \in 1 .. n, v \in V : step[i][v] = Behind(v, lists[i])
  OBVIOUS
<1> HIDE DEF V, step, n, base
<1>4. PICK f \in [0 .. n -> V] : Iterates(f, n, base, step)
  BY <1>1, <1>2, Recursion
<1>5. \A i \in 1 .. n : f[i] = Behind(f[i - 1], lists[i])
  BY <1>2, <1>3, <1>4 DEF Iterates
<1>6. f = [i \in 0 .. n |-> IF i = 0 THEN base ELSE Behind(f[i - 1], lists[i])]
  BY <1>2, <1>4, <1>5 DEF Iterates
<1> QED BY <1>6 DEF n, base

LEMMA JoinedType ==
  ASSUME NEW S, NEW lists \in Seq(Seq(S))
  PROVE  Joined(lists) \in Seq(S)
<1> DEFINE g == CHOOSE f : f = [i \in 0 .. Len(lists) |-> IF i = 0 THEN <<>> ELSE Behind(f[i - 1], lists[i])]
<1>1. g = [i \in 0 .. Len(lists) |-> IF i = 0 THEN <<>> ELSE Behind(g[i - 1], lists[i])]
  BY JoinedLoop, Zenon
<1>2. Joined(lists) = g[Len(lists)]
  BY DEF Joined
<1> HIDE DEF g
<1>3. Len(lists) \in Nat /\ \A i \in 1 .. Len(lists) : lists[i] \in Seq(S)
  OBVIOUS
<1>4. g[0] \in Seq(S)
  BY <1>1, <1>3
<1>5. ASSUME NEW i \in 1 .. Len(lists), g[i - 1] \in Seq(S) PROVE g[i] \in Seq(S)
  <2>1. g[i] = Behind(g[i - 1], lists[i])
    BY <1>1, <1>3
  <2> QED BY <1>3, <1>5, <2>1 DEF Behind
<1>6. \A i \in 0 .. Len(lists) : g[i] \in Seq(S)
  BY <1>3, <1>4, <1>5, LoopType
<1> QED BY <1>2, <1>3, <1>6

LEMMA JoinedNothing == Joined(<<>>) = <<>>
<1> DEFINE f == CHOOSE h : h = [i \in 0 .. Len(<<>>) |-> IF i = 0 THEN <<>> ELSE Behind(h[i - 1], <<>>[i])]
<1>1. <<>> \in Seq(Seq({})) /\ Len(<<>>) = 0
  OBVIOUS
<1>2. f = [i \in 0 .. Len(<<>>) |-> IF i = 0 THEN <<>> ELSE Behind(f[i - 1], <<>>[i])]
  <2>1. \A l \in Seq(Seq({})) : \E h : h = [i \in 0 .. Len(l) |-> IF i = 0 THEN <<>> ELSE Behind(h[i - 1], l[i])]
    BY JoinedLoop
  <2>2. \E h : h = [i \in 0 .. Len(<<>>) |-> IF i = 0 THEN <<>> ELSE Behind(h[i - 1], <<>>[i])]
    BY <1>1, <2>1
  <2> QED BY <2>2, Zenon
<1>3. Joined(<<>>) = f[Len(<<>>)]
  BY DEF Joined
<1> HIDE DEF f
<1> QED BY <1>1, <1>2, <1>3

LEMMA JoinedAppend ==
  ASSUME NEW S, NEW lists \in Seq(Seq(S)), NEW x \in Seq(S)
  PROVE  Joined(Append(lists, x)) = Joined(lists) \o x
<1> DEFINE long == Append(lists, x)
           n == Len(lists)
           f == CHOOSE h : h = [i \in 0 .. Len(lists) |-> IF i = 0 THEN <<>> ELSE Behind(h[i - 1], lists[i])]
           g == CHOOSE h : h = [i \in 0 .. Len(long) |-> IF i = 0 THEN <<>> ELSE Behind(h[i - 1], long[i])]
<1>1. f = [i \in 0 .. Len(lists) |-> IF i = 0 THEN <<>> ELSE Behind(f[i - 1], lists[i])]
  BY JoinedLoop, Zenon
<1>2. Joined(lists) = f[Len(lists)]
  BY DEF Joined
<1>3. /\ long \in Seq(Seq(S)) /\ n \in Nat /\ Len(long) = n + 1 /\ long[n + 1] = x
      /\ \A i \in 1 .. n : long[i] = lists[i]
  OBVIOUS
<1>0. n = Len(lists)
  OBVIOUS
<1> HIDE DEF f, long, n
<1>4. g = [i \in 0 .. Len(long) |-> IF i = 0 THEN <<>> ELSE Behind(g[i - 1], long[i])]
  BY <1>3, JoinedLoop, Zenon
<1>5. Joined(long) = g[Len(long)]
  BY DEF Joined
<1> HIDE DEF g
<1>6. f[0] = g[0]
  BY <1>1, <1>3, <1>4
<1>7. \A i \in 1 .. n : f[i - 1] = g[i - 1] => f[i] = g[i]
  <2> SUFFICES ASSUME NEW i \in 1 .. n, f[i - 1] = g[i - 1] PROVE f[i] = g[i]
    OBVIOUS
  <2>1. f[i] = Behind(f[i - 1], lists[i])
    <3>1. i \in 0 .. Len(lists) /\ i # 0
      BY <1>0, <1>3
    <3> QED BY <1>1, <3>1, Zenon
  <2>2. g[i] = Behind(g[i - 1], long[i])
    BY <1>3, <1>4
  <2> QED BY <1>3, <2>1, <2>2
<1>8. f[n] = g[n]
  <2>0. n \in Nat
    BY <1>3
  <2>1. SameTurns(n, f, g)
    BY <1>6, <1>7 DEF SameTurns
  <2> QED BY <2>0, <2>1, LoopsEnd
<1>9. g[n + 1] = Behind(g[n], long[n + 1])
  BY <1>3, <1>4
<1> QED BY <1>0, <1>2, <1>3, <1>5, <1>8, <1>9 DEF long, Behind

LEMMA JoinedConcat ==
  ASSUME NEW S, NEW s \in Seq(Seq(S))
  PROVE  \A t \in Seq(Seq(S)) : Joined(s \o t) = Joined(s) \o Joined(t)
<1> DEFINE A == Seq(S)
           T == {n \in Nat : \A t \in Seq(A) : Len(t) = n => Joined(s \o t) = Joined(s) \o Joined(t)}
<1>0. \A t \in Seq(A) : Joined(t) \in Seq(S)
  BY JoinedType
<1>1. 0 \in T
  <2> SUFFICES ASSUME NEW t \in Seq(A), Len(t) = 0 PROVE Joined(s \o t) = Joined(s) \o Joined(t)
    OBVIOUS
  <2>1. t = <<>> /\ s \o t = s
    OBVIOUS
  <2>2. Joined(s) \o <<>> = Joined(s)
    BY <1>0
  <2> QED BY <2>1, <2>2, JoinedNothing
<1>2. ASSUME NEW n \in T PROVE n + 1 \in T
  <2> SUFFICES ASSUME NEW t \in Seq(A), Len(t) = n + 1
               PROVE  Joined(s \o t) = Joined(s) \o Joined(t)
    OBVIOUS
  <2> HIDE DEF A
  <2>1. PICK u \in Seq(A), x \in A : t = Append(u, x) /\ Len(u) = n
    BY LastTurn
  <2>2. Joined(s \o u) = Joined(s) \o Joined(u)
    BY <2>1
  <2>3. s \o t = Append(s \o u, x) /\ s \o u \in Seq(A)
    BY <2>1, AppendLater DEF A
  <2>4. Joined(s \o t) = (Joined(s) \o Joined(u)) \o x
    <3>1. s \o u \in Seq(Seq(S)) /\ x \in Seq(S)
      BY <2>3 DEF A
    <3>2. Joined(Append(s \o u, x)) = Joined(s \o u) \o x
      BY <3>1, JoinedAppend
    <3> QED BY <2>2, <2>3, <3>2, Zenon
  <2>5. Joined(t) = Joined(u) \o x
    BY <2>1, JoinedAppend DEF A
  <2>6. Joined(s) \in Seq(S) /\ Joined(u) \in Seq(S) /\ x \in Seq(S)
    BY <1>0 DEF A
  <2>7. (Joined(s) \o Joined(u)) \o x = Joined(s) \o (Joined(u) \o x)
    BY <2>6
  <2> QED BY <2>4, <2>5, <2>7
<1>3. T \in SUBSET Nat
  OBVIOUS
<1> HIDE DEF T
<1>4. T = Nat
  BY <1>1, <1>2, <1>3, Induction
<1> SUFFICES ASSUME NEW t \in Seq(A) PROVE Joined(s \o t) = Joined(s) \o Joined(t)
  OBVIOUS
<1>5. Len(t) \in Nat
  OBVIOUS
<1> QED BY <1>4, <1>5 DEF T

=============================================================================
