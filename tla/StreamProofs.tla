---------------------------- MODULE StreamProofs ----------------------------
(***************************************************************************)
(* Theorems about StreamLease and StreamPump for every value of their      *)
(* constants.                                                              *)
(*                                                                         *)
(* The leases.  SlotsAttended is not inductive: that a slot is attended    *)
(* after a call ends needs to know that the lease the call worked on is    *)
(* still in the table (LeaseUnderCall), and that a release gives back the  *)
(* slot it should needs OwnsNamed.                                         *)
(*                                                                         *)
(* The pump.  What a line says is any text, so the proof follows the loops *)
(* of the parser and of the pump by induction over their turns.  Once a    *)
(* line has stopped the answer NothingLost says no more; PumpInv does: the *)
(* results under way are those of the answer, one that stops, and perhaps  *)
(* others that the engine will not take (Cut).                             *)
(***************************************************************************)
EXTENDS StreamLease, StreamPump, SequenceLemmas, FiniteSetTheorems, TLAPS

-----------------------------------------------------------------------------
(* The leases (StreamLease).                                               *)

\* A RequestAuth names the account whose slot its stream has, or the stream has none; none
\* is taken before one is asked for.
OwnsNamed ==
    \A s \in Streams :
        /\ owns[s] \in {account[s], NoAccount}
        /\ call[s] = "prepare" \/ switch[s] = "begun" => owns[s] = NoAccount

\* The lease of a stream is entered when prepare ends; the later calls found it in the
\* table, and it is there still unless it was taken away under them.
LeaseUnderCall ==
    \A s \in Streams :
        /\ call[s] \in {"prepare", "prepared"} => s \notin Leased \cup popped
        /\ call[s] \in {"pow", "exchange"} => s \in Leased \cup overrun

\* A function that awaits nothing has no handler running for it, unless a call broke off;
\* one that has given its lease back is gone.
AwaitsItsCalls ==
    \A s \in Streams :
        /\ fn[s] \in {"running", "ending"} /\ call[s] # "none" => s \in broken
        /\ s \in returning => fn[s] = "none" /\ (call[s] # "none" => s \in broken)

\* All of it but the counting.
Slots ==
    /\ TypeOK /\ NoOrphanSlot /\ CallsEndFirst
    /\ OwnsNamed /\ LeaseUnderCall /\ AwaitsItsCalls /\ expired \subseteq late

IInv == Slots /\ NoPhantomSlot
-----------------------------------------------------------------------------
(* What the pool counts.                                                   *)

LEMMA OwnersFinite ==
    ASSUME NEW a PROVE IsFiniteSet(Owners(a)) /\ Cardinality(Owners(a)) \in Nat
<1>1. Owners(a) \subseteq Streams
  BY DEF Owners
<1> QED BY <1>1, LeaseAssumption, FS_Subset, FS_CardinalityType

\* A stream that has no slot takes one.
LEMMA AcquireCounts ==
    ASSUME IInv, NEW s \in Streams, NEW a \in Free(s), PoolAcquire(s, a),
           owns[s] = NoAccount
    PROVE  NoPhantomSlot'
<1>1. /\ a \in Accounts /\ inUse \in [Accounts -> Nat] /\ NoAccount \notin Accounts
      /\ owns \in [Streams -> Accounts \cup {NoAccount}]
      /\ inUse' = [inUse EXCEPT ![a] = @ + 1] /\ owns' = [owns EXCEPT ![s] = a]
  BY LeaseAssumption DEF Free, PoolAcquire, IInv, Slots, TypeOK
<1> SUFFICES ASSUME NEW b \in Accounts PROVE inUse'[b] <= Cardinality(Owners(b)')
  BY DEF NoPhantomSlot
<1>2. inUse[b] <= Cardinality(Owners(b))
  BY DEF IInv, NoPhantomSlot
<1>3. CASE b = a
  <2>1. Owners(b)' = Owners(b) \cup {s} /\ s \notin Owners(b)
    BY <1>1, <1>3 DEF Owners
  <2>2. Cardinality(Owners(b)') = Cardinality(Owners(b)) + 1
    BY <2>1, OwnersFinite, FS_AddElement
  <2> QED BY <1>1, <1>2, <1>3, <2>2, OwnersFinite
<1>4. CASE b # a
  <2>1. Owners(b)' = Owners(b)
    BY <1>1, <1>4 DEF Owners
  <2> QED BY <1>1, <1>2, <1>4, <2>1
<1> QED BY <1>3, <1>4

\* A stream gives back the slot of the account it names, whether it has it or not: the pool
\* does not count below zero.
LEMMA ReleaseCounts ==
    ASSUME IInv, NEW s \in Streams, account[s] \in Accounts, PoolRelease(s)
    PROVE  NoPhantomSlot'
<1>1. /\ inUse \in [Accounts -> Nat] /\ NoAccount \notin Accounts
      /\ owns \in [Streams -> Accounts \cup {NoAccount}] /\ owns[s] \in {account[s], NoAccount}
      /\ inUse' = [inUse EXCEPT ![account[s]] = IF @ = 0 THEN 0 ELSE @ - 1]
      /\ owns' = [owns EXCEPT ![s] = IF @ = account[s] THEN NoAccount ELSE @]
  BY LeaseAssumption DEF PoolRelease, IInv, Slots, TypeOK, OwnsNamed
<1> SUFFICES ASSUME NEW b \in Accounts PROVE inUse'[b] <= Cardinality(Owners(b)')
  BY DEF NoPhantomSlot
<1>2. inUse[b] <= Cardinality(Owners(b)) /\ inUse[b] \in Nat
  BY <1>1 DEF IInv, NoPhantomSlot
<1>3. CASE b = account[s]
  <2>1. Owners(b)' = Owners(b) \ {s}
    BY <1>1, <1>3 DEF Owners
  <2>2. Cardinality(Owners(b)') =
          IF s \in Owners(b) THEN Cardinality(Owners(b)) - 1 ELSE Cardinality(Owners(b))
    BY <2>1, OwnersFinite, FS_RemoveElement
  <2>3. s \in Owners(b) => Cardinality(Owners(b)) # 0
    BY OwnersFinite, FS_EmptySet
  <2> QED BY <1>1, <1>2, <1>3, <2>2, <2>3, OwnersFinite
<1>4. CASE b # account[s]
  <2>1. Owners(b)' = Owners(b)
    BY <1>1, <1>4 DEF Owners
  <2> QED BY <1>1, <1>2, <1>4, <2>1
<1> QED BY <1>3, <1>4

LEMMA CountsFrame ==
    ASSUME IInv, UNCHANGED <<inUse, owns>>
    PROVE  NoPhantomSlot'
BY DEF IInv, NoPhantomSlot, Owners
-----------------------------------------------------------------------------
(* The steps, one case per action.                                         *)

LEMMA InitInv == Init => IInv
<1> SUFFICES ASSUME Init PROVE IInv
  OBVIOUS
<1>1. Slots
  BY LeaseAssumption DEF Init, Slots, TypeOK, Leased, NoOrphanSlot, CallsEndFirst,
                         OwnsNamed, LeaseUnderCall, AwaitsItsCalls
<1>2. NoPhantomSlot
  BY OwnersFinite DEF Init, NoPhantomSlot
<1> QED BY <1>1, <1>2 DEF IInv


\* A call of prepare.
LEMMA PrepareSlots ==
    ASSUME IInv, NEW s \in Streams, Prepare(s)
    PROVE  Slots'
<1>0. Slots
  BY DEF IInv
<1> USE LeaseAssumption, <1>0
    DEF Slots, TypeOK, NoOrphanSlot, Attended, CallsEndFirst,
               OwnsNamed, LeaseUnderCall, AwaitsItsCalls, Leased, remote
<1>1. CASE Arrive(s)
  BY <1>1 DEF Arrive, PopExpired
<1>2. CASE Determine(s)
  BY <1>2 DEF Determine, PoolAcquire, Free
<1>3. CASE DetermineFails(s)
  BY <1>3 DEF DetermineFails, Reply
<1>4. CASE Hold(s)
  BY <1>4 DEF Hold, PopExpired, Reply
<1>5. CASE PrepareFails(s)
  BY <1>5 DEF PrepareFails, Reply, PoolRelease
<1> QED BY <1>1, <1>2, <1>3, <1>4, <1>5 DEF Prepare

\* The calls on a lease.
LEMMA UseSlots ==
    ASSUME IInv, NEW s \in Streams, Use(s)
    PROVE  Slots'
<1>0. Slots
  BY DEF IInv
<1> USE LeaseAssumption, <1>0
    DEF Slots, TypeOK, NoOrphanSlot, Attended, CallsEndFirst,
               OwnsNamed, LeaseUnderCall, AwaitsItsCalls, Leased, remote
<1>1. CASE CallPow(s)
  BY <1>1 DEF CallPow
<1>2. CASE CallSwitch(s)
  BY <1>2 DEF CallSwitch, PopExpired
<1>3. CASE EndSwitch(s)
  BY <1>3 DEF EndSwitch, UpdateLease, Reply
<1>4. CASE EndCall(s)
  BY <1>4 DEF EndCall, Reply
<1>5. CASE Broken(s)
  BY <1>5 DEF Broken
<1> QED BY <1>1, <1>2, <1>3, <1>4, <1>5 DEF Use

\* SwitchAccount.
LEMMA SwitchSlots ==
    ASSUME IInv, NEW s \in Streams, Switch(s)
    PROVE  Slots'
<1>0. Slots
  BY DEF IInv
<1> USE LeaseAssumption, <1>0
    DEF Slots, TypeOK, NoOrphanSlot, Attended, CallsEndFirst,
               OwnsNamed, LeaseUnderCall, AwaitsItsCalls, Leased, remote
<1>1. CASE SwitchBegin(s)
  BY <1>1 DEF SwitchBegin, PoolRelease
<1>2. CASE SwitchAcquire(s)
  BY <1>2 DEF SwitchAcquire, PoolAcquire, Free
<1>3. CASE SwitchFails(s)
  BY <1>3 DEF SwitchFails
<1>4. CASE Ensured(s)
  BY <1>4 DEF Ensured
<1>5. CASE EnsureFails(s)
  BY <1>5 DEF EnsureFails, PoolRelease
<1>6. CASE Report(s)
  BY <1>6 DEF Report
<1> QED BY <1>1, <1>2, <1>3, <1>4, <1>5, <1>6 DEF Switch

\* The end of a stream.
LEMMA FinishSlots ==
    ASSUME IInv, NEW s \in Streams, Finish(s)
    PROVE  Slots'
<1>0. Slots
  BY DEF IInv
<1> USE LeaseAssumption, <1>0
    DEF Slots, TypeOK, NoOrphanSlot, Attended, CallsEndFirst,
               OwnsNamed, LeaseUnderCall, AwaitsItsCalls, Leased, remote
<1>1. CASE CallRelease(s)
  BY <1>1 DEF CallRelease, Leaves
<1>2. CASE GiveBack(s)
  BY <1>2 DEF GiveBack, PopExpired
<1>3. CASE Lost(s)
  BY <1>3 DEF Lost
<1>4. CASE Vanish(s)
  BY <1>4 DEF Vanish
<1>5. CASE Expire(s)
  BY <1>5 DEF Expire
<1>6. CASE ReleasePopped(s)
  BY <1>6 DEF ReleasePopped, PoolRelease
<1> QED BY <1>1, <1>2, <1>3, <1>4, <1>5, <1>6 DEF Finish

\* Three actions release a slot and two take one; the others leave the pool alone.
LEMMA StepCounts ==
    ASSUME IInv, NEW s \in Streams, Prepare(s) \/ Use(s) \/ Switch(s) \/ Finish(s)
    PROVE  NoPhantomSlot'
<1>1. CASE Determine(s) \/ SwitchAcquire(s)
  <2>1. PICK a \in Free(s) : PoolAcquire(s, a)
    BY <1>1 DEF Determine, SwitchAcquire
  <2>2. owns[s] = NoAccount
    BY <1>1 DEF IInv, Slots, OwnsNamed, Determine, SwitchAcquire
  <2> QED BY <2>1, <2>2, AcquireCounts
<1>2. CASE PrepareFails(s) \/ SwitchBegin(s) \/ EnsureFails(s) \/ ReleasePopped(s)
  <2>1. PoolRelease(s)
    BY <1>2 DEF PrepareFails, SwitchBegin, EnsureFails, ReleasePopped
  <2>2. account[s] \in Accounts
    BY <1>2 DEF IInv, Slots, TypeOK, PrepareFails, SwitchBegin, EnsureFails, ReleasePopped
  <2> QED BY <2>1, <2>2, ReleaseCounts
<1>3. CASE \/ Arrive(s) \/ DetermineFails(s) \/ Hold(s) \/ Use(s)
           \/ SwitchFails(s) \/ Ensured(s)
           \/ CallRelease(s) \/ GiveBack(s) \/ Lost(s) \/ Vanish(s) \/ Expire(s)
  <2>1. UNCHANGED <<inUse, owns>>
    BY <1>3 DEF Arrive, DetermineFails, Hold, Use, CallPow, CallSwitch, EndSwitch, EndCall,
                Broken, SwitchFails, Ensured, CallRelease, GiveBack, Lost, Vanish, Expire
  <2> QED BY <2>1, CountsFrame
<1>4. CASE Report(s)
  <2>1. \A a \in Accounts : inUse'[a] = 0 /\ Owners(a)' = Owners(a)
    BY <1>4 DEF Report, Owners
  <2> QED BY <2>1, OwnersFinite DEF NoPhantomSlot
<1> QED BY <1>1, <1>2, <1>3, <1>4 DEF Prepare, Switch, Finish

\* A call that does nothing but sweep.
LEMMA SweepInv ==
    ASSUME IInv, Sweep
    PROVE  IInv'
<1>1. Slots'
  BY LeaseAssumption
  DEF IInv, Slots, TypeOK, NoOrphanSlot, Attended, CallsEndFirst, OwnsNamed, LeaseUnderCall,
      AwaitsItsCalls, Leased, remote, Sweep, PopExpired
<1>2. NoPhantomSlot'
  BY CountsFrame DEF Sweep
<1> QED BY <1>1, <1>2 DEF IInv

LEMMA StepInv == IInv /\ [Next]_vars => IInv'
<1> SUFFICES ASSUME IInv, [Next]_vars PROVE IInv'
  OBVIOUS
<1>1. ASSUME NEW s \in Streams, Prepare(s) \/ Use(s) \/ Switch(s) \/ Finish(s)
      PROVE  IInv'
  BY <1>1, PrepareSlots, UseSlots, SwitchSlots, FinishSlots, StepCounts DEF IInv
<1>2. CASE Sweep
  BY <1>2, SweepInv
<1>3. CASE UNCHANGED vars
  <2>1. Slots'
    BY <1>3 DEF IInv, Slots, TypeOK, NoOrphanSlot, Attended, CallsEndFirst, OwnsNamed,
                LeaseUnderCall, AwaitsItsCalls, Leased, vars
  <2> QED BY <1>3, <2>1, CountsFrame DEF IInv, vars
<1> QED BY <1>1, <1>2, <1>3 DEF Next

\* Leases move slots between three owners, the handler, the table and whoever sweeps it,
\* but as long as no call is overrun none is lost, and the pool counts none that nobody took.
THEOREM LeasesAreAttended == Spec => []SlotsAttended
<1>1. IInv => SlotsAttended
  BY DEF IInv, Slots, SlotsAttended
<1> QED BY <1>1, InitInv, StepInv, PTL DEF Spec

\* The Node function's side of it: only expiry, and calls that broke off, take a lease away
\* under a call.
THEOREM CallsEndBeforeLease == Spec => []CallsEndFirst
<1>1. IInv => CallsEndFirst
  BY DEF IInv, Slots
<1> QED BY <1>1, InitInv, StepInv, PTL DEF Spec

\* Only the end of prepare enters a lease; a handler that ends after its lease was taken away
\* does not put it back.
THEOREM LeasesStayAway == Spec => NoResurrection
<1>1. ASSUME IInv, [Next]_vars
      PROVE  [\A s \in Streams :
                session[s] = NoAccount /\ session'[s] # NoAccount => call[s] = "prepared"]_vars
  <2> SUFFICES ASSUME NEW s \in Streams, session[s] = NoAccount, session'[s] # NoAccount
               PROVE  call[s] = "prepared"
    OBVIOUS
  <2>1. session \in [Streams -> Accounts \cup {NoAccount}]
    BY <1>1 DEF IInv, Slots, TypeOK
  <2>2. PICK q \in Streams : Prepare(q) \/ Use(q) \/ Switch(q) \/ Finish(q)
    BY <1>1, <2>1 DEF Next, Sweep, PopExpired, vars
  <2>3. Hold(q) /\ q = s
    BY <2>1, <2>2 DEF Prepare, Arrive, Determine, DetermineFails, Hold, PrepareFails,
       Use, CallPow, CallSwitch, EndSwitch, EndCall, Broken,
       Switch, Report, SwitchBegin, SwitchAcquire, SwitchFails, Ensured, EnsureFails,
       Finish, CallRelease, GiveBack, Lost, Vanish, Expire, ReleasePopped,
       PopExpired, UpdateLease
  <2> QED BY <2>3 DEF Hold
<1> QED BY <1>1, InitInv, StepInv, PTL DEF Spec, NoResurrection

-----------------------------------------------------------------------------
(* Parsing a line: what the parts, the contributions and the results are.  *)

Types == {"text", "thinking"}
Parts == [text : Texts, type : Types]

LEMMA PartOfType ==
  ASSUME NEW t \in Texts, NEW ty \in Types
  PROVE  Part(t, ty) \in Seq(Parts)
<1>1. [text |-> t, type |-> ty] \in Parts
  BY DEF Parts
<1>2. \A x \in Parts : <<x>> \in Seq(Parts)
  OBVIOUS
<1>3. <<>> \in Seq(Parts)
  OBVIOUS
<1> QED BY <1>1, <1>2, <1>3 DEF Part

LEMMA FragOfType ==
  ASSUME NEW type, NEW d \in Types
  PROVE  FragType(type, d) \in Types
BY DEF FragType, Types

LEMMA AfterType ==
  ASSUME NEW fs, NEW cur \in Types
  PROVE  TypeAfter(fs, cur) \in Types
BY FragOfType DEF TypeAfter

LEMMA FragPartsType ==
  ASSUME NEW V, NEW fs \in Seq(Pieces(V)), NEW d \in Types
  PROVE  FragParts(fs, d) \in Seq(Parts)
<1> DEFINE l == [i \in DOMAIN fs |-> Part(fs[i].content, FragType(fs[i].type, d))]
<1>1. \A i \in DOMAIN fs : fs[i].content \in Texts
  <2>1. \A i \in DOMAIN fs : fs[i] \in Pieces(V)
    OBVIOUS
  <2>2. \A f \in Pieces(V) : f.content \in Texts
    BY DEF Pieces
  <2> QED BY <2>1, <2>2
<1>2. \A i \in DOMAIN fs : Part(fs[i].content, FragType(fs[i].type, d)) \in Seq(Parts)
  BY <1>1, FragOfType, PartOfType
<1>3. l \in Seq(Seq(Parts))
  <2> DEFINE P(i) == Part(fs[i].content, FragType(fs[i].type, d))
  <2>1. DOMAIN fs = 1 .. Len(fs) /\ Len(fs) \in Nat
    OBVIOUS
  <2>2. \A i \in 1 .. Len(fs) : P(i) \in Seq(Parts)
    BY <1>2, <2>1
  <2> HIDE DEF P
  <2>3. [i \in 1 .. Len(fs) |-> P(i)] \in Seq(Seq(Parts))
    BY <2>1, <2>2
  <2> QED BY <2>1, <2>3 DEF P
<1> QED BY <1>3, JoinedType DEF FragParts

LEMMA FirstAtType ==
  ASSUME NEW t \in Texts, NEW x
  PROVE  FirstAt(t, x) \in 0 .. Len(t)
<1> DEFINE I == {i \in 1 .. Len(t) : t[i] = x}
<1>1. FirstAt(t, x) = IF I # {} THEN Min(I) ELSE 0
  BY DEF FirstAt, SelectInSeq
<1>2. Len(t) \in Nat
  BY DEF Texts
<1>3. ASSUME I # {} PROVE Min(I) \in I
  <2>1. I \in SUBSET Nat
    OBVIOUS
  <2> HIDE DEF I
  <2>2. \E m \in I : \A k \in I : m <= k
    BY <1>3, <2>1, LeastNatural
  <2> QED BY <2>2 DEF Min
<1> QED BY <1>1, <1>2, <1>3

LEMMA StripType ==
  ASSUME NEW t \in Texts
  PROVE  StripTags(t) \in Texts
<1>1. Among(t, STRING \ Tags) \in Seq(STRING \cap (STRING \ Tags))
  BY AmongType DEF Texts
<1> QED BY <1>1 DEF StripTags, Texts

\* The parts split so far are parts.
Splits == [over : BOOLEAN, out : Seq(Parts)]

LEMMA SplitPartType ==
  ASSUME NEW s \in Splits, NEW part \in Parts
  PROVE  SplitPart(s, part) \in Splits
<1> DEFINE at == FirstAt(part.text, "</think>")
           before == SubSeq(part.text, 1, at - 1)
           after == SubSeq(part.text, at + 1, Len(part.text))
<1>1. part.text \in Texts /\ part.type \in Types
  BY DEF Parts
<1>2. at \in 0 .. Len(part.text)
  BY <1>1, FirstAtType
<1>3. before \in Texts /\ after \in Texts
  BY <1>1, <1>2 DEF Texts
<1> HIDE DEF before, after, at
<1>4. Part(StripTags(part.text), "text") \in Seq(Parts)
  BY <1>1, StripType, PartOfType DEF Types
<1>5. Part(before, "thinking") \in Seq(Parts) /\ Part(StripTags(after), "text") \in Seq(Parts)
  BY <1>3, StripType, PartOfType DEF Types
<1>6. s.over \in BOOLEAN /\ s.out \in Seq(Parts)
  BY DEF Splits
<1>7. CASE part.type # "thinking" \/ s.over
  <2>1. SplitPart(s, part) = [s EXCEPT !.out = s.out \o Part(StripTags(part.text), "text")]
    BY <1>7 DEF SplitPart
  <2>2. s.out \o Part(StripTags(part.text), "text") \in Seq(Parts)
    BY <1>4, <1>6
  <2> QED BY <1>6, <2>1, <2>2 DEF Splits
<1>8. CASE ~(part.type # "thinking" \/ s.over) /\ at = 0
  <2>1. SplitPart(s, part) = [s EXCEPT !.out = Append(s.out, part)]
    BY <1>8 DEF SplitPart, at
  <2> QED BY <1>6, <2>1, SMTT(30) DEF Splits
<1>9. CASE ~(part.type # "thinking" \/ s.over) /\ at # 0
  <2>1. SplitPart(s, part) = [over |-> TRUE, out |-> s.out \o Part(before, "thinking") \o Part(StripTags(after), "text")]
    BY <1>9 DEF SplitPart, at, before, after
  <2>2. (s.out \o Part(before, "thinking")) \o Part(StripTags(after), "text") \in Seq(Parts)
    BY <1>5, <1>6
  <2> QED BY <2>1, <2>2 DEF Splits
<1> QED BY <1>7, <1>8, <1>9

LEMMA SplitLoop ==
  ASSUME NEW parts \in Seq(Parts)
  PROVE  \E f : f = [i \in 0 .. Len(parts) |->
                      IF i = 0 THEN [over |-> FALSE, out |-> <<>>] ELSE SplitPart(f[i - 1], parts[i])]
<1> DEFINE V == Splits
           n == Len(parts)
           base == [over |-> FALSE, out |-> <<>>]
           step == [i \in Nat |-> [v \in V |-> IF i \in 1 .. n THEN SplitPart(v, parts[i]) ELSE v]]
<1>1. step \in [Nat -> [V -> V]]
  BY SplitPartType
<1>2. n \in Nat /\ base \in V
  BY DEF Splits
<1>3. \A i \in 1 .. n, v \in V : step[i][v] = SplitPart(v, parts[i])
  OBVIOUS
<1> HIDE DEF V, step, n, base
<1>4. PICK f \in [0 .. n -> V] : Iterates(f, n, base, step)
  BY <1>1, <1>2, Recursion
<1>5. \A i \in 1 .. n : f[i] = SplitPart(f[i - 1], parts[i])
  BY <1>2, <1>3, <1>4 DEF Iterates
<1>6. f = [i \in 0 .. n |-> IF i = 0 THEN base ELSE SplitPart(f[i - 1], parts[i])]
  BY <1>2, <1>4, <1>5 DEF Iterates
<1> QED BY <1>6 DEF n, base

LEMMA SplitType ==
  ASSUME NEW parts \in Seq(Parts)
  PROVE  SplitThinkingParts(parts) \in Splits
<1> DEFINE base == [over |-> FALSE, out |-> <<>>]
           g == CHOOSE f : f = [i \in 0 .. Len(parts) |->
                      IF i = 0 THEN [over |-> FALSE, out |-> <<>>] ELSE SplitPart(f[i - 1], parts[i])]
<1>1. g = [i \in 0 .. Len(parts) |-> IF i = 0 THEN base ELSE SplitPart(g[i - 1], parts[i])]
  BY SplitLoop, Zenon
<1>2. SplitThinkingParts(parts) = g[Len(parts)]
  BY DEF SplitThinkingParts
<1>3. base \in Splits
  BY DEF Splits
<1> HIDE DEF g, base
<1>4. Len(parts) \in Nat /\ \A i \in 1 .. Len(parts) : parts[i] \in Parts
  OBVIOUS
<1>5. g[0] \in Splits
  BY <1>1, <1>3, <1>4
<1>6. ASSUME NEW i \in 1 .. Len(parts), g[i - 1] \in Splits PROVE g[i] \in Splits
  <2>1. g[i] = SplitPart(g[i - 1], parts[i])
    BY <1>1, <1>4
  <2> QED BY <1>4, <1>6, <2>1, SplitPartType
<1>7. \A i \in 0 .. Len(parts) : g[i] \in Splits
  BY <1>4, <1>5, <1>6, LoopType
<1> QED BY <1>2, <1>4, <1>7

LEMMA LeakType ==
  ASSUME NEW part \in Parts
  PROVE  WithoutLeak(part) \in Seq(Parts)
<1> DEFINE at == FirstAt(part.text, "CONTENT_FILTER")
           before == SubSeq(part.text, 1, at - 1)
<1>1. part.text \in Texts /\ part.type \in Types
  BY DEF Parts
<1>2. at \in 0 .. Len(part.text)
  BY <1>1, FirstAtType
<1>3. before \in Texts
  BY <1>1, <1>2 DEF Texts
<1>4. WithoutLeak(part) = IF at = 0 THEN <<part>> ELSE Part(before, part.type)
  BY DEF WithoutLeak
<1> HIDE DEF at, before
<1> QED BY <1>1, <1>3, <1>4, PartOfType

LEMMA FilterType ==
  ASSUME NEW parts \in Seq(Parts)
  PROVE  FilterLeaked(parts) \in Seq(Parts)
<1>1. DOMAIN parts = 1 .. Len(parts) /\ Len(parts) \in Nat
  OBVIOUS
<1>2. \A i \in 1 .. Len(parts) : WithoutLeak(parts[i]) \in Seq(Parts)
  BY LeakType
<1>3. [i \in 1 .. Len(parts) |-> WithoutLeak(parts[i])] \in Seq(Seq(Parts))
  BY <1>1, <1>2
<1> QED BY <1>1, <1>3, JoinedType DEF FilterLeaked

LEMMA ItemTyped ==
  ASSUME NEW p, NEW d \in Types
  PROVE  ItemType(p, d) \in Types
BY DEF ItemType, Types

LEMMA ResolvedType ==
  ASSUME NEW p, NEW e, NEW cur \in Types
  PROVE  ResolvePartType(p, e, cur) \in Types /\ UpdateTypeFromExplicitPath(p, e, cur) \in Types
BY DEF ResolvePartType, UpdateTypeFromExplicitPath, Types

LEMMA ItemPartsType ==
  ASSUME NEW it \in Pieces(ItemValues), NEW d \in Types
  PROVE  ItemParts(it, d) \in Seq(Parts)
<1>1. it.content \in Texts /\ it.v \in ItemValues
  BY DEF Pieces
<1>2. it.v.k = "list" => it.v.items \in Seq(Pieces({NoValue}))
  BY <1>1 DEF ItemValues, SimpleValues, NoValue, Fragments
<1>3. it.v.k = "str" => it.v.t \in Texts
  BY <1>1 DEF ItemValues, SimpleValues, NoValue
<1>4. <<>> \in Seq(Parts)
  OBVIOUS
<1>5. FragType(it.type, d) \in Types /\ ItemType(it.p, d) \in Types
  BY FragOfType, ItemTyped
<1>6. Part(it.content, FragType(it.type, d)) \in Seq(Parts)
  BY <1>1, <1>5, PartOfType
<1>7. it.v.k = "list" => FragParts(it.v.items, ItemType(it.p, d)) \in Seq(Parts)
  BY <1>2, <1>5, FragPartsType
<1>8. it.v.k = "str" => Part(it.v.t, ItemType(it.p, d)) \in Seq(Parts)
  BY <1>3, <1>5, PartOfType
<1> QED BY <1>4, <1>6, <1>7, <1>8 DEF ItemParts

LEMMA ItemsType ==
  ASSUME NEW items \in Seq(Pieces(ItemValues)), NEW d \in Types
  PROVE  Joined([i \in DOMAIN items |-> ItemParts(items[i], d)]) \in Seq(Parts)
<1>1. DOMAIN items = 1 .. Len(items) /\ Len(items) \in Nat
  OBVIOUS
<1>2. \A i \in 1 .. Len(items) : ItemParts(items[i], d) \in Seq(Parts)
  BY ItemPartsType
<1>3. [i \in 1 .. Len(items) |-> ItemParts(items[i], d)] \in Seq(Seq(Parts))
  BY <1>1, <1>2
<1> QED BY <1>1, <1>3, JoinedType

\* What a value may be, by its kind.
LEMMA ValueKinds ==
  ASSUME NEW v \in Values
  PROVE  /\ v.k = "str" => v.t \in Texts
         /\ v.k = "list" => v.items \in Seq(Pieces(ItemValues))
         /\ v.k = "obj" => v.t \in Texts /\ v.frags \in Seq(Pieces({NoValue}))
         /\ v.k \in {"none", "str", "list", "obj"}
BY DEF Values, SimpleValues, NoValue, Fragments

\* The contribution of one chunk.
Contributions == [parts : Seq(Parts), detect : Seq(Parts), finished : BOOLEAN, next : Types]
Shown(e, ch) == /\ ch.finished => ch.parts = <<>> /\ ch.detect = <<>>
                /\ ~e => \A i \in DOMAIN ch.parts : ~IsThinking(ch.parts[i])

LEMMA NothingType ==
  ASSUME NEW cur \in Types, NEW e
  PROVE  /\ Nothing(cur) \in Contributions /\ Shown(e, Nothing(cur))
         /\ \A b \in BOOLEAN : /\ [Nothing(cur) EXCEPT !.finished = b] \in Contributions
                              /\ Shown(e, [Nothing(cur) EXCEPT !.finished = b])
<1>1. <<>> \in Seq(Parts) /\ DOMAIN <<>> = {}
  OBVIOUS
<1> QED BY <1>1 DEF Nothing, Contributions, Shown

LEMMA DroppedType ==
  ASSUME NEW parts \in Seq(Parts), NEW e
  PROVE  /\ DropThinkingParts(parts, e) \in Seq(Parts)
         /\ ~e => \A i \in DOMAIN DropThinkingParts(parts, e) : ~IsThinking(DropThinkingParts(parts, e)[i])
<1>1. CASE e
  BY <1>1 DEF DropThinkingParts
<1>2. CASE ~e
  <2> DEFINE S == ToSet(parts) \ Thinking(parts)
             l == Among(parts, S)
  <2>1. l \in Seq(Parts \cap S)
    BY AmongType
  <2>2. \A x \in S : ~IsThinking(x)
    BY DEF Thinking
  <2>3. DropThinkingParts(parts, e) = l
    BY <1>2 DEF DropThinkingParts
  <2> HIDE DEF l, S
  <2>4. \A i \in DOMAIN l : l[i] \in S
    BY <2>1
  <2>5. l \in Seq(Parts)
    BY <2>1
  <2> QED BY <2>2, <2>3, <2>4, <2>5
<1> QED BY <1>1, <1>2

LEMMA DetectedType ==
  ASSUME NEW parts \in Seq(Parts)
  PROVE  Among(parts, Thinking(parts)) \in Seq(Parts)
<1>1. Among(parts, Thinking(parts)) \in Seq(Parts \cap Thinking(parts))
  BY AmongType
<1> QED BY <1>1

LEMMA ChunkType ==
  ASSUME NEW c \in LineType, NEW e \in BOOLEAN, NEW cur \in Types
  PROVE  ParseChunk(c, e, cur) \in Contributions /\ Shown(e, ParseChunk(c, e, cur))
<1> DEFINE typed    == TypeAfter(Nested(c), TypeAfter(Direct(c), UpdateTypeFromExplicitPath(c.p, e, cur)))
           default  == ResolvePartType(c.p, e, typed)
           wrapped  == IF c.v.k = "obj" /\ ~(c.v.t # <<>> /\ c.p \in ContentPaths) THEN c.v.frags ELSE <<>>
           value    == CASE c.v.k = "str"  -> Part(c.v.t, default)
                    [] c.v.k = "list" -> Joined([i \in DOMAIN c.v.items |-> ItemParts(c.v.items[i], default)])
                    [] c.v.k = "obj" /\ wrapped = <<>> /\ c.p \in ContentPaths -> Part(c.v.t, default)
                    [] OTHER -> FragParts(wrapped, default)
           finished == \/ c.v = Str(Finished) /\ c.p \in StatusPaths \union {""}
                       \/ c.v.k = "list" /\ ListFinished(c.v.items)
           split    == SplitThinkingParts(FragParts(Direct(c), "text") \o value)
           parts    == FilterLeaked(split.out)
           next     == IF split.over THEN "text" ELSE TypeAfter(wrapped, typed)
           full     == [parts |-> DropThinkingParts(parts, e), detect |-> Among(parts, Thinking(parts)),
                        finished |-> FALSE, next |-> next]
<1>1. ParseChunk(c, e, cur) =
        IF c.v.k = "none" \/ c.p \in SkipPaths THEN Nothing(cur)
        ELSE IF c.p \in StatusPaths /\ c.v.k = "str" THEN [Nothing(cur) EXCEPT !.finished = finished]
        ELSE IF finished THEN [Nothing(TypeAfter(wrapped, typed)) EXCEPT !.finished = TRUE]
        ELSE full
  BY DEF ParseChunk
<1>2. typed \in Types /\ default \in Types
  BY ResolvedType, AfterType
<1>3. c.v \in Values
  BY DEF LineType
<1>4. wrapped \in Seq(Pieces({NoValue}))
  <2>1. c.v.k = "obj" => c.v.frags \in Seq(Pieces({NoValue}))
    BY <1>3, ValueKinds
  <2>2. <<>> \in Seq(Pieces({NoValue}))
    OBVIOUS
  <2> QED BY <2>1, <2>2
<1>5. finished \in BOOLEAN
  OBVIOUS
<1> HIDE DEF typed, default, finished
<1>6. value \in Seq(Parts)
  <2>1. FragParts(wrapped, default) \in Seq(Parts)
    BY <1>2, <1>4, FragPartsType
  <2> HIDE DEF wrapped
  <2>2. c.v.k \in {"str", "obj"} => Part(c.v.t, default) \in Seq(Parts)
    BY <1>2, <1>3, ValueKinds, PartOfType
  <2>3. c.v.k = "list" => Joined([i \in DOMAIN c.v.items |-> ItemParts(c.v.items[i], default)]) \in Seq(Parts)
    BY <1>2, <1>3, ValueKinds, ItemsType
  <2> DEFINE list == Joined([i \in DOMAIN c.v.items |-> ItemParts(c.v.items[i], default)])
             simple == Part(c.v.t, default)
             frags == FragParts(wrapped, default)
  <2>4. value = CASE c.v.k = "str"  -> simple [] c.v.k = "list" -> list
                  [] c.v.k = "obj" /\ wrapped = <<>> /\ c.p \in ContentPaths -> simple
                  [] OTHER -> frags
    OBVIOUS
  <2> HIDE DEF value, list, simple, frags
  <2>5. c.v.k \in {"str", "obj"} => simple \in Seq(Parts)
    BY <2>2 DEF simple
  <2>6. c.v.k = "list" => list \in Seq(Parts)
    BY <2>3 DEF list
  <2>7. frags \in Seq(Parts)
    BY <2>1 DEF frags
  <2> QED BY <2>4, <2>5, <2>6, <2>7
<1>7. FragParts(Direct(c), "text") \in Seq(Parts)
  <2>1. Direct(c) \in Seq(Pieces(ItemValues))
    BY <1>3, ValueKinds DEF Direct
  <2> QED BY <2>1, FragPartsType DEF Types
<1> HIDE DEF value, wrapped
<1>8. split \in Splits
  <2>1. FragParts(Direct(c), "text") \o value \in Seq(Parts)
    BY <1>6, <1>7
  <2> QED BY <2>1, SplitType
<1> HIDE DEF split
<1>9. parts \in Seq(Parts)
  BY <1>8, FilterType DEF Splits
<1>10. next \in Types
  BY <1>2, <1>8, AfterType DEF Splits, Types
<1> HIDE DEF parts, next
<1>11. full \in Contributions /\ Shown(e, full)
  <2>1. /\ DropThinkingParts(parts, e) \in Seq(Parts)
        /\ ~e => \A i \in DOMAIN DropThinkingParts(parts, e) : ~IsThinking(DropThinkingParts(parts, e)[i])
    BY <1>9, DroppedType
  <2>2. Among(parts, Thinking(parts)) \in Seq(Parts)
    BY <1>9, DetectedType
  <2> QED BY <1>10, <2>1, <2>2 DEF Contributions, Shown
<1>12. TypeAfter(wrapped, typed) \in Types
  BY <1>2, AfterType
<1> DEFINE last == TypeAfter(wrapped, typed)
<1> HIDE DEF full, last
<1>13. [Nothing(last) EXCEPT !.finished = TRUE] \in Contributions /\ Shown(e, [Nothing(last) EXCEPT !.finished = TRUE])
  BY <1>12, NothingType DEF last
<1>14. /\ Nothing(cur) \in Contributions /\ Shown(e, Nothing(cur))
       /\ [Nothing(cur) EXCEPT !.finished = finished] \in Contributions
       /\ Shown(e, [Nothing(cur) EXCEPT !.finished = finished])
  BY <1>5, NothingType
<1> QED BY <1>1, <1>11, <1>13, <1>14 DEF last

\* The results of lines, and of the pump.
Endings == {"", "error", "filter", "hint"}
Results == [parsed : BOOLEAN, stop : BOOLEAN, bad : Endings, parts : Seq(Parts), detect : Seq(Parts),
            next : Types, id : Nat]
\* One that stops says nothing else, nor does a line without meaning; and what is not to be
\* shown is not.
Proper(e, r) ==
  /\ r \in Results
  /\ r.stop => r.parts = <<>> /\ r.detect = <<>>
  /\ ~e => \A i \in DOMAIN r.parts : ~IsThinking(r.parts[i])

LEMMA LineMeaning ==
  ASSUME NEW c \in LineType, NEW e \in BOOLEAN, NEW cur \in Types
  PROVE  LET r == ParseLine(c, e, cur)
         IN  Proper(e, r) /\ (~r.parsed => r.parts = <<>> /\ r.detect = <<>> /\ ~r.stop)
<1> DEFINE ch == ParseChunk(c, e, cur)
           none == Nothing(cur)
<1>1. ch \in Contributions /\ Shown(e, ch)
  BY ChunkType
<1>2. none \in Contributions /\ Shown(e, none) /\ none.parts = <<>> /\ none.detect = <<>>
  BY NothingType DEF Nothing
<1>3. ParseLine(c, e, cur) = CASE c.kind = "blank" -> Result(FALSE, FALSE, "", none, 0)
    [] c.kind = "done" -> Result(TRUE, TRUE, "", none, 0)
    [] c.kind \in {"error", "filter", "hint"} -> Result(TRUE, TRUE, c.kind, none, 0)
    [] OTHER -> Result(TRUE, ch.finished, "", ch, c.id)
  BY DEF ParseLine
<1>4. c.id \in Nat
  BY DEF LineType
<1> HIDE DEF ch, none
<1>5. ASSUME NEW p \in BOOLEAN, NEW stop \in BOOLEAN, NEW bad \in Endings, NEW id \in Nat,
             NEW d \in Contributions, Shown(e, d), stop => d.parts = <<>> /\ d.detect = <<>>
      PROVE  /\ Proper(e, Result(p, stop, bad, d, id))
             /\ Result(p, stop, bad, d, id).parsed = p /\ Result(p, stop, bad, d, id).stop = stop
             /\ Result(p, stop, bad, d, id).parts = d.parts /\ Result(p, stop, bad, d, id).detect = d.detect
  BY <1>5 DEF Result, Results, Proper, Contributions, Shown
<1> DEFINE G(r) == Proper(e, r) /\ (~r.parsed => r.parts = <<>> /\ r.detect = <<>> /\ ~r.stop)
<1>6. /\ G(Result(FALSE, FALSE, "", none, 0)) /\ G(Result(TRUE, TRUE, "", none, 0))
      /\ c.kind \in {"error", "filter", "hint"} => G(Result(TRUE, TRUE, c.kind, none, 0))
  <2>1. "" \in Endings /\ (c.kind \in {"error", "filter", "hint"} => c.kind \in Endings)
    BY DEF Endings
  <2>2. Proper(e, Result(FALSE, FALSE, "", none, 0)) /\ Proper(e, Result(TRUE, TRUE, "", none, 0))
    BY <1>2, <1>5, <2>1
  <2>3. c.kind \in {"error", "filter", "hint"} => Proper(e, Result(TRUE, TRUE, c.kind, none, 0))
    BY <1>2, <1>5, <2>1
  <2>4. /\ Result(TRUE, TRUE, "", none, 0).parsed /\ Result(TRUE, TRUE, c.kind, none, 0).parsed
        /\ Result(FALSE, FALSE, "", none, 0).parts = <<>> /\ Result(FALSE, FALSE, "", none, 0).detect = <<>>
        /\ ~Result(FALSE, FALSE, "", none, 0).stop
    BY <1>2 DEF Result
  <2> QED BY <2>2, <2>3, <2>4
<1>7. G(Result(TRUE, ch.finished, "", ch, c.id))
  <2>1. "" \in Endings /\ ch.finished \in BOOLEAN /\ (ch.finished => ch.parts = <<>> /\ ch.detect = <<>>)
    BY <1>1 DEF Contributions, Shown, Endings
  <2> QED BY <1>1, <1>4, <1>5, <2>1
<1> HIDE DEF G
<1>8. G(ParseLine(c, e, cur))
  BY <1>3, <1>6, <1>7
<1> QED BY <1>8 DEF G

LEMMA MeaningType ==
  ASSUME NEW l \in Lines, NEW e \in BOOLEAN, NEW cur \in Types
  PROVE  /\ Proper(e, Meaning[e][cur][l])
         /\ ~Meaning[e][cur][l].parsed =>
              Meaning[e][cur][l].parts = <<>> /\ Meaning[e][cur][l].detect = <<>> /\ ~Meaning[e][cur][l].stop
<1>1. Meaning[e][cur][l] = ParseLine(l, e, cur)
  BY DEF Meaning, Types
<1>2. l \in LineType
  BY PumpAssumption
<1> QED BY <1>1, <1>2, LineMeaning

-----------------------------------------------------------------------------
(* The reader's view of parts, results and buffers.                        *)

\* Where the elements of a concatenation are.
LEMMA ConcatAt ==
  ASSUME NEW S, NEW x \in Seq(S), NEW y \in Seq(S)
  PROVE  /\ x \o y \in Seq(S) /\ Len(x) \in Nat /\ Len(y) \in Nat /\ Len(x \o y) = Len(x) + Len(y)
         /\ \A i \in 1 .. Len(x) : (x \o y)[i] = x[i]
         /\ \A i \in 1 .. Len(y) : (x \o y)[Len(x) + i] = y[i]
OBVIOUS

Aligned(x, y, z) ==
  /\ Len(z) = Len(x) + Len(y)
  /\ \A i \in 1 .. Len(x) : z[i] = x[i]
  /\ \A i \in 1 .. Len(y) : z[Len(x) + i] = y[i]

LEMMA ConcatIs ==
  ASSUME NEW S, NEW x \in Seq(S), NEW y \in Seq(S), NEW z \in Seq(S), Aligned(x, y, z)
  PROVE  z = x \o y
<1> DEFINE w == x \o y
<1> USE DEF Aligned
<1>1. /\ w \in Seq(S) /\ Len(x) \in Nat /\ Len(y) \in Nat /\ Len(w) = Len(x) + Len(y)
      /\ \A i \in 1 .. Len(x) : w[i] = x[i]
      /\ \A i \in 1 .. Len(y) : w[Len(x) + i] = y[i]
  BY ConcatAt
<1> HIDE DEF w
<1>2. ASSUME NEW i \in 1 .. Len(z) PROVE z[i] = w[i]
  <2>1. CASE i \in 1 .. Len(x)
    BY <1>1, <2>1
  <2>2. CASE i \notin 1 .. Len(x)
    <3> DEFINE k == i - Len(x)
    <3>1. k \in 1 .. Len(y) /\ i = Len(x) + k
      BY <1>1, <2>2
    <3> HIDE DEF k
    <3> QED BY <1>1, <3>1
  <2> QED BY <2>1, <2>2
<1>3. z = w
  BY <1>1, <1>2
<1> QED BY <1>3 DEF w

Words == Types \X STRING
Tag(t, ty) == [j \in DOMAIN t |-> <<ty, t[j]>>]

LEMMA TagFacts ==
  ASSUME NEW ty \in Types
  PROVE  /\ \A t \in Texts : Tag(t, ty) \in Seq(Words)
         /\ \A t, u \in Texts : Tag(t \o u, ty) = Tag(t, ty) \o Tag(u, ty)
         /\ Tag(<<>>, ty) = <<>>
<1>1. ASSUME NEW t \in Texts PROVE Tag(t, ty) \in Seq(Words)
  <2>1. t \in Seq(STRING) /\ DOMAIN t = 1 .. Len(t) /\ Len(t) \in Nat
    BY DEF Texts
  <2>2. \A j \in 1 .. Len(t) : <<ty, t[j]>> \in Words
    BY <2>1 DEF Words
  <2>3. [j \in 1 .. Len(t) |-> <<ty, t[j]>>] \in Seq(Words)
    BY <2>1, <2>2
  <2> QED BY <2>1, <2>3 DEF Tag
<1>2. ASSUME NEW t \in Texts, NEW u \in Texts PROVE Tag(t \o u, ty) = Tag(t, ty) \o Tag(u, ty)
  <2> DEFINE a == Tag(t, ty)
             b == Tag(u, ty)
             c == Tag(t \o u, ty)
  <2>1. /\ t \in Seq(STRING) /\ u \in Seq(STRING) /\ t \o u \in Texts
        /\ Len(t \o u) = Len(t) + Len(u) /\ Len(t) \in Nat /\ Len(u) \in Nat
    BY DEF Texts
  <2>2. a \in Seq(Words) /\ b \in Seq(Words) /\ c \in Seq(Words)
    BY <1>1, <2>1
  <2>3. Len(a) = Len(t) /\ Len(b) = Len(u) /\ Len(c) = Len(t) + Len(u)
    BY <2>1, <2>2 DEF Tag
  <2>4. /\ \A j \in 1 .. Len(t) : a[j] = <<ty, t[j]>>
        /\ \A j \in 1 .. Len(u) : b[j] = <<ty, u[j]>>
        /\ \A j \in 1 .. (Len(t) + Len(u)) : c[j] = <<ty, (t \o u)[j]>>
    BY <2>1 DEF Tag
  <2>8. /\ \A j \in 1 .. Len(t) : (t \o u)[j] = t[j]
        /\ \A j \in 1 .. Len(u) : (t \o u)[Len(t) + j] = u[j]
    BY <2>1, ConcatAt
  <2> DEFINE w == t \o u
  <2> HIDE DEF a, b, c, w
  <2>5. \A j \in 1 .. Len(a) : c[j] = a[j]
    <3>1. \A j \in 1 .. Len(t) : j \in 1 .. (Len(t) + Len(u))
      BY <2>1
    <3> QED BY <2>3, <2>4, <2>8, <3>1 DEF w
  <2>6. \A j \in 1 .. Len(b) : c[Len(a) + j] = b[j]
    <3> SUFFICES ASSUME NEW j \in 1 .. Len(u) PROVE c[Len(t) + j] = b[j]
      BY <2>3
    <3>1. Len(t) + j \in 1 .. (Len(t) + Len(u))
      BY <2>1
    <3>2. c[Len(t) + j] = <<ty, w[Len(t) + j]>>
      BY <2>4, <3>1 DEF w
    <3>3. w[Len(t) + j] = u[j]
      BY <2>8 DEF w
    <3> QED BY <2>4, <3>2, <3>3
  <2>7. c = a \o b
    <3>1. Aligned(a, b, c)
      BY <2>3, <2>5, <2>6 DEF Aligned
    <3> QED BY <2>2, <3>1, ConcatIs
  <2> QED BY <2>7 DEF a, b, c
<1>3. Tag(<<>>, ty) = <<>>
  BY DEF Tag
<1> QED BY <1>1, <1>2, <1>3

LEMMA TaggedType ==
  ASSUME NEW p \in Parts
  PROVE  Tagged(p) \in Seq(Words) /\ Tagged(p) = Tag(p.text, p.type)
<1>1. p.text \in Texts /\ p.type \in Types
  BY DEF Parts
<1>2. Tagged(p) = Tag(p.text, p.type)
  BY DEF Tagged, Tag
<1> QED BY <1>1, <1>2, TagFacts

\* What a list says whose elements say what h tells.
Told(a, h) == [i \in DOMAIN a |-> h[a[i]]]

LEMMA ToldFacts ==
  ASSUME NEW A, NEW S, NEW h \in [A -> Seq(S)]
  PROVE  /\ \A a \in Seq(A) : Joined(Told(a, h)) \in Seq(S)
         /\ \A a, b \in Seq(A) : Joined(Told(a \o b, h)) = Joined(Told(a, h)) \o Joined(Told(b, h))
         /\ \A p \in A : Joined(Told(<<p>>, h)) = h[p]
         /\ Joined(Told(<<>>, h)) = <<>>
<1>1. ASSUME NEW a \in Seq(A) PROVE Told(a, h) \in Seq(Seq(S)) /\ Len(Told(a, h)) = Len(a)
  <2>1. DOMAIN a = 1 .. Len(a) /\ Len(a) \in Nat
    OBVIOUS
  <2>2. \A i \in 1 .. Len(a) : h[a[i]] \in Seq(S)
    OBVIOUS
  <2>3. [i \in 1 .. Len(a) |-> h[a[i]]] \in Seq(Seq(S)) /\ Len([i \in 1 .. Len(a) |-> h[a[i]]]) = Len(a)
    BY <2>1, <2>2
  <2> QED BY <2>1, <2>3 DEF Told
<1>2. ASSUME NEW a \in Seq(A), NEW b \in Seq(A) PROVE Told(a \o b, h) = Told(a, h) \o Told(b, h)
  <2> DEFINE x == Told(a, h)
             y == Told(b, h)
             z == Told(a \o b, h)
  <2>1. Len(a) \in Nat /\ Len(b) \in Nat /\ a \o b \in Seq(A) /\ Len(a \o b) = Len(a) + Len(b)
    OBVIOUS
  <2>2. /\ x \in Seq(Seq(S)) /\ Len(x) = Len(a) /\ y \in Seq(Seq(S)) /\ Len(y) = Len(b)
        /\ z \in Seq(Seq(S)) /\ Len(z) = Len(a) + Len(b)
    BY <1>1, <2>1
  <2>3. /\ \A j \in 1 .. Len(a) : x[j] = h[a[j]]
        /\ \A j \in 1 .. Len(b) : y[j] = h[b[j]]
        /\ \A j \in 1 .. (Len(a) + Len(b)) : z[j] = h[(a \o b)[j]]
    BY <2>1 DEF Told
  <2>4. /\ \A j \in 1 .. Len(a) : (a \o b)[j] = a[j]
        /\ \A j \in 1 .. Len(b) : (a \o b)[Len(a) + j] = b[j]
    BY ConcatAt
  <2> HIDE DEF x, y, z
  <2>5. \A j \in 1 .. Len(x) : z[j] = x[j]
    <3>1. \A j \in 1 .. Len(a) : j \in 1 .. (Len(a) + Len(b))
      BY <2>1
    <3> QED BY <2>2, <2>3, <2>4, <3>1
  <2>6. \A j \in 1 .. Len(y) : z[Len(x) + j] = y[j]
    <3> SUFFICES ASSUME NEW j \in 1 .. Len(b) PROVE z[Len(a) + j] = y[j]
      BY <2>2
    <3>1. Len(a) + j \in 1 .. (Len(a) + Len(b))
      BY <2>1
    <3>2. z[Len(a) + j] = h[(a \o b)[Len(a) + j]]
      BY <2>3, <3>1
    <3> QED BY <2>3, <2>4, <3>2
  <2>7. z = x \o y
    <3> DEFINE V == Seq(S)
    <3>1. x \in Seq(V) /\ y \in Seq(V) /\ z \in Seq(V) /\ Len(z) = Len(x) + Len(y)
      BY <2>2
    <3> HIDE DEF V
    <3>2. Aligned(x, y, z)
      BY <2>5, <2>6, <3>1 DEF Aligned
    <3> QED BY <3>1, <3>2, ConcatIs
  <2> QED BY <2>7 DEF x, y, z
<1>3. ASSUME NEW a \in Seq(A), NEW b \in Seq(A)
      PROVE  Joined(Told(a \o b, h)) = Joined(Told(a, h)) \o Joined(Told(b, h))
  <2>1. \A t \in Seq(Seq(S)) : Joined(Told(a, h) \o t) = Joined(Told(a, h)) \o Joined(t)
    BY <1>1, JoinedConcat
  <2> QED BY <1>1, <1>2, <2>1
<1>4. Joined(Told(<<>>, h)) = <<>>
  <2>1. Told(<<>>, h) = <<>>
    BY DEF Told
  <2> QED BY <2>1, JoinedNothing
<1>5. ASSUME NEW p \in A PROVE Joined(Told(<<p>>, h)) = h[p]
  <2>1. <<p>> \in Seq(A) /\ <<>> \in Seq(Seq(S)) /\ h[p] \in Seq(S)
    OBVIOUS
  <2>2. Told(<<p>>, h) = Append(<<>>, h[p])
    BY DEF Told
  <2>3. Joined(Append(<<>>, h[p])) = Joined(<<>>) \o h[p]
    BY <2>1, JoinedAppend
  <2>4. <<>> \o h[p] = h[p]
    BY <2>1
  <2> QED BY <2>2, <2>3, <2>4, JoinedNothing
<1> QED BY <1>1, <1>3, <1>4, <1>5, JoinedType

\* What the parts say.
LEMMA FlatFacts ==
  /\ \A a \in Seq(Parts) : Flat(a) \in Seq(Words)
  /\ \A a, b \in Seq(Parts) : Flat(a \o b) = Flat(a) \o Flat(b)
  /\ \A p \in Parts : Flat(<<p>>) = Tagged(p)
  /\ Flat(<<>>) = <<>>
<1> DEFINE h == [p \in Parts |-> Tagged(p)]
<1>1. h \in [Parts -> Seq(Words)]
  BY TaggedType
<1>2. ASSUME NEW a \in Seq(Parts) PROVE Flat(a) = Joined(Told(a, h))
  <2>1. \A i \in DOMAIN a : h[a[i]] = Tagged(a[i])
    OBVIOUS
  <2>2. Told(a, h) = [i \in DOMAIN a |-> Tagged(a[i])]
    BY <2>1 DEF Told
  <2> QED BY <2>2 DEF Flat
<1>3. \A a, b \in Seq(Parts) : a \o b \in Seq(Parts)
  OBVIOUS
<1>4. \A p \in Parts : <<p>> \in Seq(Parts) /\ h[p] = Tagged(p)
  OBVIOUS
<1>5. <<>> \in Seq(Parts)
  OBVIOUS
<1> HIDE DEF h
<1>6. /\ \A a \in Seq(Parts) : Joined(Told(a, h)) \in Seq(Words)
      /\ \A a, b \in Seq(Parts) : Joined(Told(a \o b, h)) = Joined(Told(a, h)) \o Joined(Told(b, h))
      /\ \A p \in Parts : Joined(Told(<<p>>, h)) = h[p]
      /\ Joined(Told(<<>>, h)) = <<>>
  BY <1>1, ToldFacts
<1> QED BY <1>2, <1>3, <1>4, <1>5, <1>6

\* The text of parts, in which calls are looked for.
LEMMA DetectFacts ==
  /\ \A r \in Results : DetectText(r) \in Texts
  /\ \A r \in Results : r.detect = <<>> => DetectText(r) = <<>>
  /\ \A r \in Results, t \in Texts : r.detect = Part(t, "thinking") => DetectText(r) = t
<1> DEFINE h == [p \in Parts |-> p.text]
<1>1. h \in [Parts -> Seq(STRING)]
  BY DEF Parts, Texts
<1>2. ASSUME NEW r \in Results PROVE DetectText(r) = Joined(Told(r.detect, h))
  <2>0. r.detect \in Seq(Parts)
    BY DEF Results
  <2>1. \A i \in DOMAIN r.detect : h[r.detect[i]] = r.detect[i].text
    BY <2>0
  <2>2. Told(r.detect, h) = [i \in DOMAIN r.detect |-> r.detect[i].text]
    BY <2>1 DEF Told
  <2> QED BY <2>2 DEF DetectText
<1>3. \A p \in Parts : h[p] = p.text
  OBVIOUS
<1> HIDE DEF h
<1>4. /\ \A a \in Seq(Parts) : Joined(Told(a, h)) \in Seq(STRING)
      /\ \A p \in Parts : Joined(Told(<<p>>, h)) = h[p]
      /\ Joined(Told(<<>>, h)) = <<>>
  BY <1>1, ToldFacts
<1>5. \A r \in Results : r.detect \in Seq(Parts)
  BY DEF Results
<1>6. ASSUME NEW r \in Results, NEW t \in Texts, r.detect = Part(t, "thinking") PROVE DetectText(r) = t
  <2>1. CASE t = <<>>
    BY <1>2, <1>4, <1>6, <2>1 DEF Part
  <2>2. CASE t # <<>>
    <3> DEFINE p == [text |-> t, type |-> "thinking"]
    <3>1. p \in Parts /\ p.text = t
      BY DEF Parts, Types
    <3>2. r.detect = <<p>>
      BY <1>6, <2>2 DEF Part
    <3> HIDE DEF p
    <3> QED BY <1>2, <1>3, <1>4, <3>1, <3>2
  <2> QED BY <2>1, <2>2
<1> QED BY <1>2, <1>4, <1>5, <1>6 DEF Texts

\* What results say.
LEMMA ResultsFacts ==
  /\ \A a \in Seq(Results) : FlatResults(a) \in Seq(Words) /\ DetectResults(a) \in Texts
  /\ \A a, b \in Seq(Results) : /\ FlatResults(a \o b) = FlatResults(a) \o FlatResults(b)
                                /\ DetectResults(a \o b) = DetectResults(a) \o DetectResults(b)
  /\ \A r \in Results : FlatResults(<<r>>) = Flat(r.parts) /\ DetectResults(<<r>>) = DetectText(r)
  /\ FlatResults(<<>>) = <<>> /\ DetectResults(<<>>) = <<>>
<1> DEFINE h == [r \in Results |-> Flat(r.parts)]
           d == [r \in Results |-> DetectText(r)]
<1>1. h \in [Results -> Seq(Words)]
  <2>1. \A r \in Results : r.parts \in Seq(Parts)
    BY DEF Results
  <2> QED BY <2>1, FlatFacts
<1>2. d \in [Results -> Seq(STRING)]
  BY DetectFacts DEF Texts
<1>3. ASSUME NEW a \in Seq(Results)
      PROVE  FlatResults(a) = Joined(Told(a, h)) /\ DetectResults(a) = Joined(Told(a, d))
  <2>1. \A i \in DOMAIN a : h[a[i]] = Flat(a[i].parts) /\ d[a[i]] = DetectText(a[i])
    OBVIOUS
  <2>2. /\ Told(a, h) = [i \in DOMAIN a |-> Flat(a[i].parts)]
        /\ Told(a, d) = [i \in DOMAIN a |-> DetectText(a[i])]
    BY <2>1 DEF Told
  <2> QED BY <2>2 DEF FlatResults, DetectResults
<1>4. \A a, b \in Seq(Results) : a \o b \in Seq(Results)
  OBVIOUS
<1>5. \A r \in Results : <<r>> \in Seq(Results) /\ h[r] = Flat(r.parts) /\ d[r] = DetectText(r)
  OBVIOUS
<1>6. <<>> \in Seq(Results)
  OBVIOUS
<1> HIDE DEF h, d
<1>7. /\ \A a \in Seq(Results) : Joined(Told(a, h)) \in Seq(Words)
      /\ \A a, b \in Seq(Results) : Joined(Told(a \o b, h)) = Joined(Told(a, h)) \o Joined(Told(b, h))
      /\ \A p \in Results : Joined(Told(<<p>>, h)) = h[p]
      /\ Joined(Told(<<>>, h)) = <<>>
  BY <1>1, ToldFacts
<1>8. /\ \A a \in Seq(Results) : Joined(Told(a, d)) \in Seq(STRING)
      /\ \A a, b \in Seq(Results) : Joined(Told(a \o b, d)) = Joined(Told(a, d)) \o Joined(Told(b, d))
      /\ \A p \in Results : Joined(Told(<<p>>, d)) = d[p]
      /\ Joined(Told(<<>>, d)) = <<>>
  BY <1>2, ToldFacts
<1>9. \A a \in Seq(Results) : FlatResults(a) \in Seq(Words) /\ DetectResults(a) \in Texts
  BY <1>3, <1>7, <1>8 DEF Texts
<1>10. ASSUME NEW a \in Seq(Results), NEW b \in Seq(Results)
       PROVE  /\ FlatResults(a \o b) = FlatResults(a) \o FlatResults(b)
              /\ DetectResults(a \o b) = DetectResults(a) \o DetectResults(b)
  <2> DEFINE c == a \o b
  <2>1. c \in Seq(Results)
    OBVIOUS
  <2>2. /\ Joined(Told(c, h)) = Joined(Told(a, h)) \o Joined(Told(b, h))
        /\ Joined(Told(c, d)) = Joined(Told(a, d)) \o Joined(Told(b, d))
    BY <1>7, <1>8
  <2> HIDE DEF c
  <2>3. /\ FlatResults(c) = FlatResults(a) \o FlatResults(b)
        /\ DetectResults(c) = DetectResults(a) \o DetectResults(b)
    BY <1>3, <2>1, <2>2
  <2> QED BY <2>3 DEF c
<1>11. \A r \in Results : FlatResults(<<r>>) = Flat(r.parts) /\ DetectResults(<<r>>) = DetectText(r)
  BY <1>3, <1>5, <1>7, <1>8
<1>12. FlatResults(<<>>) = <<>> /\ DetectResults(<<>>) = <<>>
  BY <1>3, <1>6, <1>7, <1>8
<1> QED BY <1>9, <1>10, <1>11, <1>12

-----------------------------------------------------------------------------
(* The pump's buffers.                                                     *)

Pumps == [cur : Types, text : Texts, think : Texts, detect : Texts, flushed : BOOLEAN,
          timer : BOOLEAN, id : Nat, send : Seq(Results)]

\* Results that may be given to the handler.
Proven(e, rs) == rs \in Seq(Results) /\ \A i \in DOMAIN rs : Proper(e, rs[i])
Quiet(rs) == \A i \in DOMAIN rs : ~rs[i].stop

PumpOK(e, s) == s \in Pumps /\ (~e => s.think = <<>>) /\ Proven(e, s.send)

\* What the pump has not got rid of: for the reader, and for the search for calls.
Waiting(s) == Part(s.think, "thinking") \o Part(s.text, "text")
Pending(s) == FlatResults(s.send) \o Flat(Waiting(s))
Wanted(s) == DetectResults(s.send) \o s.detect

\* t has been made of s, and nothing but pieces of the answer were sent.
Follows(s, t) == \E x \in Seq(Results) : t.send = s.send \o x /\ Quiet(x)

LEMMA WaitingType ==
  ASSUME NEW s \in Pumps
  PROVE  /\ Waiting(s) \in Seq(Parts)
         /\ Flat(Waiting(s)) = Tag(s.think, "thinking") \o Tag(s.text, "text")
         /\ Tag(s.think, "thinking") \in Seq(Words) /\ Tag(s.text, "text") \in Seq(Words)
<1>1. s.think \in Texts /\ s.text \in Texts /\ "thinking" \in Types /\ "text" \in Types
  BY DEF Pumps, Types
<1>2. Part(s.think, "thinking") \in Seq(Parts) /\ Part(s.text, "text") \in Seq(Parts)
  BY <1>1, PartOfType
<1>3. ASSUME NEW t \in Texts, NEW ty \in Types PROVE Flat(Part(t, ty)) = Tag(t, ty)
  <2>1. CASE t = <<>>
    BY <2>1, FlatFacts, TagFacts DEF Part
  <2>2. CASE t # <<>>
    <3> DEFINE p == [text |-> t, type |-> ty]
    <3>1. p \in Parts /\ p.text = t /\ p.type = ty
      BY DEF Parts
    <3>2. Part(t, ty) = <<p>>
      BY <2>2 DEF Part
    <3> HIDE DEF p
    <3> QED BY <3>1, <3>2, FlatFacts, TaggedType
  <2> QED BY <2>1, <2>2
<1>4. Flat(Waiting(s)) = Flat(Part(s.think, "thinking")) \o Flat(Part(s.text, "text"))
  BY <1>2, FlatFacts DEF Waiting
<1>5. Waiting(s) \in Seq(Parts)
  BY <1>2 DEF Waiting
<1> QED BY <1>1, <1>3, <1>4, <1>5, TagFacts

LEMMA FollowsOn ==
  ASSUME NEW s \in Pumps, NEW t \in Pumps, NEW v \in Pumps, Follows(s, t), Follows(t, v)
  PROVE  Follows(s, v)
<1>1. PICK x \in Seq(Results) : t.send = s.send \o x /\ Quiet(x)
  BY DEF Follows
<1>2. PICK y \in Seq(Results) : v.send = t.send \o y /\ Quiet(y)
  BY DEF Follows
<1>3. s.send \in Seq(Results)
  BY DEF Pumps
<1>4. x \o y \in Seq(Results) /\ v.send = s.send \o (x \o y)
  <2>1. v.send = (s.send \o x) \o y
    BY <1>1, <1>2
  <2>2. (s.send \o x) \o y = s.send \o (x \o y)
    <3> DEFINE a == s.send
    <3>1. a \in Seq(Results)
      BY <1>3
    <3> HIDE DEF a
    <3>2. (a \o x) \o y = a \o (x \o y)
      BY <3>1, ConcatAssociative
    <3> QED BY <3>2 DEF a
  <2> QED BY <2>1, <2>2
<1>5. Quiet(x \o y)
  <2>1. /\ Len(x) \in Nat /\ Len(y) \in Nat /\ Len(x \o y) = Len(x) + Len(y) /\ DOMAIN (x \o y) = 1 .. (Len(x) + Len(y))
        /\ DOMAIN x = 1 .. Len(x) /\ DOMAIN y = 1 .. Len(y)
    OBVIOUS
  <2>2. ASSUME NEW i \in 1 .. (Len(x) + Len(y)) PROVE ~(x \o y)[i].stop
    <3>1. CASE i <= Len(x)
      BY <1>1, <2>1, <3>1 DEF Quiet
    <3>2. CASE ~(i <= Len(x))
      <4>1. (x \o y)[i] = y[i - Len(x)] /\ i - Len(x) \in 1 .. Len(y)
        BY <2>1, <3>2
      <4> QED BY <1>2, <2>1, <4>1 DEF Quiet
    <3> QED BY <3>1, <3>2
  <2> QED BY <2>1, <2>2 DEF Quiet
<1> QED BY <1>4, <1>5 DEF Follows

LEMMA FollowsItself ==
  ASSUME NEW s \in Pumps, NEW t, t.send = s.send
  PROVE  Follows(s, t)
<1>1. s.send \in Seq(Results) /\ <<>> \in Seq(Results) /\ Quiet(<<>>)
  BY DEF Pumps, Quiet
<1>2. t.send = s.send \o <<>>
  BY <1>1
<1> QED BY <1>1, <1>2 DEF Follows

\* One more result.
LEMMA OneMore ==
  ASSUME NEW e \in BOOLEAN, NEW rs, Proven(e, rs), NEW r, Proper(e, r)
  PROVE  /\ Proven(e, Append(rs, r)) /\ Append(rs, r) = rs \o <<r>> /\ <<r>> \in Seq(Results)
         /\ FlatResults(Append(rs, r)) = FlatResults(rs) \o Flat(r.parts)
         /\ DetectResults(Append(rs, r)) = DetectResults(rs) \o DetectText(r)
<1>1. rs \in Seq(Results) /\ r \in Results
  BY DEF Proven, Proper
<1>2. Append(rs, r) = rs \o <<r>> /\ <<r>> \in Seq(Results) /\ Append(rs, r) \in Seq(Results)
  BY <1>1
<1>3. ASSUME NEW i \in DOMAIN Append(rs, r) PROVE Proper(e, Append(rs, r)[i])
  BY <1>1, <1>3 DEF Proven
<1>4. Proven(e, Append(rs, r))
  BY <1>2, <1>3 DEF Proven
<1>5. /\ FlatResults(rs \o <<r>>) = FlatResults(rs) \o Flat(r.parts)
      /\ DetectResults(rs \o <<r>>) = DetectResults(rs) \o DetectText(r)
  BY <1>1, <1>2, ResultsFacts
<1> QED BY <1>2, <1>4, <1>5

\* What is waiting in the buffers, as a result.
Delivery(s) ==
  Result(TRUE, FALSE, "", [parts |-> Waiting(s), detect |-> Part(s.detect, "thinking"), next |-> s.cur], s.id)

LEMMA DeliveryFacts ==
  ASSUME NEW e \in BOOLEAN, NEW s, PumpOK(e, s)
  PROVE  /\ Proper(e, Delivery(s)) /\ ~Delivery(s).stop
         /\ Delivery(s).parts = Waiting(s) /\ DetectText(Delivery(s)) = s.detect
<1> DEFINE r == Delivery(s)
<1>1. s \in Pumps /\ (~e => s.think = <<>>)
  BY DEF PumpOK
<1>2. s.detect \in Texts /\ s.cur \in Types /\ s.id \in Nat /\ s.text \in Texts
  BY <1>1 DEF Pumps
<1>3. /\ r.parts = Waiting(s) /\ r.detect = Part(s.detect, "thinking") /\ r.stop = FALSE
  BY DEF Delivery, Result
<1>4. r \in Results
  <2>1. Part(s.detect, "thinking") \in Seq(Parts)
    BY <1>2, PartOfType DEF Types
  <2> QED BY <1>1, <1>2, <2>1, WaitingType DEF Delivery, Result, Results, Endings
<1> HIDE DEF r
<1>5. ~e => \A i \in DOMAIN r.parts : ~IsThinking(r.parts[i])
  <2> SUFFICES ASSUME ~e, NEW i \in DOMAIN r.parts PROVE ~IsThinking(r.parts[i])
    OBVIOUS
  <2>1. Part(s.think, "thinking") = <<>>
    BY <1>1 DEF Part
  <2>2. Part(s.text, "text") \in Seq(Parts)
    BY <1>2, PartOfType DEF Types
  <2>3. r.parts = Part(s.text, "text")
    BY <1>3, <2>1, <2>2 DEF Waiting
  <2>4. s.text # <<>> /\ r.parts = <<[text |-> s.text, type |-> "text"]>>
    BY <2>3 DEF Part
  <2> QED BY <2>4 DEF IsThinking
<1>6. DetectText(r) = s.detect
  BY <1>2, <1>3, <1>4, DetectFacts
<1> QED BY <1>3, <1>4, <1>5, <1>6 DEF r, Proper

\* s and t tell the reader the same.
Alike(e, s, t) ==
  /\ PumpOK(e, t) /\ t.cur = s.cur /\ Follows(s, t)
  /\ Pending(t) = Pending(s) /\ Wanted(t) = Wanted(s)

LEMMA ConcatNothing ==
  ASSUME NEW S, NEW x \in Seq(S)
  PROVE  x \o <<>> = x /\ <<>> \o x = x /\ x \in Seq(S) /\ <<>> \in Seq(S)
OBVIOUS

LEMMA EmptyTexts ==
  /\ <<>> \in Texts /\ Part(<<>>, "thinking") = <<>> /\ Part(<<>>, "text") = <<>>
  /\ <<>> \in Seq(Parts) /\ <<>> \o <<>> = <<>>
BY DEF Texts, Part

LEMMA FlushKeeps ==
  ASSUME NEW e \in BOOLEAN, NEW s, PumpOK(e, s), NEW force \in BOOLEAN
  PROVE  LET t == Flush(s, force)
         IN  /\ Alike(e, s, t)
             /\ force => ~Buffered(t) /\ ~t.timer /\ t.text = <<>>
             /\ t = s \/ ~Buffered(t)
<1> DEFINE t == Flush(s, force)
           r == Delivery(s)
           some == Waiting(s) # <<>> \/ s.detect # <<>>
           goes == force \/ ~s.flushed \/ Len(s.text) >= MinChars
<1>1. s \in Pumps /\ (~e => s.think = <<>>) /\ Proven(e, s.send)
  BY DEF PumpOK
<1>2. t = IF ~goes THEN s
          ELSE [s EXCEPT !.text = <<>>, !.think = <<>>, !.detect = <<>>, !.flushed = TRUE, !.timer = FALSE,
                         !.send = IF some THEN Append(@, r) ELSE @, !.id = IF some THEN 0 ELSE @]
  BY DEF Flush, Delivery, Waiting
<1>3. Proper(e, r) /\ ~r.stop /\ r.parts = Waiting(s) /\ DetectText(r) = s.detect
  BY DeliveryFacts
<1>4. CASE ~goes
  <2>1. t = s /\ force = FALSE
    BY <1>2, <1>4
  <2>2. Alike(e, s, t)
    BY <1>1, <2>1, FollowsItself DEF Alike
  <2> QED BY <2>1, <2>2
<1>5. CASE goes
  <2> DEFINE sent == IF some THEN Append(s.send, r) ELSE s.send
             mark == IF some THEN 0 ELSE s.id
  <2>1. t = [s EXCEPT !.text = <<>>, !.think = <<>>, !.detect = <<>>, !.flushed = TRUE, !.timer = FALSE,
                      !.send = sent, !.id = mark]
    BY <1>2, <1>5
  <2>2. mark \in Nat
    BY <1>1 DEF Pumps
  <2>3. Proven(e, sent) /\ sent \in Seq(Results)
    BY <1>1, <1>3, OneMore DEF Proven
  <2>4. /\ FlatResults(sent) = FlatResults(s.send) \o Flat(Waiting(s))
        /\ DetectResults(sent) = DetectResults(s.send) \o s.detect
    <3>1. CASE some
      <4>1. sent = Append(s.send, r)
        BY <3>1
      <4>2. /\ FlatResults(Append(s.send, r)) = FlatResults(s.send) \o Flat(r.parts)
            /\ DetectResults(Append(s.send, r)) = DetectResults(s.send) \o DetectText(r)
        <5> HIDE DEF r
        <5> QED BY <1>1, <1>3, OneMore
      <4> QED BY <1>3, <4>1, <4>2
    <3>2. CASE ~some
      <4>1. sent = s.send /\ Flat(Waiting(s)) = <<>> /\ s.detect = <<>>
        BY <3>2, FlatFacts
      <4>2. FlatResults(s.send) \in Seq(Words) /\ DetectResults(s.send) \in Seq(STRING)
        BY <1>1, ResultsFacts DEF Pumps, Texts
      <4> QED BY <4>1, <4>2, ConcatNothing
    <3> QED BY <3>1, <3>2
  <2>5. \E x \in Seq(Results) : sent = s.send \o x /\ Quiet(x)
    <3>1. CASE some
      <4>1. sent = s.send \o <<r>> /\ <<r>> \in Seq(Results)
        BY <1>1, <1>3, <3>1, OneMore
      <4>2. Quiet(<<r>>)
        BY <1>3 DEF Quiet
      <4> QED BY <4>1, <4>2
    <3>2. CASE ~some
      BY <1>1, <3>2, FollowsItself DEF Follows
    <3> QED BY <3>1, <3>2
  <2> HIDE DEF sent, mark, t, r, some, goes
  <2>6. /\ t \in Pumps /\ t.text = <<>> /\ t.think = <<>> /\ t.detect = <<>> /\ t.timer = FALSE
        /\ t.send = sent /\ t.cur = s.cur
    BY <1>1, <2>1, <2>2, <2>3, EmptyTexts DEF Pumps
  <2>7. PumpOK(e, t)
    BY <2>3, <2>6 DEF PumpOK
  <2>8. Flat(Waiting(t)) = <<>>
    BY <2>6, EmptyTexts, FlatFacts DEF Waiting
  <2>9. Pending(t) = Pending(s)
    <3>1. FlatResults(sent) \o <<>> = FlatResults(sent)
      BY <2>3, ResultsFacts, ConcatNothing
    <3> QED BY <2>4, <2>6, <2>8, <3>1 DEF Pending
  <2>10. Wanted(t) = Wanted(s)
    <3>1. DetectResults(sent) \o <<>> = DetectResults(sent)
      BY <2>3, ResultsFacts, ConcatNothing DEF Texts
    <3> QED BY <2>4, <2>6, <3>1 DEF Wanted
  <2>11. ~Buffered(t)
    BY <2>6 DEF Buffered
  <2>12. Alike(e, s, t)
    BY <2>5, <2>6, <2>7, <2>9, <2>10 DEF Alike, Follows
  <2>13. Alike(e, s, t) /\ (force => ~Buffered(t) /\ ~t.timer /\ t.text = <<>>) /\ (t = s \/ ~Buffered(t))
    BY <2>6, <2>11, <2>12
  <2> QED BY <2>13 DEF t
<1> QED BY <1>4, <1>5

\* t tells the reader what s does and then these words, and the search for calls this text.
Grew(e, s, t, words, text) ==
  /\ PumpOK(e, t) /\ t.cur = s.cur /\ Follows(s, t)
  /\ Pending(t) = Pending(s) \o words /\ Wanted(t) = Wanted(s) \o text

LEMMA PendingType ==
  ASSUME NEW e \in BOOLEAN, NEW s, PumpOK(e, s)
  PROVE  /\ s \in Pumps /\ Pending(s) \in Seq(Words) /\ Wanted(s) \in Seq(STRING) /\ Wanted(s) \in Texts
         /\ s.send \in Seq(Results) /\ s.text \in Texts /\ s.think \in Texts /\ s.detect \in Texts /\ s.cur \in Types
<1>1. /\ s \in Pumps /\ s.send \in Seq(Results)
      /\ s.text \in Texts /\ s.think \in Texts /\ s.detect \in Texts /\ s.cur \in Types
  BY DEF PumpOK, Pumps
<1>2. FlatResults(s.send) \in Seq(Words) /\ DetectResults(s.send) \in Texts
  BY <1>1, ResultsFacts
<1>3. Flat(Waiting(s)) \in Seq(Words)
  BY <1>1, WaitingType, FlatFacts
<1>4. Pending(s) \in Seq(Words)
  BY <1>2, <1>3 DEF Pending
<1>5. \A a, b \in Texts : a \o b \in Texts
  BY DEF Texts
<1>6. Wanted(s) \in Texts
  BY <1>1, <1>2, <1>5 DEF Wanted
<1>7. Texts = Seq(STRING)
  BY DEF Texts
<1> QED BY <1>1, <1>4, <1>6, <1>7

LEMMA AlikeGrew ==
  ASSUME NEW e \in BOOLEAN, NEW s, PumpOK(e, s), NEW t, Alike(e, s, t)
  PROVE  Grew(e, s, t, <<>>, <<>>)
<1>1. Pending(s) \o <<>> = Pending(s) /\ Wanted(s) \o <<>> = Wanted(s)
  BY PendingType, ConcatNothing
<1> QED BY <1>1 DEF Alike, Grew

LEMMA GrewOn ==
  ASSUME NEW e \in BOOLEAN, NEW s, NEW t, NEW v, PumpOK(e, s),
         NEW w1 \in Seq(Words), NEW w2 \in Seq(Words), NEW d1 \in Seq(STRING), NEW d2 \in Seq(STRING),
         Grew(e, s, t, w1, d1), Grew(e, t, v, w2, d2)
  PROVE  Grew(e, s, v, w1 \o w2, d1 \o d2)
<1>1. PumpOK(e, t) /\ PumpOK(e, v) /\ v.cur = s.cur
  BY DEF Grew
<1>2. s \in Pumps /\ t \in Pumps /\ v \in Pumps
  BY <1>1 DEF PumpOK
<1>3. Follows(s, v)
  BY <1>2, FollowsOn DEF Grew
<1> DEFINE a == Pending(s)
           b == Wanted(s)
<1>4. a \in Seq(Words) /\ b \in Seq(STRING)
  BY PendingType
<1> HIDE DEF a, b
<1>5. (a \o w1) \o w2 = a \o (w1 \o w2)
  BY <1>4, ConcatAssociative
<1>6. (b \o d1) \o d2 = b \o (d1 \o d2)
  BY <1>4, ConcatAssociative
<1>7. Pending(v) = a \o (w1 \o w2)
  BY <1>5 DEF Grew, a
<1>8. Wanted(v) = b \o (d1 \o d2)
  BY <1>6 DEF Grew, b
<1> QED BY <1>1, <1>3, <1>7, <1>8 DEF Grew, a, b

\* More text for a buffer.
LEMMA MoreText ==
  ASSUME NEW e \in BOOLEAN, NEW s, PumpOK(e, s), NEW p \in Texts
  PROVE  Grew(e, s, [s EXCEPT !.text = @ \o p], Tag(p, "text"), <<>>)
<1> DEFINE t == [s EXCEPT !.text = s.text \o p]
           a == FlatResults(s.send)
           k == Tag(s.think, "thinking")
           x == Tag(s.text, "text")
           w == Tag(p, "text")
<1>1. /\ s \in Pumps /\ s.send \in Seq(Results) /\ s.text \in Texts /\ s.think \in Texts /\ s.text \o p \in Texts
  BY PendingType DEF Texts
<1>2. t \in Pumps /\ t.text = s.text \o p /\ t.think = s.think /\ t.send = s.send /\ t.detect = s.detect /\ t.cur = s.cur
  BY <1>1 DEF Pumps
<1> HIDE DEF t
<1>3. PumpOK(e, t)
  BY <1>1, <1>2 DEF PumpOK
<1>4. Flat(Waiting(s)) = k \o x /\ Flat(Waiting(t)) = k \o (x \o w)
  <2>1. Tag(t.text, "text") = x \o w
    BY <1>1, <1>2, TagFacts DEF Types
  <2> QED BY <1>1, <1>2, <2>1, WaitingType
<1>5. a \in Seq(Words) /\ k \in Seq(Words) /\ x \in Seq(Words) /\ w \in Seq(Words)
  BY <1>1, ResultsFacts, TagFacts DEF Types
<1> HIDE DEF a, k, x, w
<1>6. a \o (k \o (x \o w)) = (a \o (k \o x)) \o w
  BY <1>5, ConcatAssociative, SMTT(30)
<1>7. Pending(t) = Pending(s) \o w
  BY <1>2, <1>4, <1>6 DEF Pending, a
<1>8. Wanted(t) = Wanted(s) \o <<>>
  <2>1. Wanted(t) = Wanted(s)
    BY <1>2 DEF Wanted
  <2> QED BY <2>1, PendingType, ConcatNothing
<1>9. Follows(s, t)
  BY <1>1, <1>2, FollowsItself
<1>10. Grew(e, s, t, w, <<>>)
  BY <1>2, <1>3, <1>7, <1>8, <1>9 DEF Grew
<1> QED BY <1>10 DEF t, w

LEMMA MoreThinking ==
  ASSUME NEW s, PumpOK(TRUE, s), s.text = <<>>, NEW p \in Texts
  PROVE  Grew(TRUE, s, [s EXCEPT !.think = @ \o p], Tag(p, "thinking"), <<>>)
<1> DEFINE t == [s EXCEPT !.think = s.think \o p]
           a == FlatResults(s.send)
           k == Tag(s.think, "thinking")
           w == Tag(p, "thinking")
<1>1. /\ s \in Pumps /\ s.send \in Seq(Results) /\ s.think \in Texts /\ s.think \o p \in Texts
  <2>1. s \in Pumps /\ s.send \in Seq(Results) /\ s.think \in Texts
    BY DEF PumpOK, Pumps
  <2> QED BY <2>1 DEF Texts
<1>2. t \in Pumps /\ t.think = s.think \o p /\ t.text = <<>> /\ t.send = s.send /\ t.detect = s.detect /\ t.cur = s.cur
  BY <1>1 DEF Pumps
<1> HIDE DEF t
<1>3. PumpOK(TRUE, t)
  BY <1>1, <1>2 DEF PumpOK
<1>5. a \in Seq(Words) /\ k \in Seq(Words) /\ w \in Seq(Words)
  BY <1>1, ResultsFacts, TagFacts DEF Types
<1>4. Flat(Waiting(s)) = k /\ Flat(Waiting(t)) = k \o w
  <2>1. Tag(t.think, "thinking") = k \o w
    BY <1>1, <1>2, TagFacts DEF Types
  <2>2. Tag(<<>>, "text") = <<>> /\ k \o w \in Seq(Words)
    BY <1>5, TagFacts DEF Types
  <2>3. Flat(Waiting(s)) = k \o <<>> /\ Flat(Waiting(t)) = (k \o w) \o <<>>
    BY <1>1, <1>2, <2>1, <2>2, WaitingType
  <2> HIDE DEF k, w
  <2> QED BY <1>5, <2>2, <2>3, ConcatNothing
<1> HIDE DEF a, k, w
<1>6. a \o (k \o w) = (a \o k) \o w
  BY <1>5, ConcatAssociative
<1>7. Pending(t) = Pending(s) \o w
  BY <1>2, <1>4, <1>6 DEF Pending, a
<1>8. Wanted(t) = Wanted(s) \o <<>>
  <2>1. Wanted(t) = Wanted(s)
    BY <1>2 DEF Wanted
  <2> QED BY <2>1, PendingType, ConcatNothing
<1>9. Follows(s, t)
  BY <1>1, <1>2, FollowsItself
<1>10. Grew(TRUE, s, t, w, <<>>)
  BY <1>2, <1>3, <1>7, <1>8, <1>9 DEF Grew
<1> QED BY <1>10 DEF t, w

LEMMA GatherKeeps ==
  ASSUME NEW e \in BOOLEAN, NEW s, PumpOK(e, s), NEW part \in Parts, ~e => ~IsThinking(part)
  PROVE  Grew(e, s, Gather(s, part), Tagged(part), <<>>)
<1>1. /\ part.text \in Texts /\ part.type \in Types /\ Tagged(part) = Tag(part.text, part.type)
      /\ Tagged(part) \in Seq(Words)
  BY TaggedType DEF Parts
<1>2. <<>> \in Seq(Words) /\ <<>> \o Tagged(part) = Tagged(part) /\ Tagged(part) \o <<>> = Tagged(part)
  BY <1>1, ConcatNothing
<1>3. <<>> \in Seq(STRING) /\ <<>> \o <<>> = <<>>
  BY EmptyTexts DEF Texts
<1>4. CASE IsThinking(part)
  <2> DEFINE t == IF s.text # <<>> THEN Flush(s, TRUE) ELSE s
  <2>1. e = TRUE /\ part.type = "thinking"
    BY <1>4 DEF IsThinking
  <2>2. Alike(e, s, t) /\ t.text = <<>>
    <3>1. CASE s.text # <<>>
      BY <3>1, FlushKeeps
    <3>2. CASE s.text = <<>>
      BY <3>2, PendingType, FollowsItself DEF Alike
    <3> QED BY <3>1, <3>2
  <2>3. Gather(s, part) = [t EXCEPT !.think = @ \o part.text]
    BY <1>4 DEF Gather
  <2> HIDE DEF t
  <2>4. PumpOK(TRUE, t)
    BY <2>1, <2>2 DEF Alike
  <2>5. Grew(TRUE, t, Gather(s, part), Tag(part.text, "thinking"), <<>>)
    BY <1>1, <2>2, <2>3, <2>4, MoreThinking
  <2>6. Grew(e, s, t, <<>>, <<>>)
    BY <2>2, AlikeGrew
  <2>7. Grew(e, t, Gather(s, part), Tagged(part), <<>>)
    BY <1>1, <2>1, <2>5
  <2>8. Grew(e, s, Gather(s, part), <<>> \o Tagged(part), <<>> \o <<>>)
    BY <1>1, <1>2, <1>3, <2>6, <2>7, GrewOn
  <2> QED BY <1>2, <1>3, <2>8
<1>5. CASE ~IsThinking(part)
  <2> DEFINE t == [s EXCEPT !.text = @ \o part.text]
             g == Gather(s, part)
  <2>1. part.type = "text"
    BY <1>1, <1>5 DEF IsThinking, Types
  <2>2. Grew(e, s, t, Tagged(part), <<>>)
    BY <1>1, <2>1, MoreText
  <2>3. g = t \/ g = Flush(t, TRUE)
    BY <1>5 DEF Gather
  <2> HIDE DEF t, g
  <2>4. PumpOK(e, t)
    BY <2>2 DEF Grew
  <2>5. CASE g = t
    BY <2>2, <2>5 DEF g
  <2>6. CASE g = Flush(t, TRUE)
    <3>1. Grew(e, t, g, <<>>, <<>>)
      BY <2>4, <2>6, FlushKeeps, AlikeGrew
    <3>2. Grew(e, s, g, Tagged(part) \o <<>>, <<>> \o <<>>)
      BY <1>1, <1>2, <1>3, <2>2, <3>1, GrewOn
    <3> QED BY <1>2, <1>3, <3>2 DEF g
  <2> QED BY <2>3, <2>5, <2>6
<1> QED BY <1>4, <1>5

\* One line more of the first lines.
LEMMA FirstsMore ==
  ASSUME NEW A, NEW l \in Seq(A), NEW i \in Nat, i < Len(l)
  PROVE  /\ SubSeq(l, 1, i) \in Seq(A) /\ l[i + 1] \in A /\ <<l[i + 1]>> \in Seq(A)
         /\ SubSeq(l, 1, i + 1) = Append(SubSeq(l, 1, i), l[i + 1])
         /\ Append(SubSeq(l, 1, i), l[i + 1]) = SubSeq(l, 1, i) \o <<l[i + 1]>>
<1> DEFINE u == SubSeq(l, 1, i)
           v == SubSeq(l, 1, i + 1)
<1>1. u \in Seq(A) /\ Len(u) = i /\ l[i + 1] \in A /\ v \in Seq(A) /\ Len(v) = i + 1
  OBVIOUS
<1>2. /\ \A j \in 1 .. i : u[j] = l[j]
      /\ \A j \in 1 .. i + 1 : v[j] = l[j]
  OBVIOUS
<1> HIDE DEF u, v
<1>3. v = Append(u, l[i + 1])
  BY <1>1, <1>2
<1> QED BY <1>1, <1>3 DEF u, v

LEMMA FirstsAll ==
  ASSUME NEW A, NEW l \in Seq(A)
  PROVE  SubSeq(l, 1, Len(l)) = l /\ SubSeq(l, 1, 0) = <<>> /\ Len(l) \in Nat
OBVIOUS

\* The parts that may be shown, and the pumps that only show those.
Fit(e) == {p \in Parts : ~e => ~IsThinking(p)}
Fine(e) == {s \in Pumps : PumpOK(e, s)}

LEMMA GatheredLoop ==
  ASSUME NEW e \in BOOLEAN, NEW s \in Fine(e), NEW parts \in Seq(Fit(e))
  PROVE  \E f : f = [i \in 0 .. Len(parts) |-> IF i = 0 THEN s ELSE Gather(f[i - 1], parts[i])]
<1> DEFINE V == Fine(e)
           n == Len(parts)
           step == [i \in Nat |-> [v \in V |-> IF i \in 1 .. n THEN Gather(v, parts[i]) ELSE v]]
<1>1. step \in [Nat -> [V -> V]]
  <2>1. ASSUME NEW i \in 1 .. n, NEW v \in V PROVE Gather(v, parts[i]) \in V
    <3>1. PumpOK(e, v)
      BY DEF Fine
    <3>2. parts[i] \in Parts /\ (~e => ~IsThinking(parts[i]))
      <4>1. parts[i] \in Fit(e)
        OBVIOUS
      <4> QED BY <4>1 DEF Fit
    <3>3. Grew(e, v, Gather(v, parts[i]), Tagged(parts[i]), <<>>)
      BY <3>1, <3>2, GatherKeeps
    <3> QED BY <3>3 DEF Grew, PumpOK, Fine
  <2> HIDE DEF V, n
  <2> QED BY <2>1
<1>2. n \in Nat /\ s \in V
  OBVIOUS
<1>3. \A i \in 1 .. n, v \in V : step[i][v] = Gather(v, parts[i])
  OBVIOUS
<1> HIDE DEF V, step, n
<1>4. PICK f \in [0 .. n -> V] : Iterates(f, n, s, step)
  BY <1>1, <1>2, Recursion
<1>5. \A i \in 1 .. n : f[i] = Gather(f[i - 1], parts[i])
  BY <1>2, <1>3, <1>4 DEF Iterates
<1>6. f = [i \in 0 .. n |-> IF i = 0 THEN s ELSE Gather(f[i - 1], parts[i])]
  BY <1>2, <1>4, <1>5 DEF Iterates
<1> QED BY <1>6 DEF n

\* Gathering parts adds what they say.
LEMMA GatheredKeeps ==
  ASSUME NEW e \in BOOLEAN, NEW s, PumpOK(e, s), NEW parts \in Seq(Fit(e))
  PROVE  Grew(e, s, Gathered(s, parts), Flat(parts), <<>>)
<1> DEFINE g == CHOOSE f : f = [i \in 0 .. Len(parts) |-> IF i = 0 THEN s ELSE Gather(f[i - 1], parts[i])]
           n == Len(parts)
           T == {i \in Nat : i <= n => Grew(e, s, g[i], Flat(SubSeq(parts, 1, i)), <<>>)}
<1>0. s \in Fine(e)
  BY DEF Fine, PumpOK
<1>1. g = [i \in 0 .. Len(parts) |-> IF i = 0 THEN s ELSE Gather(g[i - 1], parts[i])]
  BY <1>0, GatheredLoop, Zenon
<1>2. Gathered(s, parts) = g[Len(parts)]
  BY DEF Gathered
<1> HIDE DEF g
<1>3. n \in Nat /\ g[0] = s /\ \A i \in Nat : i < n => g[i + 1] = Gather(g[i], parts[i + 1])
  <2>1. n \in Nat
    OBVIOUS
  <2>2. ASSUME NEW i \in Nat, i < n PROVE g[i + 1] = Gather(g[i], parts[i + 1])
    <3>1. i + 1 \in 0 .. n /\ i + 1 # 0 /\ (i + 1) - 1 = i
      BY <2>1, <2>2
    <3>2. g[i + 1] = Gather(g[(i + 1) - 1], parts[i + 1])
      BY <1>1, <3>1, Zenon
    <3> QED BY <3>1, <3>2
  <2> QED BY <1>1, <2>1, <2>2
<1>4. \A p \in Fit(e) : p \in Parts
  BY DEF Fit
<1>5. parts \in Seq(Parts)
  BY <1>4
<1> HIDE DEF n
<1>6. SubSeq(parts, 1, 0) = <<>> /\ SubSeq(parts, 1, n) = parts
  BY <1>5, FirstsAll DEF n
<1>7. 0 \in T
  <2>1. Grew(e, s, s, <<>>, <<>>)
    BY PendingType, FollowsItself, AlikeGrew DEF Alike
  <2> QED BY <1>3, <1>6, <2>1, FlatFacts
<1>8. ASSUME NEW i \in T PROVE i + 1 \in T
  <2>1. i \in Nat
    OBVIOUS
  <2> SUFFICES ASSUME i + 1 <= n PROVE Grew(e, s, g[i + 1], Flat(SubSeq(parts, 1, i + 1)), <<>>)
    BY <2>1
  <2> DEFINE w == Flat(SubSeq(parts, 1, i))
             p == parts[i + 1]
  <2>2. i < n /\ i < Len(parts)
    BY <1>3, <2>1 DEF n
  <2>3. Grew(e, s, g[i], w, <<>>)
    BY <1>3, <2>2
  <2>4. p \in Fit(e)
    BY <2>1, <2>2, FirstsMore
  <2>5. p \in Parts /\ (~e => ~IsThinking(p))
    BY <2>4 DEF Fit
  <2>6. /\ SubSeq(parts, 1, i) \in Seq(Parts) /\ <<p>> \in Seq(Parts)
        /\ SubSeq(parts, 1, i + 1) = SubSeq(parts, 1, i) \o <<p>>
    BY <1>5, <2>1, <2>2, FirstsMore
  <2>7. Flat(SubSeq(parts, 1, i + 1)) = w \o Tagged(p) /\ w \in Seq(Words) /\ Tagged(p) \in Seq(Words)
    BY <2>5, <2>6, FlatFacts, TaggedType
  <2>8. g[i + 1] = Gather(g[i], p)
    BY <1>3, <2>1, <2>2
  <2> HIDE DEF w, p
  <2>9. PumpOK(e, g[i])
    BY <2>3 DEF Grew
  <2>10. Grew(e, g[i], g[i + 1], Tagged(p), <<>>)
    BY <2>5, <2>8, <2>9, GatherKeeps
  <2>11. <<>> \in Seq(STRING) /\ <<>> \o <<>> = <<>>
    BY EmptyTexts DEF Texts
  <2>12. Grew(e, s, g[i + 1], w \o Tagged(p), <<>> \o <<>>)
    BY <2>3, <2>7, <2>10, <2>11, GrewOn
  <2> QED BY <2>7, <2>11, <2>12
<1>9. T \in SUBSET Nat
  OBVIOUS
<1>10. n \in T
  <2> HIDE DEF T
  <2> QED BY <1>3, <1>7, <1>8, <1>9, Induction
<1>11. Grew(e, s, g[n], Flat(parts), <<>>)
  <2>1. n <= n => Grew(e, s, g[n], Flat(SubSeq(parts, 1, n)), <<>>)
    BY <1>10
  <2>2. Grew(e, s, g[n], Flat(SubSeq(parts, 1, n)), <<>>)
    BY <1>3, <2>1
  <2> QED BY <1>6, <2>2
<1> QED BY <1>2, <1>11 DEF n

\* Reasoning is no part of the answer.
LEMMA AnswerFacts ==
  /\ \A a, b \in Seq(Words) : Answer(a \o b) = Answer(a) \o Answer(b)
  /\ \A a \in Seq(Words) : Answer(a) \in Seq(Words)
  /\ \A t \in Texts : Answer(Tag(t, "thinking")) = <<>>
<1> DEFINE S == {"text"} \X STRING
<1>1. ASSUME NEW a \in Seq(Words), NEW b \in Seq(Words) PROVE Answer(a \o b) = Answer(a) \o Answer(b)
  BY AmongConcat DEF Answer
<1>2. ASSUME NEW a \in Seq(Words) PROVE Answer(a) \in Seq(Words)
  <2>1. Answer(a) \in Seq(Words \cap S)
    BY AmongType DEF Answer
  <2> HIDE DEF S
  <2> QED BY <2>1
<1>3. ASSUME NEW t \in Texts PROVE Answer(Tag(t, "thinking")) = <<>>
  <2> DEFINE A == {"thinking"} \X STRING
  <2>1. t \in Seq(STRING) /\ DOMAIN t = 1 .. Len(t) /\ Len(t) \in Nat
    BY DEF Texts
  <2>2. \A j \in 1 .. Len(t) : <<"thinking", t[j]>> \in A
    BY <2>1
  <2>3. Tag(t, "thinking") \in Seq(A)
    <3>1. [j \in 1 .. Len(t) |-> <<"thinking", t[j]>>] \in Seq(A)
      <4> HIDE DEF A
      <4> QED BY <2>1, <2>2
    <3> QED BY <2>1, <3>1 DEF Tag
  <2>4. A \cap S = {}
    OBVIOUS
  <2>5. Answer(Tag(t, "thinking")) \in Seq(A \cap S)
    <3> HIDE DEF A
    <3> QED BY <2>3, AmongType DEF Answer
  <2>6. \A x \in Seq({}) : x = <<>>
    OBVIOUS
  <2> QED BY <2>4, <2>5, <2>6
<1> QED BY <1>1, <1>2, <1>3

\* What is in the buffers decides what the reader is told.
LEMMA SameBuffers ==
  ASSUME NEW e \in BOOLEAN, NEW s, PumpOK(e, s), NEW t \in Pumps,
         t.send = s.send, t.text = s.text, t.think = s.think, t.detect = s.detect
  PROVE  /\ PumpOK(e, t) /\ Follows(s, t) /\ Pending(t) = Pending(s) /\ Wanted(t) = Wanted(s)
         /\ Buffered(t) = Buffered(s)
<1>1. s \in Pumps
  BY DEF PumpOK
<1>2. Follows(s, t)
  BY <1>1, FollowsItself
<1> QED BY <1>2 DEF PumpOK, Pending, Waiting, Wanted, Buffered

\* The pump before it looks at the parts of a line.
Recast(s, r) == [s EXCEPT !.cur = r.next, !.id = IF r.id > 0 THEN r.id ELSE @]

LEMMA RecastFacts ==
  ASSUME NEW e \in BOOLEAN, NEW s, PumpOK(e, s), NEW r \in Results
  PROVE  LET t == Recast(s, r)
         IN  /\ PumpOK(e, t) /\ t.send = s.send /\ t.text = s.text /\ t.think = s.think /\ t.detect = s.detect
             /\ t.timer = s.timer /\ t.cur = r.next
             /\ Pending(t) = Pending(s) /\ Wanted(t) = Wanted(s) /\ Buffered(t) = Buffered(s)
<1> DEFINE t == Recast(s, r)
           i == IF r.id > 0 THEN r.id ELSE s.id
<1>1. s \in Pumps
  BY DEF PumpOK
<1>2. i \in Nat /\ r.next \in Types
  BY <1>1 DEF Pumps, Results
<1>3. t = [s EXCEPT !.cur = r.next, !.id = i]
  BY DEF Recast
<1> HIDE DEF i, t
<1>4. /\ t \in Pumps /\ t.send = s.send /\ t.text = s.text /\ t.think = s.think /\ t.detect = s.detect
      /\ t.timer = s.timer /\ t.cur = r.next
  BY <1>1, <1>2, <1>3 DEF Pumps
<1>5. PumpOK(e, t) /\ Pending(t) = Pending(s) /\ Wanted(t) = Wanted(s) /\ Buffered(t) = Buffered(s)
  BY <1>4, SameBuffers
<1> QED BY <1>4, <1>5 DEF t

\* A line that does not stop adds its parts, and starts the timer of what it leaves behind.
LEMMA ProcessAdds ==
  ASSUME NEW e \in BOOLEAN, NEW s, PumpOK(e, s), NEW r, Proper(e, r), ~r.stop,
         ~r.parsed => r.parts = <<>> /\ r.detect = <<>>
  PROVE  LET v == Process(s, r)
         IN  /\ PumpOK(e, v) /\ v.cur = r.next /\ Follows(s, v)
             /\ Pending(v) = Pending(s) \o Flat(r.parts) /\ Wanted(v) = Wanted(s) \o DetectText(r)
             /\ (Buffered(s) => s.timer) => (Buffered(v) => v.timer)
<1> DEFINE v == Process(s, r)
           t == Recast(s, r)
           x == DetectText(r)
           d == [t EXCEPT !.detect = t.detect \o x]
           g == Gathered(d, r.parts)
           h == IF Len(g.text) >= MinChars THEN Flush(g, FALSE) ELSE g
<1>1. v = IF r.parsed /\ Buffered(h) THEN [h EXCEPT !.timer = TRUE] ELSE IF r.parsed THEN h ELSE t
  BY DEF Process, Recast
<1>2. r \in Results /\ r.parts \in Seq(Parts) /\ x \in Texts /\ s \in Pumps
  BY DetectFacts DEF Proper, Results, PumpOK
<1>3. r.parts \in Seq(Fit(e))
  <2>1. \A i \in DOMAIN r.parts : r.parts[i] \in Fit(e)
    BY <1>2 DEF Proper, Fit
  <2> QED BY <1>2, <2>1
<1> HIDE DEF v, t
<1>4. /\ PumpOK(e, t) /\ t.send = s.send /\ t.timer = s.timer /\ t.cur = r.next
      /\ Pending(t) = Pending(s) /\ Wanted(t) = Wanted(s) /\ Buffered(t) = Buffered(s)
  BY <1>2, RecastFacts DEF t
<1> HIDE DEF x
<1>5. Grew(e, t, d, <<>>, x)
  <2>1. t \in Pumps /\ t.detect \in Texts
    BY <1>4, PendingType
  <2>2. t.detect \o x \in Texts
    BY <1>2, <2>1 DEF Texts
  <2>3. /\ d \in Pumps /\ d.detect = t.detect \o x /\ d.send = t.send /\ d.text = t.text /\ d.think = t.think
        /\ d.cur = t.cur
    BY <2>1, <2>2 DEF Pumps
  <2> HIDE DEF d
  <2>4. PumpOK(e, d)
    BY <1>4, <2>3 DEF PumpOK
  <2>5. Pending(d) = Pending(t) \o <<>>
    <3>1. Pending(d) = Pending(t)
      BY <2>3 DEF Pending, Waiting
    <3> QED BY <1>4, <3>1, PendingType, ConcatNothing
  <2>6. Wanted(d) = Wanted(t) \o x
    <3> DEFINE a == DetectResults(t.send)
               b == t.detect
    <3>1. a \in Seq(STRING) /\ b \in Seq(STRING) /\ x \in Seq(STRING)
      BY <1>2, <2>1, ResultsFacts DEF Texts, Pumps
    <3>2. Wanted(d) = a \o (b \o x) /\ Wanted(t) = a \o b
      BY <2>3 DEF Wanted
    <3> HIDE DEF a, b
    <3>3. a \o (b \o x) = (a \o b) \o x
      BY <3>1, ConcatAssociative
    <3> QED BY <3>2, <3>3
  <2>7. Follows(t, d)
    BY <2>1, <2>3, FollowsItself
  <2> QED BY <2>3, <2>4, <2>5, <2>6, <2>7 DEF Grew
<1> HIDE DEF d
<1>6. PumpOK(e, d)
  BY <1>5 DEF Grew
<1>7. Grew(e, d, g, Flat(r.parts), <<>>)
  BY <1>3, <1>6, GatheredKeeps
<1> HIDE DEF g
<1>8. PumpOK(e, g)
  BY <1>7 DEF Grew
<1>9. Grew(e, g, h, <<>>, <<>>)
  <2>1. Alike(e, g, h)
    <3>1. CASE Len(g.text) >= MinChars
      BY <1>8, <3>1, FlushKeeps
    <3>2. CASE ~(Len(g.text) >= MinChars)
      BY <1>8, <3>2, PendingType, FollowsItself DEF Alike
    <3> QED BY <3>1, <3>2
  <2> QED BY <1>8, <2>1, AlikeGrew
<1> HIDE DEF h
<1> DEFINE w == Flat(r.parts)
<1>10. w \in Seq(Words) /\ x \in Seq(STRING) /\ <<>> \in Seq(Words) /\ <<>> \in Seq(STRING)
  BY <1>2, FlatFacts DEF Texts
<1> HIDE DEF w
<1>11. Grew(e, t, g, <<>> \o w, x \o <<>>)
  BY <1>4, <1>5, <1>7, <1>10, GrewOn DEF w
<1>12. <<>> \o w = w /\ w \o <<>> = w /\ x \o <<>> = x
  BY <1>10, ConcatNothing
<1>13. Grew(e, t, g, w, x)
  BY <1>11, <1>12
<1>14. Grew(e, t, h, w \o <<>>, x \o <<>>)
  BY <1>4, <1>9, <1>10, <1>13, GrewOn
<1>15. Grew(e, t, h, w, x)
  BY <1>12, <1>14
<1>16. PumpOK(e, h) /\ h \in Pumps /\ h.cur = r.next
  BY <1>4, <1>15 DEF Grew, PumpOK
<1>17. Follows(s, h)
  <2>1. Follows(s, t)
    BY <1>2, <1>4, FollowsItself
  <2>2. t \in Pumps
    BY <1>4 DEF PumpOK
  <2> QED BY <1>2, <1>15, <1>16, <2>1, <2>2, FollowsOn DEF Grew
<1> DEFINE G(k) == /\ PumpOK(e, k) /\ k.cur = r.next /\ Follows(s, k)
                   /\ Pending(k) = Pending(s) \o w /\ Wanted(k) = Wanted(s) \o x
<1>18. G(h)
  BY <1>4, <1>15, <1>16, <1>17 DEF Grew
<1>19. CASE r.parsed /\ Buffered(h)
  <2> DEFINE k == [h EXCEPT !.timer = TRUE]
  <2>1. /\ k \in Pumps /\ k.send = h.send /\ k.text = h.text /\ k.think = h.think /\ k.detect = h.detect
        /\ k.cur = h.cur /\ k.timer = TRUE
    BY <1>16 DEF Pumps
  <2>2. v = k
    BY <1>1, <1>19
  <2> HIDE DEF k
  <2>3. PumpOK(e, k) /\ Pending(k) = Pending(h) /\ Wanted(k) = Wanted(h) /\ Follows(h, k)
    BY <1>16, <2>1, SameBuffers
  <2>4. Follows(s, k)
    BY <1>2, <1>16, <1>17, <2>1, <2>3, FollowsOn
  <2>5. G(k)
    BY <1>18, <2>1, <2>3, <2>4
  <2> QED BY <2>1, <2>2, <2>5 DEF v, w, x
<1>20. CASE r.parsed /\ ~Buffered(h)
  <2>1. v = h
    BY <1>1, <1>20
  <2> QED BY <1>18, <1>20, <2>1 DEF v, w, x
<1>21. CASE ~r.parsed
  <2>1. v = t /\ r.parts = <<>> /\ r.detect = <<>>
    BY <1>1, <1>21
  <2>2. w = <<>> /\ x = <<>>
    BY <1>2, <2>1, FlatFacts, DetectFacts DEF w, x
  <2>3. Pending(s) \o w = Pending(s) /\ Wanted(s) \o x = Wanted(s)
    BY <2>2, PendingType, ConcatNothing
  <2>4. Follows(s, t)
    BY <1>2, <1>4, FollowsItself
  <2>5. G(t)
    BY <1>4, <2>3, <2>4
  <2> QED BY <1>4, <2>1, <2>5 DEF v, w, x
<1> QED BY <1>19, <1>20, <1>21

\* Between the pieces told before and the one that ends the answer, nothing is lost.
Ends(e, s, v) ==
  \E x \in Seq(Results), last \in Results :
    /\ v.send = (s.send \o x) \o <<last>> /\ last.stop /\ Quiet(x)
    /\ Answer(FlatResults(s.send \o x)) = Answer(Pending(s))
    /\ DetectResults(s.send \o x) = Wanted(s)

\* A line that stops sends what is buffered first, but for reasoning.
LEMMA ProcessEnds ==
  ASSUME NEW e \in BOOLEAN, NEW s, PumpOK(e, s), NEW r, Proper(e, r), r.stop
  PROVE  LET v == Process(s, r)
         IN  /\ PumpOK(e, v) /\ v.cur = r.next /\ Ends(e, s, v)
             /\ (Buffered(s) => s.timer) => (Buffered(v) => v.timer)
<1> DEFINE v == Process(s, r)
           t == Recast(s, r)
           f == FlushAtStop(t)
           last == IF r.bad # "" THEN r ELSE [r EXCEPT !.id = f.id]
           mark == IF r.bad # "" THEN f.id ELSE 0
<1>1. v = IF r.bad # "" THEN [f EXCEPT !.send = Append(@, r)]
          ELSE [f EXCEPT !.send = Append(@, [r EXCEPT !.id = f.id]), !.id = 0]
  BY DEF Process, Recast
<1>2. r \in Results /\ s \in Pumps /\ s.send \in Seq(Results)
  BY DEF Proper, PumpOK, Pumps
<1> HIDE DEF v, t
<1>4. /\ PumpOK(e, t) /\ t.send = s.send /\ t.timer = s.timer /\ t.cur = r.next
      /\ Pending(t) = Pending(s) /\ Wanted(t) = Wanted(s) /\ Buffered(t) = Buffered(s)
  BY <1>2, RecastFacts DEF t
<1>5. /\ Alike(e, t, f) /\ f.text = <<>> /\ f.detect = <<>>
      /\ (Buffered(t) => t.timer) => (Buffered(f) => f.timer)
  <2>1. CASE t.text # <<>> \/ t.detect # <<>>
    <3>1. f = Flush(t, TRUE)
      BY <2>1 DEF FlushAtStop
    <3>2. Alike(e, t, f) /\ ~Buffered(f)
      BY <1>4, <3>1, FlushKeeps
    <3> HIDE DEF f
    <3>3. f.text = <<>> /\ f.detect = <<>>
      BY <3>2 DEF Buffered
    <3> QED BY <3>2, <3>3
  <2>2. CASE ~(t.text # <<>> \/ t.detect # <<>>)
    <3>1. f = t
      BY <2>2 DEF FlushAtStop
    <3> HIDE DEF f
    <3> QED BY <1>4, <2>2, <3>1, PendingType, FollowsItself DEF Alike
  <2> QED BY <2>1, <2>2
<1> HIDE DEF f
<1>6. /\ PumpOK(e, f) /\ f \in Pumps /\ f.cur = r.next /\ f.id \in Nat
      /\ f.send \in Seq(Results) /\ f.think \in Texts
      /\ Pending(f) = Pending(s) /\ Wanted(f) = Wanted(s)
  BY <1>4, <1>5 DEF Alike, PumpOK, Pumps
<1>7. Proper(e, last) /\ last.stop /\ last \in Results
  BY <1>2, <1>6 DEF Proper, Results
<1>8. mark \in Nat
  BY <1>6
<1>9. v = [f EXCEPT !.send = Append(f.send, last), !.id = mark]
  <2>1. f = [f EXCEPT !.id = f.id]
    BY <1>6 DEF Pumps
  <2>2. CASE r.bad # ""
    <3>1. v = [f EXCEPT !.send = Append(f.send, r)] /\ last = r /\ mark = f.id
      BY <1>1, <2>2
    <3> HIDE DEF last, mark
    <3> QED BY <1>6, <3>1 DEF Pumps
  <2>3. CASE r.bad = ""
    BY <1>1, <2>3
  <2> QED BY <2>2, <2>3
<1> HIDE DEF last, mark
<1>10. Proven(e, f.send)
  BY <1>6 DEF PumpOK
<1>11. Proven(e, Append(f.send, last)) /\ Append(f.send, last) = f.send \o <<last>> /\ Append(f.send, last) \in Seq(Results)
  <2> DEFINE rs == f.send
  <2>1. rs \in Seq(Results) /\ Proven(e, rs)
    BY <1>6, <1>10
  <2> HIDE DEF rs
  <2>2. Proven(e, Append(rs, last)) /\ Append(rs, last) = rs \o <<last>>
    BY <1>7, <2>1, OneMore
  <2>3. Append(rs, last) \in Seq(Results)
    BY <1>7, <2>1
  <2> QED BY <2>2, <2>3 DEF rs
<1>12. /\ v \in Pumps /\ v.send = f.send \o <<last>> /\ v.text = f.text /\ v.think = f.think /\ v.detect = f.detect
       /\ v.timer = f.timer /\ v.cur = r.next
  <2> DEFINE sent == Append(f.send, last)
  <2>1. sent \in Seq(Results) /\ sent = f.send \o <<last>> /\ v = [f EXCEPT !.send = sent, !.id = mark]
    BY <1>9, <1>11
  <2> HIDE DEF sent
  <2>2. /\ v \in Pumps /\ v.send = sent /\ v.text = f.text /\ v.think = f.think /\ v.detect = f.detect
        /\ v.timer = f.timer /\ v.cur = f.cur
    BY <1>6, <1>8, <2>1 DEF Pumps
  <2> QED BY <1>6, <2>1, <2>2
<1>13. PumpOK(e, v)
  BY <1>6, <1>11, <1>12 DEF PumpOK
<1>14. (Buffered(s) => s.timer) => (Buffered(v) => v.timer)
  BY <1>4, <1>5, <1>12 DEF Buffered
<1>15. PICK x \in Seq(Results) : f.send = s.send \o x /\ Quiet(x)
  BY <1>4, <1>5 DEF Alike, Follows
<1> DEFINE a == FlatResults(f.send)
           k == Tag(f.think, "thinking")
<1>16. a \in Seq(Words) /\ k \in Seq(Words) /\ Answer(k) = <<>>
  BY <1>6, ResultsFacts, TagFacts, AnswerFacts DEF Types
<1>17. Pending(f) = a \o k
  <2>1. Tag(f.text, "text") = <<>>
    BY <1>5, TagFacts DEF Types
  <2>2. Flat(Waiting(f)) = k \o <<>>
    BY <1>6, <2>1, WaitingType
  <2>3. k \o <<>> = k
    <3> HIDE DEF k
    <3> QED BY <1>16, ConcatNothing
  <2> QED BY <2>2, <2>3 DEF Pending
<1>18. Answer(a) = Answer(Pending(s))
  <2> HIDE DEF a, k
  <2>1. Answer(a \o k) = Answer(a) \o <<>>
    BY <1>16, AnswerFacts
  <2>2. Answer(a) \o <<>> = Answer(a)
    BY <1>16, AnswerFacts, ConcatNothing
  <2> QED BY <1>6, <1>17, <2>1, <2>2
<1>19. DetectResults(f.send) = Wanted(s)
  <2> DEFINE b == DetectResults(f.send)
  <2>1. b \in Seq(STRING)
    BY <1>6, ResultsFacts DEF Texts
  <2>2. Wanted(f) = b \o <<>>
    BY <1>5 DEF Wanted
  <2> HIDE DEF b
  <2>3. b = Wanted(s)
    BY <1>6, <2>1, <2>2, ConcatNothing
  <2> QED BY <2>3 DEF b
<1>20. Ends(e, s, v)
  BY <1>7, <1>12, <1>15, <1>18, <1>19 DEF Ends
<1> QED BY <1>12, <1>13, <1>14, <1>20 DEF v

-----------------------------------------------------------------------------
(* The consumer that reads line after line (CollectStream).                *)

\* What the consumer that reads line after line has collected.
Collected == [cur : Types, stopped : BOOLEAN, flat : Seq(Words), detect : Texts]

LEMMA CollectLineFacts ==
  ASSUME NEW e \in BOOLEAN, NEW u \in Collected, NEW l \in Lines
  PROVE  /\ CollectLine(e, u, l) \in Collected
         /\ u.stopped => CollectLine(e, u, l) = u
         /\ ~u.stopped =>
              LET r == Meaning[e][u.cur][l]
              IN  CollectLine(e, u, l) = [cur |-> r.next, stopped |-> r.stop,
                                          flat |-> u.flat \o Flat(r.parts), detect |-> u.detect \o DetectText(r)]
<1> DEFINE r == Meaning[e][u.cur][l]
           v == [cur |-> r.next, stopped |-> r.stop, flat |-> u.flat \o Flat(r.parts),
                 detect |-> u.detect \o DetectText(r)]
<1>1. u.cur \in Types /\ u.stopped \in BOOLEAN /\ u.flat \in Seq(Words) /\ u.detect \in Texts
  BY DEF Collected
<1>2. r \in Results
  BY <1>1, MeaningType DEF Proper
<1>3. CollectLine(e, u, l) = IF u.stopped THEN u ELSE v
  BY DEF CollectLine, CollectParsed
<1> HIDE DEF r
<1>4. /\ r.next \in Types /\ r.stop \in BOOLEAN /\ Flat(r.parts) \in Seq(Words) /\ DetectText(r) \in Texts
  BY <1>2, FlatFacts, DetectFacts DEF Results
<1>5. u.flat \o Flat(r.parts) \in Seq(Words) /\ u.detect \o DetectText(r) \in Texts
  BY <1>1, <1>4 DEF Texts
<1>6. v \in Collected
  BY <1>4, <1>5 DEF Collected
<1> QED BY <1>3, <1>6 DEF r

LEMMA CollectFirstType ==
  ASSUME NEW e \in BOOLEAN
  PROVE  CollectFirst(e) \in Collected
<1>1. InitialType(e) \in Types /\ <<>> \in Seq(Words) /\ <<>> \in Texts
  BY DEF InitialType, Types, Texts
<1> QED BY <1>1 DEF CollectFirst, Collected

LEMMA CollectLoop ==
  ASSUME NEW e \in BOOLEAN, NEW lines \in Seq(Lines)
  PROVE  \E f : f = [i \in 0 .. Len(lines) |-> IF i = 0 THEN CollectFirst(e) ELSE CollectLine(e, f[i - 1], lines[i])]
<1> DEFINE V == Collected
           n == Len(lines)
           base == CollectFirst(e)
           step == [i \in Nat |-> [v \in V |-> IF i \in 1 .. n THEN CollectLine(e, v, lines[i]) ELSE v]]
<1>1. step \in [Nat -> [V -> V]]
  <2>1. ASSUME NEW i \in 1 .. n, NEW v \in V PROVE CollectLine(e, v, lines[i]) \in V
    <3>1. lines[i] \in Lines
      OBVIOUS
    <3> QED BY <3>1, CollectLineFacts
  <2> HIDE DEF V, n
  <2> QED BY <2>1
<1>2. n \in Nat /\ base \in V
  BY CollectFirstType
<1>3. \A i \in 1 .. n, v \in V : step[i][v] = CollectLine(e, v, lines[i])
  OBVIOUS
<1> HIDE DEF V, step, n, base
<1>4. PICK f \in [0 .. n -> V] : Iterates(f, n, base, step)
  BY <1>1, <1>2, Recursion
<1>5. \A i \in 1 .. n : f[i] = CollectLine(e, f[i - 1], lines[i])
  BY <1>2, <1>3, <1>4 DEF Iterates
<1>6. f = [i \in 0 .. n |-> IF i = 0 THEN base ELSE CollectLine(e, f[i - 1], lines[i])]
  BY <1>2, <1>4, <1>5 DEF Iterates
<1> QED BY <1>6 DEF n, base

LEMMA CollectType ==
  ASSUME NEW e \in BOOLEAN, NEW lines \in Seq(Lines)
  PROVE  Collect(e, lines) \in Collected
<1> DEFINE g == CHOOSE f : f = [i \in 0 .. Len(lines) |-> IF i = 0 THEN CollectFirst(e) ELSE CollectLine(e, f[i - 1], lines[i])]
<1>1. g = [i \in 0 .. Len(lines) |-> IF i = 0 THEN CollectFirst(e) ELSE CollectLine(e, g[i - 1], lines[i])]
  BY CollectLoop, Zenon
<1>2. Collect(e, lines) = g[Len(lines)]
  BY DEF Collect
<1> HIDE DEF g
<1>3. Len(lines) \in Nat
  OBVIOUS
<1>4. g[0] \in Collected
  BY <1>1, <1>3, CollectFirstType
<1>5. ASSUME NEW i \in 1 .. Len(lines), g[i - 1] \in Collected PROVE g[i] \in Collected
  <2>1. g[i] = CollectLine(e, g[i - 1], lines[i])
    BY <1>1, <1>3
  <2>2. lines[i] \in Lines
    OBVIOUS
  <2> QED BY <1>5, <2>1, <2>2, CollectLineFacts
<1>6. \A i \in 0 .. Len(lines) : g[i] \in Collected
  BY <1>3, <1>4, <1>5, LoopType
<1> QED BY <1>2, <1>3, <1>6

LEMMA CollectNothing ==
  ASSUME NEW e \in BOOLEAN
  PROVE  Collect(e, <<>>) = CollectFirst(e)
<1> DEFINE f == CHOOSE h : h = [i \in 0 .. Len(<<>>) |-> IF i = 0 THEN CollectFirst(e) ELSE CollectLine(e, h[i - 1], <<>>[i])]
<1>1. <<>> \in Seq(Lines) /\ Len(<<>>) = 0
  OBVIOUS
<1>2. f = [i \in 0 .. Len(<<>>) |-> IF i = 0 THEN CollectFirst(e) ELSE CollectLine(e, f[i - 1], <<>>[i])]
  <2>1. \A l \in Seq(Lines) : \E h : h = [i \in 0 .. Len(l) |-> IF i = 0 THEN CollectFirst(e) ELSE CollectLine(e, h[i - 1], l[i])]
    BY CollectLoop
  <2>2. \E h : h = [i \in 0 .. Len(<<>>) |-> IF i = 0 THEN CollectFirst(e) ELSE CollectLine(e, h[i - 1], <<>>[i])]
    BY <1>1, <2>1
  <2> QED BY <2>2, Zenon
<1>3. Collect(e, <<>>) = f[Len(<<>>)]
  BY DEF Collect
<1> HIDE DEF f
<1> QED BY <1>1, <1>2, <1>3

LEMMA CollectAppend ==
  ASSUME NEW e \in BOOLEAN, NEW lines \in Seq(Lines), NEW x \in Lines
  PROVE  Collect(e, Append(lines, x)) = CollectLine(e, Collect(e, lines), x)
<1> DEFINE long == Append(lines, x)
           n == Len(lines)
           f == CHOOSE h : h = [i \in 0 .. Len(lines) |-> IF i = 0 THEN CollectFirst(e) ELSE CollectLine(e, h[i - 1], lines[i])]
           g == CHOOSE h : h = [i \in 0 .. Len(long) |-> IF i = 0 THEN CollectFirst(e) ELSE CollectLine(e, h[i - 1], long[i])]
<1>1. f = [i \in 0 .. Len(lines) |-> IF i = 0 THEN CollectFirst(e) ELSE CollectLine(e, f[i - 1], lines[i])]
  BY CollectLoop, Zenon
<1>2. Collect(e, lines) = f[Len(lines)]
  BY DEF Collect
<1>3. /\ long \in Seq(Lines) /\ n \in Nat /\ Len(long) = n + 1 /\ long[n + 1] = x
      /\ \A i \in 1 .. n : long[i] = lines[i]
  OBVIOUS
<1>0. n = Len(lines)
  OBVIOUS
<1> HIDE DEF f, long, n
<1>4. g = [i \in 0 .. Len(long) |-> IF i = 0 THEN CollectFirst(e) ELSE CollectLine(e, g[i - 1], long[i])]
  BY <1>3, CollectLoop, Zenon
<1>5. Collect(e, long) = g[Len(long)]
  BY DEF Collect
<1> HIDE DEF g
<1>6. f[0] = g[0]
  BY <1>0, <1>1, <1>3, <1>4
<1>7. \A i \in 1 .. n : f[i - 1] = g[i - 1] => f[i] = g[i]
  <2> SUFFICES ASSUME NEW i \in 1 .. n, f[i - 1] = g[i - 1] PROVE f[i] = g[i]
    OBVIOUS
  <2>1. f[i] = CollectLine(e, f[i - 1], lines[i])
    <3>1. i \in 0 .. Len(lines) /\ i # 0
      BY <1>0, <1>3
    <3> QED BY <1>1, <3>1, Zenon
  <2>2. g[i] = CollectLine(e, g[i - 1], long[i])
    <3>1. i \in 0 .. Len(long) /\ i # 0
      BY <1>3
    <3> QED BY <1>4, <3>1, Zenon
  <2> QED BY <1>3, <2>1, <2>2
<1>8. f[n] = g[n]
  <2>0. n \in Nat
    BY <1>3
  <2>1. SameTurns(n, f, g)
    BY <1>6, <1>7 DEF SameTurns
  <2> QED BY <2>0, <2>1, LoopsEnd
<1>9. g[n + 1] = CollectLine(e, g[n], long[n + 1])
  <2>1. n + 1 \in 0 .. Len(long) /\ n + 1 # 0 /\ (n + 1) - 1 = n
    BY <1>3
  <2>2. g[n + 1] = CollectLine(e, g[(n + 1) - 1], long[n + 1])
    BY <1>4, <2>1, Zenon
  <2> QED BY <2>1, <2>2
<1> QED BY <1>0, <1>2, <1>3, <1>5, <1>8, <1>9 DEF long

\* One line more of those read.
LEMMA CollectNext ==
  ASSUME NEW e \in BOOLEAN, NEW lines \in Seq(Lines), NEW i \in Nat, i < Len(lines)
  PROVE  /\ Collect(e, SubSeq(lines, 1, i)) \in Collected /\ lines[i + 1] \in Lines
         /\ Collect(e, SubSeq(lines, 1, i + 1)) = CollectLine(e, Collect(e, SubSeq(lines, 1, i)), lines[i + 1])
<1>1. /\ SubSeq(lines, 1, i) \in Seq(Lines) /\ lines[i + 1] \in Lines
      /\ SubSeq(lines, 1, i + 1) = Append(SubSeq(lines, 1, i), lines[i + 1])
  BY FirstsMore
<1> DEFINE u == SubSeq(lines, 1, i)
<1> HIDE DEF u
<1>2. Collect(e, Append(u, lines[i + 1])) = CollectLine(e, Collect(e, u), lines[i + 1]) /\ Collect(e, u) \in Collected
  BY <1>1, CollectAppend, CollectType DEF u
<1> QED BY <1>1, <1>2 DEF u

\* The lines behind one that stops say nothing.
LEMMA CollectStops ==
  ASSUME NEW e \in BOOLEAN, NEW lines \in Seq(Lines), NEW n \in Nat, n <= Len(lines),
         Collect(e, SubSeq(lines, 1, n)).stopped
  PROVE  Collect(e, lines) = Collect(e, SubSeq(lines, 1, n))
<1> DEFINE u == Collect(e, SubSeq(lines, 1, n))
           T == {k \in Nat : n + k <= Len(lines) => Collect(e, SubSeq(lines, 1, n + k)) = u}
<1>0. Len(lines) \in Nat /\ u.stopped
  OBVIOUS
<1>1. 0 \in T
  OBVIOUS
<1> HIDE DEF u
<1>2. ASSUME NEW k \in T PROVE k + 1 \in T
  <2>1. k \in Nat
    OBVIOUS
  <2> SUFFICES ASSUME n + (k + 1) <= Len(lines) PROVE Collect(e, SubSeq(lines, 1, n + (k + 1))) = u
    BY <2>1
  <2>2. n + k \in Nat /\ n + k < Len(lines) /\ n + k <= Len(lines) /\ n + (k + 1) = (n + k) + 1
    BY <1>0, <2>1
  <2>3. Collect(e, SubSeq(lines, 1, n + k)) = u
    BY <2>2
  <2> DEFINE j == n + k
  <2> HIDE DEF j
  <2>4. /\ Collect(e, SubSeq(lines, 1, j)) \in Collected /\ lines[j + 1] \in Lines
        /\ Collect(e, SubSeq(lines, 1, j + 1)) = CollectLine(e, Collect(e, SubSeq(lines, 1, j)), lines[j + 1])
    BY <2>2, CollectNext DEF j
  <2>5. CollectLine(e, u, lines[j + 1]) = u
    BY <1>0, <2>3, <2>4, CollectLineFacts DEF j
  <2> QED BY <2>2, <2>3, <2>4, <2>5 DEF j
<1>3. T \in SUBSET Nat
  OBVIOUS
<1>4. Len(lines) - n \in T
  <2> HIDE DEF T
  <2>1. T = Nat
    BY <1>1, <1>2, <1>3, Induction
  <2> QED BY <1>0, <2>1
<1>5. n + (Len(lines) - n) = Len(lines)
  BY <1>0
<1>6. Collect(e, SubSeq(lines, 1, Len(lines))) = u
  BY <1>0, <1>4, <1>5
<1> QED BY <1>6, FirstsAll DEF u

-----------------------------------------------------------------------------
(* The pump and the consumer, line after line.                             *)

\* The answer as the reader sees it after the results x.
Sees(x, u) == Answer(FlatResults(x)) = Answer(u.flat) /\ DetectResults(x) = u.detect

\* The results are those of an answer that has ended, and perhaps more behind it.
Cut(all, u) ==
  \E x \in Seq(Results), last \in Results, y \in Seq(Results) :
    all = (x \o <<last>>) \o y /\ last.stop /\ Quiet(x) /\ Sees(x, u)

\* The results, and what the pump has buffered, are what u has collected.
Kept(all, s, u) ==
  /\ u.stopped => Cut(all, u)
  /\ ~u.stopped =>
       /\ Quiet(all) /\ s.cur = u.cur
       /\ u.flat = FlatResults(all) \o Flat(Waiting(s))
       /\ u.detect = DetectResults(all) \o s.detect

LEMMA QuietConcat ==
  ASSUME NEW x \in Seq(Results), NEW y \in Seq(Results)
  PROVE  Quiet(x \o y) <=> Quiet(x) /\ Quiet(y)
<1> DEFINE w == x \o y
<1>1. /\ w \in Seq(Results) /\ Len(x) \in Nat /\ Len(y) \in Nat /\ Len(w) = Len(x) + Len(y)
      /\ \A i \in 1 .. Len(x) : w[i] = x[i]
      /\ \A i \in 1 .. Len(y) : w[Len(x) + i] = y[i]
  BY ConcatAt
<1>2. DOMAIN w = 1 .. Len(w) /\ DOMAIN x = 1 .. Len(x) /\ DOMAIN y = 1 .. Len(y)
  OBVIOUS
<1> HIDE DEF w
<1>3. ASSUME Quiet(w) PROVE Quiet(x) /\ Quiet(y)
  <2>1. \A i \in 1 .. Len(x) : i \in 1 .. Len(w)
    BY <1>1
  <2>2. \A i \in 1 .. Len(y) : Len(x) + i \in 1 .. Len(w)
    BY <1>1
  <2> QED BY <1>1, <1>2, <1>3, <2>1, <2>2 DEF Quiet
<1>4. ASSUME Quiet(x), Quiet(y) PROVE Quiet(w)
  <2> SUFFICES ASSUME NEW i \in 1 .. Len(w) PROVE ~w[i].stop
    BY <1>2 DEF Quiet
  <2>1. CASE i <= Len(x)
    BY <1>1, <1>2, <1>4, <2>1 DEF Quiet
  <2>2. CASE ~(i <= Len(x))
    <3> DEFINE k == i - Len(x)
    <3>1. k \in 1 .. Len(y) /\ i = Len(x) + k
      BY <1>1, <2>2
    <3> HIDE DEF k
    <3> QED BY <1>1, <1>2, <1>4, <3>1 DEF Quiet
  <2> QED BY <2>1, <2>2
<1> QED BY <1>3, <1>4 DEF w

\* All that has been told, with what is waiting, from what was sent before.
LEMMA AllPending ==
  ASSUME NEW e \in BOOLEAN, NEW go \in Seq(Results), NEW s, PumpOK(e, s)
  PROVE  /\ go \o s.send \in Seq(Results)
         /\ FlatResults(go \o s.send) \o Flat(Waiting(s)) = FlatResults(go) \o Pending(s)
         /\ DetectResults(go \o s.send) \o s.detect = DetectResults(go) \o Wanted(s)
         /\ FlatResults(go) \in Seq(Words) /\ DetectResults(go) \in Seq(STRING)
<1> DEFINE a == FlatResults(go)
           b == FlatResults(s.send)
           c == Flat(Waiting(s))
           p == DetectResults(go)
           q == DetectResults(s.send)
           d == s.detect
<1>1. s \in Pumps /\ s.send \in Seq(Results) /\ d \in Texts
  BY DEF PumpOK, Pumps
<1>2. a \in Seq(Words) /\ b \in Seq(Words) /\ c \in Seq(Words)
  BY <1>1, ResultsFacts, WaitingType, FlatFacts
<1>3. p \in Seq(STRING) /\ q \in Seq(STRING) /\ d \in Seq(STRING)
  BY <1>1, ResultsFacts DEF Texts
<1>4. FlatResults(go \o s.send) = a \o b /\ DetectResults(go \o s.send) = p \o q /\ go \o s.send \in Seq(Results)
  <2> DEFINE z == s.send
  <2>1. z \in Seq(Results)
    BY <1>1
  <2> HIDE DEF z
  <2>2. FlatResults(go \o z) = FlatResults(go) \o FlatResults(z) /\ DetectResults(go \o z) = DetectResults(go) \o DetectResults(z)
    BY <2>1, ResultsFacts
  <2>3. go \o z \in Seq(Results)
    BY <2>1
  <2> QED BY <2>2, <2>3 DEF z
<1>5. Pending(s) = b \o c /\ Wanted(s) = q \o d
  BY DEF Pending, Wanted
<1> HIDE DEF a, b, c, p, q, d
<1>6. (a \o b) \o c = a \o (b \o c)
  BY <1>2, ConcatAssociative, SMTT(30)
<1>7. (p \o q) \o d = p \o (q \o d)
  BY <1>3, ConcatAssociative
<1> QED BY <1>2, <1>3, <1>4, <1>5, <1>6, <1>7 DEF a, c, p, d

\* More results behind the end change nothing.
LEMMA CutMore ==
  ASSUME NEW all \in Seq(Results), NEW z \in Seq(Results), NEW u, Cut(all, u)
  PROVE  Cut(all \o z, u)
<1>1. PICK x \in Seq(Results), last \in Results, y \in Seq(Results) :
        all = (x \o <<last>>) \o y /\ last.stop /\ Quiet(x) /\ Sees(x, u)
  BY DEF Cut
<1>2. y \o z \in Seq(Results) /\ x \o <<last>> \in Seq(Results)
  OBVIOUS
<1>3. all \o z = (x \o <<last>>) \o (y \o z)
  <2> DEFINE w == x \o <<last>>
  <2>1. w \in Seq(Results) /\ all = w \o y
    BY <1>1, <1>2
  <2> HIDE DEF w
  <2>2. (w \o y) \o z = w \o (y \o z)
    BY <2>1, ConcatAssociative
  <2> QED BY <2>1, <2>2 DEF w
<1> QED BY <1>1, <1>2, <1>3 DEF Cut

\* A pump that only sends pieces and keeps what it has to tell keeps the agreement.
LEMMA KeptAlike ==
  ASSUME NEW e \in BOOLEAN, NEW go \in Seq(Results), NEW s, PumpOK(e, s), NEW u \in Collected,
         Kept(go \o s.send, s, u), NEW t, Alike(e, s, t)
  PROVE  Kept(go \o t.send, t, u)
<1>1. PumpOK(e, t) /\ t.cur = s.cur /\ Pending(t) = Pending(s) /\ Wanted(t) = Wanted(s)
  BY DEF Alike
<1>2. PICK z \in Seq(Results) : t.send = s.send \o z /\ Quiet(z)
  BY DEF Alike, Follows
<1>3. go \o t.send = (go \o s.send) \o z /\ go \o s.send \in Seq(Results) /\ go \o t.send \in Seq(Results)
  <2> DEFINE a == s.send
  <2>1. a \in Seq(Results)
    BY PendingType
  <2> HIDE DEF a
  <2>2. (go \o a) \o z = go \o (a \o z) /\ go \o a \in Seq(Results) /\ go \o (a \o z) \in Seq(Results)
    BY <2>1, ConcatAssociative
  <2> QED BY <1>2, <2>2 DEF a
<1> DEFINE old == go \o s.send
           new == go \o t.send
<1>4. /\ FlatResults(new) \o Flat(Waiting(t)) = FlatResults(old) \o Flat(Waiting(s))
      /\ DetectResults(new) \o t.detect = DetectResults(old) \o s.detect
  <2>1. /\ FlatResults(new) \o Flat(Waiting(t)) = FlatResults(go) \o Pending(t)
        /\ DetectResults(new) \o t.detect = DetectResults(go) \o Wanted(t)
    BY <1>1, AllPending
  <2>2. /\ FlatResults(old) \o Flat(Waiting(s)) = FlatResults(go) \o Pending(s)
        /\ DetectResults(old) \o s.detect = DetectResults(go) \o Wanted(s)
    BY AllPending
  <2> QED BY <1>1, <2>1, <2>2
<1>5. new = old \o z /\ old \in Seq(Results)
  BY <1>3
<1> HIDE DEF old, new
<1>6. CASE u.stopped
  <2>1. Cut(new, u)
    BY <1>5, <1>6, CutMore DEF Kept, old
  <2> QED BY <1>6, <2>1 DEF Kept, new
<1>7. CASE ~u.stopped
  <2>1. Quiet(old) /\ s.cur = u.cur
    BY <1>7 DEF Kept, old
  <2>2. Quiet(new)
    BY <1>2, <1>5, <2>1, QuietConcat
  <2>3. u.flat = FlatResults(old) \o Flat(Waiting(s)) /\ u.detect = DetectResults(old) \o s.detect
    BY <1>7 DEF Kept, old
  <2> QED BY <1>1, <1>4, <1>7, <2>1, <2>2, <2>3 DEF Kept, new
<1> QED BY <1>6, <1>7

\* Once the answer has ended, whatever else is sent keeps the agreement.
LEMMA KeptBehind ==
  ASSUME NEW go \in Seq(Results), NEW a \in Seq(Results), NEW z \in Seq(Results), NEW s, NEW t, NEW u,
         u.stopped, Kept(go \o a, s, u)
  PROVE  Kept(go \o (a \o z), t, u)
<1> DEFINE old == go \o a
<1>1. old \in Seq(Results) /\ go \o (a \o z) = old \o z
  BY ConcatAssociative
<1> HIDE DEF old
<1>2. Cut(old, u)
  BY DEF Kept, old
<1>3. Cut(old \o z, u)
  BY <1>1, <1>2, CutMore
<1> QED BY <1>1, <1>3 DEF Kept

\* A line that stops ends the answer where the consumer of lines ends it.
LEMMA CutHere ==
  ASSUME NEW e \in BOOLEAN, NEW go \in Seq(Results), NEW s, PumpOK(e, s), NEW t, Ends(e, s, t),
         NEW u, Quiet(go \o s.send), u.flat = FlatResults(go) \o Pending(s), u.detect = DetectResults(go) \o Wanted(s)
  PROVE  Cut(go \o t.send, u)
<1> DEFINE a == s.send
<1>1. a \in Seq(Results) /\ Pending(s) \in Seq(Words) /\ Quiet(go \o a)
  BY PendingType
<1> HIDE DEF a
<1>2. PICK x \in Seq(Results), last \in Results :
        /\ t.send = (a \o x) \o <<last>> /\ last.stop /\ Quiet(x)
        /\ Answer(FlatResults(a \o x)) = Answer(Pending(s)) /\ DetectResults(a \o x) = Wanted(s)
  BY DEF Ends, a
<1> DEFINE b == a \o x
<1>3. b \in Seq(Results) /\ go \o b = (go \o a) \o x /\ go \o a \in Seq(Results) /\ go \o b \in Seq(Results)
  <2>1. (go \o a) \o x = go \o (a \o x)
    BY <1>1, ConcatAssociative
  <2>2. a \o x \in Seq(Results) /\ go \o a \in Seq(Results) /\ go \o (a \o x) \in Seq(Results)
    BY <1>1
  <2> QED BY <2>1, <2>2
<1> HIDE DEF b
<1>4. <<last>> \in Seq(Results) /\ <<>> \in Seq(Results)
  OBVIOUS
<1>5. go \o t.send = ((go \o b) \o <<last>>) \o <<>>
  <2>1. go \o (b \o <<last>>) = (go \o b) \o <<last>>
    <3> DEFINE end == <<last>>
    <3>1. b \in Seq(Results) /\ end \in Seq(Results)
      BY <1>3, <1>4
    <3> HIDE DEF end
    <3>2. (go \o b) \o end = go \o (b \o end)
      BY <3>1, ConcatAssociative, SMTT(30)
    <3> QED BY <3>2 DEF end
  <2> DEFINE z == (go \o b) \o <<last>>
  <2>2. z \in Seq(Results)
    BY <1>3, <1>4
  <2> HIDE DEF z
  <2>3. z \o <<>> = z
    BY <2>2, ConcatNothing
  <2> QED BY <1>2, <2>1, <2>3 DEF b, z
<1>6. Quiet(go \o b)
  BY <1>1, <1>2, <1>3, QuietConcat
<1> DEFINE f == FlatResults(go)
           g == FlatResults(b)
<1>7. f \in Seq(Words) /\ g \in Seq(Words) /\ FlatResults(go \o b) = f \o g
  BY <1>3, ResultsFacts
<1>8. DetectResults(go \o b) = DetectResults(go) \o DetectResults(b)
  BY <1>3, ResultsFacts
<1>9. Answer(g) = Answer(Pending(s)) /\ DetectResults(b) = Wanted(s)
  BY <1>2 DEF b
<1>10. Sees(go \o b, u)
  <2>0. u.flat = f \o Pending(s)
    OBVIOUS
  <2> HIDE DEF f, g
  <2>1. Answer(f \o g) = Answer(f) \o Answer(g)
    BY <1>7, AnswerFacts
  <2>2. Answer(f \o Pending(s)) = Answer(f) \o Answer(Pending(s))
    BY <1>1, <1>7, AnswerFacts
  <2>3. Answer(FlatResults(go \o b)) = Answer(u.flat)
    BY <1>7, <1>9, <2>0, <2>1, <2>2
  <2> QED BY <1>8, <1>9, <2>3 DEF Sees
<1> QED BY <1>2, <1>3, <1>4, <1>5, <1>6, <1>10 DEF Cut

\* The pump and the consumer of lines take the same line.
LEMMA KeptLine ==
  ASSUME NEW e \in BOOLEAN, NEW go \in Seq(Results), NEW s, PumpOK(e, s), NEW u \in Collected, NEW l \in Lines,
         Kept(go \o s.send, s, u)
  PROVE  LET v == Process(s, Meaning[e][s.cur][l])
         IN  /\ PumpOK(e, v) /\ v.cur \in Types /\ (Buffered(s) => s.timer) => (Buffered(v) => v.timer)
             /\ Kept(go \o v.send, v, CollectLine(e, u, l))
<1> DEFINE r == Meaning[e][s.cur][l]
           v == Process(s, r)
           w == CollectLine(e, u, l)
<1>1. s.cur \in Types /\ s \in Pumps /\ s.send \in Seq(Results) /\ Pending(s) \in Seq(Words) /\ Wanted(s) \in Seq(STRING)
  BY PendingType
<1>2. Proper(e, r) /\ (~r.parsed => r.parts = <<>> /\ r.detect = <<>>)
  BY <1>1, MeaningType
<1>3. /\ r \in Results /\ r.next \in Types /\ r.stop \in BOOLEAN
      /\ Flat(r.parts) \in Seq(Words) /\ DetectText(r) \in Seq(STRING)
      /\ r.stop => Flat(r.parts) = <<>> /\ DetectText(r) = <<>>
  BY <1>2, FlatFacts, DetectFacts DEF Proper, Results, Texts
<1>4. /\ u.stopped => w = u
      /\ ~u.stopped /\ s.cur = u.cur => w = [cur |-> r.next, stopped |-> r.stop, flat |-> u.flat \o Flat(r.parts),
                                             detect |-> u.detect \o DetectText(r)]
  <2>1. /\ u.stopped => CollectLine(e, u, l) = u
        /\ ~u.stopped => LET k == Meaning[e][u.cur][l]
                         IN  CollectLine(e, u, l) = [cur |-> k.next, stopped |-> k.stop, flat |-> u.flat \o Flat(k.parts),
                                                     detect |-> u.detect \o DetectText(k)]
    BY CollectLineFacts
  <2> QED BY <2>1
<1> HIDE DEF r, v, w
<1>5. /\ ~r.stop => /\ PumpOK(e, v) /\ v.cur = r.next /\ Follows(s, v)
                    /\ Pending(v) = Pending(s) \o Flat(r.parts) /\ Wanted(v) = Wanted(s) \o DetectText(r)
                    /\ (Buffered(s) => s.timer) => (Buffered(v) => v.timer)
      /\ r.stop => /\ PumpOK(e, v) /\ v.cur = r.next /\ Ends(e, s, v)
                   /\ (Buffered(s) => s.timer) => (Buffered(v) => v.timer)
  BY <1>2, ProcessAdds, ProcessEnds DEF v
<1>6. PumpOK(e, v) /\ v.cur = r.next /\ v.cur \in Types /\ ((Buffered(s) => s.timer) => (Buffered(v) => v.timer))
  BY <1>3, <1>5
<1>7. CASE u.stopped
  <2>1. \E z \in Seq(Results) : v.send = s.send \o z
    <3>1. CASE ~r.stop
      BY <1>5, <3>1 DEF Follows
    <3>2. CASE r.stop
      <4>1. PICK x \in Seq(Results), last \in Results : v.send = (s.send \o x) \o <<last>>
        BY <1>5, <3>2 DEF Ends
      <4> DEFINE a == s.send
      <4>2. a \in Seq(Results) /\ <<last>> \in Seq(Results) /\ x \o <<last>> \in Seq(Results)
        BY <1>1
      <4> HIDE DEF a
      <4>3. (a \o x) \o <<last>> = a \o (x \o <<last>>)
        BY <4>2, ConcatAssociative
      <4> QED BY <4>1, <4>2, <4>3 DEF a
    <3> QED BY <1>3, <3>1, <3>2
  <2>2. PICK z \in Seq(Results) : v.send = s.send \o z
    BY <2>1
  <2> DEFINE a == s.send
  <2>3. a \in Seq(Results) /\ Kept(go \o a, s, u)
    BY <1>1
  <2> HIDE DEF a
  <2>4. Kept(go \o (a \o z), v, u)
    BY <1>7, <2>3, KeptBehind
  <2>5. Kept(go \o v.send, v, w)
    BY <1>4, <1>7, <2>2, <2>4 DEF a
  <2> QED BY <1>6, <2>5 DEF v, r, w
<1>8. CASE ~u.stopped
  <2>1. Quiet(go \o s.send) /\ s.cur = u.cur /\ u.flat = FlatResults(go \o s.send) \o Flat(Waiting(s))
        /\ u.detect = DetectResults(go \o s.send) \o s.detect
    BY <1>8 DEF Kept
  <2> DEFINE f == FlatResults(go)
             d == DetectResults(go)
             x == Flat(r.parts)
             y == DetectText(r)
  <2>2. f \in Seq(Words) /\ d \in Seq(STRING) /\ u.flat = f \o Pending(s) /\ u.detect = d \o Wanted(s)
    BY <2>1, AllPending
  <2>3. w.cur = r.next /\ w.stopped = r.stop /\ w.flat = u.flat \o x /\ w.detect = u.detect \o y
    <3>1. w = [cur |-> r.next, stopped |-> r.stop, flat |-> u.flat \o x, detect |-> u.detect \o y]
      BY <1>4, <1>8, <2>1
    <3> QED BY <3>1
  <2>4. CASE ~r.stop
    <3>1. PICK z \in Seq(Results) : v.send = s.send \o z /\ Quiet(z)
      BY <1>5, <2>4 DEF Follows
    <3>2. Quiet(go \o v.send)
      <4> DEFINE a == s.send
      <4>1. a \in Seq(Results) /\ Quiet(go \o a)
        BY <1>1, <2>1
      <4> HIDE DEF a
      <4>2. go \o (a \o z) = (go \o a) \o z /\ go \o a \in Seq(Results)
        BY <4>1, ConcatAssociative
      <4>3. Quiet((go \o a) \o z)
        BY <3>1, <4>1, <4>2, QuietConcat
      <4> QED BY <3>1, <4>2, <4>3 DEF a
    <3>3. /\ FlatResults(go \o v.send) \o Flat(Waiting(v)) = f \o Pending(v)
          /\ DetectResults(go \o v.send) \o v.detect = d \o Wanted(v)
      BY <1>6, AllPending
    <3>4. Pending(v) = Pending(s) \o x /\ Wanted(v) = Wanted(s) \o y
      BY <1>5, <2>4
    <3>5. x \in Seq(Words) /\ y \in Seq(STRING)
      BY <1>3
    <3> HIDE DEF f, d, x, y
    <3>6. (f \o Pending(s)) \o x = f \o (Pending(s) \o x)
      <4> DEFINE q == Pending(s)
      <4>1. f \in Seq(Words) /\ q \in Seq(Words) /\ x \in Seq(Words)
        BY <1>1, <2>2, <3>5
      <4> HIDE DEF q
      <4>2. (f \o q) \o x = f \o (q \o x)
        BY <4>1, ConcatAssociative
      <4> QED BY <4>2 DEF q
    <3>7. (d \o Wanted(s)) \o y = d \o (Wanted(s) \o y)
      <4> DEFINE q == Wanted(s)
      <4>1. d \in Seq(STRING) /\ q \in Seq(STRING) /\ y \in Seq(STRING)
        BY <1>1, <2>2, <3>5
      <4> HIDE DEF q
      <4>2. (d \o q) \o y = d \o (q \o y)
        BY <4>1, ConcatAssociative
      <4> QED BY <4>2 DEF q
    <3>8. /\ w.flat = FlatResults(go \o v.send) \o Flat(Waiting(v))
          /\ w.detect = DetectResults(go \o v.send) \o v.detect
      BY <2>2, <2>3, <3>3, <3>4, <3>6, <3>7
    <3>9. Kept(go \o v.send, v, w)
      BY <1>6, <2>3, <2>4, <3>2, <3>8 DEF Kept
    <3> QED BY <1>6, <3>9 DEF v, r, w
  <2>5. CASE r.stop
    <3>1. x = <<>> /\ y = <<>>
      BY <1>3, <2>5
    <3>2. u.flat \o <<>> = u.flat /\ u.detect \o <<>> = u.detect
      <4>1. u.flat \in Seq(Words) /\ u.detect \in Seq(STRING)
        BY DEF Collected, Texts
      <4> QED BY <4>1, ConcatNothing
    <3>3. w.flat = f \o Pending(s) /\ w.detect = d \o Wanted(s)
      BY <2>2, <2>3, <3>1, <3>2
    <3>4. Ends(e, s, v)
      BY <1>5, <2>5
    <3>5. Cut(go \o v.send, w)
      BY <2>1, <3>3, <3>4, CutHere
    <3>6. Kept(go \o v.send, v, w)
      BY <2>3, <2>5, <3>5 DEF Kept
    <3> QED BY <1>6, <3>6 DEF v, r, w
  <2> QED BY <1>3, <2>4, <2>5
<1> QED BY <1>7, <1>8

-----------------------------------------------------------------------------
(* The inductive invariant.                                                *)

Engines == [pc : {"running", "finalized", "context_done"},
            reason : {"", "stop", "upstream_completed", "idle_timeout", "no_content_timeout"},
            content : BOOLEAN, quiet : Nat]

Sofar == Collect(enabled, SubSeq(read, 1, taken))

\* The scanner and the engine.
PumpShapes ==
  /\ enabled \in BOOLEAN /\ pumping \in BOOLEAN /\ gone \in BOOLEAN
  /\ read \in Seq(Lines) /\ Len(read) <= MaxLines /\ taken \in 0 .. Len(read)
  /\ scan \in {"reading", "eof", "broken"} /\ engine \in Engines
\* What is under way may be given to the handler.
Held ==
  /\ PumpOK(enabled, pump) /\ Proven(enabled, out) /\ Len(out) <= BufferSize /\ Proven(enabled, got)
\* The timer runs for what is buffered, and the pump ends with nothing buffered.
Timed ==
  /\ ~pumping => ~Buffered(pump) /\ ~pump.timer
  /\ pumping /\ Buffered(pump) => pump.timer
\* Unless it was cancelled, the pump ends when the lines do.
Drained == ~pumping /\ ~gone => taken = Len(read) /\ scan # "reading"
\* Until the request is cancelled nothing is lost.
Agrees == ~gone => Kept((got \o out) \o pump.send, pump, Sofar)
\* The engine goes on until the answer ends, and reports its end rightly.
Reports ==
  /\ EngineOn => Quiet(got) /\ engine.reason = ""
  /\ engine.reason = "stop" => Sofar.stopped /\ Sees(got, Sofar)
  /\ engine.reason = "upstream_completed" => scan # "reading" /\ Sees(got, Collect(enabled, read))

PumpInv == PumpShapes /\ Held /\ Timed /\ Drained /\ Agrees /\ Reports

LEMMA PumpStarts == PumpInit => PumpInv
<1> SUFFICES ASSUME PumpInit PROVE PumpInv
  OBVIOUS
<1>1. /\ enabled \in BOOLEAN /\ pumping = TRUE /\ read = <<>> /\ taken = 0 /\ scan = "reading" /\ out = <<>>
      /\ gone = FALSE /\ got = <<>>
      /\ pump = [cur |-> InitialType(enabled), text |-> <<>>, think |-> <<>>, detect |-> <<>>,
                 flushed |-> FALSE, timer |-> FALSE, id |-> 0, send |-> <<>>]
      /\ engine = [pc |-> "running", reason |-> "", content |-> FALSE, quiet |-> 0]
  BY DEF PumpInit
<1>2. <<>> \in Seq(Lines) /\ <<>> \in Seq(Results) /\ <<>> \in Seq(Words) /\ Len(<<>>) = 0 /\ <<>> \in Texts
      /\ InitialType(enabled) \in Types /\ <<>> \o <<>> = <<>>
  BY DEF Texts, InitialType, Types
<1>3. Proven(enabled, <<>>) /\ Quiet(<<>>)
  BY <1>2 DEF Proven, Quiet
<1>10. MaxLines \in Nat /\ BufferSize \in Nat
  BY PumpAssumption
<1>4. PumpShapes
  <2>1. engine \in Engines
    BY <1>1 DEF Engines
  <2>2. Len(read) = 0 /\ Len(read) <= MaxLines /\ taken \in 0 .. Len(read)
    <3>1. Len(read) = 0
      BY <1>1, Zenon
    <3>2. taken = 0
      BY <1>1
    <3> QED BY <1>10, <3>1, <3>2
  <2> QED BY <1>1, <1>2, <2>1, <2>2 DEF PumpShapes
<1>5. Held
  <2>1. pump \in Pumps
    BY <1>1, <1>2 DEF Pumps
  <2>2. PumpOK(enabled, pump)
    BY <1>1, <1>3, <2>1 DEF PumpOK
  <2>3. Len(out) <= BufferSize
    <3>1. Len(out) = 0
      BY <1>1
    <3> QED BY <1>10, <3>1
  <2> QED BY <1>1, <1>3, <2>2, <2>3 DEF Held
<1>6. ~Buffered(pump)
  BY <1>1 DEF Buffered
<1>7. Sofar = CollectFirst(enabled)
  <2>1. SubSeq(<<>>, 1, 0) = <<>>
    OBVIOUS
  <2> QED BY <1>1, <2>1, CollectNothing DEF Sofar
<1>8. Agrees
  <2>1. Flat(Waiting(pump)) = <<>>
    BY <1>1, EmptyTexts, FlatFacts DEF Waiting
  <2>2. FlatResults(<<>>) \o Flat(Waiting(pump)) = <<>> /\ DetectResults(<<>>) \o pump.detect = <<>>
    BY <1>1, <1>2, <2>1, ResultsFacts
  <2>3. (got \o out) \o pump.send = <<>>
    BY <1>1, <1>2
  <2>4. /\ ~CollectFirst(enabled).stopped /\ CollectFirst(enabled).cur = pump.cur
        /\ CollectFirst(enabled).flat = <<>> /\ CollectFirst(enabled).detect = <<>>
    BY <1>1 DEF CollectFirst
  <2>5. Kept(<<>>, pump, CollectFirst(enabled))
    BY <1>3, <2>2, <2>4 DEF Kept
  <2> QED BY <1>7, <2>3, <2>5 DEF Agrees
<1>9. Timed /\ Drained /\ Reports
  BY <1>1, <1>3, <1>6 DEF Timed, Drained, Reports, EngineOn
<1> QED BY <1>4, <1>5, <1>8, <1>9 DEF PumpInv

\* A line read is none of those taken.
LEMMA ScanLineKeeps == PumpInv /\ ScanLine => PumpInv'
<1> SUFFICES ASSUME PumpInv, ScanLine PROVE PumpInv'
  OBVIOUS
<1>1. PICK l \in Lines : read' = Append(read, l)
  BY DEF ScanLine
<1>2. /\ scan = "reading" /\ Len(read) < MaxLines
      /\ UNCHANGED <<enabled, taken, scan, pumping, pump, out, engine, gone, got>>
  BY DEF ScanLine
<1>3. read \in Seq(Lines) /\ taken \in 0 .. Len(read) /\ MaxLines \in Nat /\ Len(read) \in Nat
  BY PumpAssumption DEF PumpInv, PumpShapes
<1>4. read' \in Seq(Lines) /\ Len(read') = Len(read) + 1 /\ SubSeq(read', 1, taken) = SubSeq(read, 1, taken)
  <2>1. read' \in Seq(Lines) /\ Len(read') = Len(read) + 1
    BY <1>1, <1>3
  <2>2. \A i \in 1 .. taken : read'[i] = read[i]
    BY <1>1, <1>3
  <2>3. SubSeq(read', 1, taken) = SubSeq(read, 1, taken)
    BY <1>3, <2>1, <2>2
  <2> QED BY <2>1, <2>3
<1>5. Sofar' = Sofar
  BY <1>2, <1>4 DEF Sofar
<1>6. PumpShapes'
  BY <1>2, <1>3, <1>4 DEF PumpInv, PumpShapes
<1>7. Held' /\ Timed' /\ Agrees'
  BY <1>2, <1>5 DEF PumpInv, Held, Timed, Agrees
<1>8. Drained'
  BY <1>2 DEF PumpInv, Drained
<1>9. Reports'
  BY <1>2, <1>5 DEF PumpInv, Reports, EngineOn
<1> QED BY <1>6, <1>7, <1>8, <1>9 DEF PumpInv

LEMMA ScanEndKeeps == PumpInv /\ ScanEnd => PumpInv'
<1> SUFFICES ASSUME PumpInv, ScanEnd PROVE PumpInv'
  OBVIOUS
<1>1. /\ scan' \in {"eof", "broken"} /\ scan' # "reading"
      /\ UNCHANGED <<enabled, read, taken, pumping, pump, out, engine, gone, got>>
  BY DEF ScanEnd
<1>2. Sofar' = Sofar
  BY <1>1 DEF Sofar
<1>3. PumpShapes' /\ Held' /\ Timed' /\ Drained' /\ Agrees'
  BY <1>1, <1>2 DEF PumpInv, PumpShapes, Held, Timed, Drained, Agrees
<1>4. Reports'
  BY <1>1, <1>2 DEF PumpInv, Reports, EngineOn
<1> QED BY <1>3, <1>4 DEF PumpInv

\* The engine and the client: neither touches what is under way.
LEMMA LeaveKeeps == PumpInv /\ Leave => PumpInv'
<1> SUFFICES ASSUME PumpInv, Leave PROVE PumpInv'
  OBVIOUS
<1>1. gone' = TRUE /\ UNCHANGED <<enabled, read, taken, scan, pumping, pump, out, engine, got>>
  BY DEF Leave
<1>2. Sofar' = Sofar
  BY <1>1 DEF Sofar
<1>3. PumpShapes' /\ Held' /\ Timed' /\ Drained' /\ Agrees'
  BY <1>1, <1>2 DEF PumpInv, PumpShapes, Held, Timed, Drained, Agrees
<1>4. Reports'
  BY <1>1, <1>2 DEF PumpInv, Reports, EngineOn
<1> QED BY <1>3, <1>4 DEF PumpInv

LEMMA TickKeeps == PumpInv /\ (Tick \/ EngineCancel) => PumpInv'
<1> SUFFICES ASSUME PumpInv, Tick \/ EngineCancel PROVE PumpInv'
  OBVIOUS
<1>1. /\ EngineOn /\ UNCHANGED <<enabled, read, taken, scan, pumping, pump, out, gone, got>>
  BY DEF Tick, EngineCancel
<1>2. Sofar' = Sofar
  BY <1>1 DEF Sofar
<1>3. engine \in Engines /\ engine.reason = "" /\ Quiet(got) /\ engine.pc = "running"
  BY <1>1 DEF PumpInv, PumpShapes, Reports, EngineOn
<1>4. engine' \in Engines /\ engine'.reason \in {"", "idle_timeout", "no_content_timeout"}
      /\ (engine'.pc = "running" => engine'.reason = "")
  <2>1. CASE EngineCancel
    BY <1>3, <2>1 DEF EngineCancel, Engines
  <2>2. CASE Tick
    <3>1. MaxQuiet \in Nat
      BY PumpAssumption DEF MaxQuiet
    <3>2. \/ \E x \in {"idle_timeout", "no_content_timeout"} : engine' = [engine EXCEPT !.pc = "finalized", !.reason = x]
          \/ \E q \in Nat : engine' = [engine EXCEPT !.quiet = q]
      <4>1. CASE Silent
        BY <2>2, <4>1 DEF Tick, Finalize
      <4>2. CASE ~Silent
        <5>1. engine' = [engine EXCEPT !.quiet = IF @ < MaxQuiet THEN @ + 1 ELSE @]
          BY <2>2, <4>2 DEF Tick
        <5>2. engine.quiet \in Nat
          BY <1>3 DEF Engines
        <5> QED BY <5>1, <5>2
      <4> QED BY <4>1, <4>2
    <3>3. CASE \E x \in {"idle_timeout", "no_content_timeout"} : engine' = [engine EXCEPT !.pc = "finalized", !.reason = x]
      BY <1>3, <3>3 DEF Engines
    <3>4. CASE \E q \in Nat : engine' = [engine EXCEPT !.quiet = q]
      BY <1>3, <3>4 DEF Engines
    <3> QED BY <3>2, <3>3, <3>4
  <2> QED BY <2>1, <2>2
<1>5. PumpShapes' /\ Held' /\ Timed' /\ Drained' /\ Agrees'
  BY <1>1, <1>2, <1>4 DEF PumpInv, PumpShapes, Held, Timed, Drained, Agrees
<1>6. Reports'
  BY <1>1, <1>3, <1>4 DEF PumpInv, Reports, EngineOn
<1> QED BY <1>5, <1>6 DEF PumpInv

LEMMA ProcessKeeps ==
  ASSUME NEW e \in BOOLEAN, NEW s, PumpOK(e, s), NEW l \in Lines
  PROVE  LET v == Process(s, Meaning[e][s.cur][l])
         IN  PumpOK(e, v) /\ ((Buffered(s) => s.timer) => (Buffered(v) => v.timer))
<1> DEFINE r == Meaning[e][s.cur][l]
<1>1. s.cur \in Types
  BY PendingType
<1>2. Proper(e, r) /\ (~r.parsed => r.parts = <<>> /\ r.detect = <<>>)
  BY <1>1, MeaningType
<1> HIDE DEF r
<1>3. PumpOK(e, Process(s, r)) /\ ((Buffered(s) => s.timer) => (Buffered(Process(s, r)) => Process(s, r).timer))
  <2>1. CASE r.stop
    BY <1>2, <2>1, ProcessEnds
  <2>2. CASE ~r.stop
    BY <1>2, <2>2, ProcessAdds
  <2> QED BY <2>1, <2>2
<1> QED BY <1>3 DEF r

LEMMA PumpLineKeeps == PumpInv /\ PumpLine => PumpInv'
<1> SUFFICES ASSUME PumpInv, PumpLine PROVE PumpInv'
  OBVIOUS
<1> DEFINE l == read[taken + 1]
           v == Process(pump, Meaning[enabled][pump.cur][l])
<1>1. /\ pumping /\ taken < Len(read) /\ taken' = taken + 1 /\ pump' = v
      /\ UNCHANGED <<enabled, read, scan, pumping, out, engine, gone, got>>
  BY DEF PumpLine, PumpFree
<1>2. /\ enabled \in BOOLEAN /\ read \in Seq(Lines) /\ taken \in 0 .. Len(read) /\ Len(read) \in Nat /\ taken \in Nat
      /\ PumpOK(enabled, pump) /\ (Buffered(pump) => pump.timer)
  BY <1>1 DEF PumpInv, PumpShapes, Held, Timed
<1>3. Sofar \in Collected /\ l \in Lines /\ Sofar' = CollectLine(enabled, Sofar, l)
  <2>1. /\ Collect(enabled, SubSeq(read, 1, taken)) \in Collected /\ read[taken + 1] \in Lines
        /\ Collect(enabled, SubSeq(read, 1, taken + 1))
             = CollectLine(enabled, Collect(enabled, SubSeq(read, 1, taken)), read[taken + 1])
    BY <1>1, <1>2, CollectNext
  <2>2. Sofar' = Collect(enabled, SubSeq(read, 1, taken + 1))
    BY <1>1 DEF Sofar
  <2> QED BY <2>1, <2>2 DEF Sofar
<1>4. PumpOK(enabled, v) /\ (Buffered(v) => v.timer)
  BY <1>2, <1>3, ProcessKeeps
<1>5. Agrees'
  <2> SUFFICES ASSUME ~gone PROVE Kept((got \o out) \o v.send, v, CollectLine(enabled, Sofar, l))
    BY <1>1, <1>3 DEF Agrees
  <2> DEFINE go == got \o out
  <2>1. go \in Seq(Results)
    BY DEF PumpInv, Held, Proven
  <2>2. Kept(go \o pump.send, pump, Sofar)
    BY DEF PumpInv, Agrees
  <2> HIDE DEF go
  <2>3. Kept(go \o v.send, v, CollectLine(enabled, Sofar, l))
    BY <1>2, <1>3, <2>1, <2>2, KeptLine
  <2> QED BY <2>3 DEF go
<1> HIDE DEF v, l
<1>6. PumpShapes'
  BY <1>1, <1>2 DEF PumpInv, PumpShapes
<1>7. Held'
  BY <1>1, <1>4 DEF PumpInv, Held
<1>8. Timed' /\ Drained'
  <2>1. pumping' /\ (Buffered(pump') => pump'.timer)
    BY <1>1, <1>4
  <2> QED BY <2>1 DEF Timed, Drained, Buffered
<1>9. Reports'
  <2>1. Sofar.stopped => Sofar' = Sofar
    BY <1>2, <1>3, CollectLineFacts
  <2> QED BY <1>1, <2>1 DEF PumpInv, Reports, EngineOn
<1> QED BY <1>5, <1>6, <1>7, <1>8, <1>9 DEF PumpInv

\* A step of the pump between two lines.
LEMMA BetweenKeeps ==
  ASSUME PumpInv, UNCHANGED <<enabled, read, taken, scan, out, engine, gone, got>>,
         pumping' \in BOOLEAN, Alike(enabled, pump, pump'), ~Buffered(pump'), ~pumping' => ~pump'.timer, Drained'
  PROVE  PumpInv'
<1>1. Sofar' = Sofar
  BY DEF Sofar
<1>2. enabled \in BOOLEAN /\ read \in Seq(Lines) /\ taken \in 0 .. Len(read) /\ PumpOK(enabled, pump) /\ PumpOK(enabled, pump')
  BY DEF PumpInv, PumpShapes, Held, Alike
<1>3. PumpShapes'
  BY DEF PumpInv, PumpShapes
<1>4. Held'
  BY <1>2 DEF PumpInv, Held
<1>5. Timed'
  BY DEF Timed, Buffered
<1>6. Agrees'
  <2> SUFFICES ASSUME ~gone PROVE Kept((got \o out) \o pump'.send, pump', Sofar)
    BY <1>1 DEF Agrees
  <2> DEFINE go == got \o out
             t == pump'
  <2>1. go \in Seq(Results)
    BY DEF PumpInv, Held, Proven
  <2>2. Kept(go \o pump.send, pump, Sofar)
    BY DEF PumpInv, Agrees
  <2>3. Sofar \in Collected
    <3>1. SubSeq(read, 1, taken) \in Seq(Lines)
      BY <1>2
    <3> QED BY <1>2, <3>1, CollectType DEF Sofar
  <2>4. Alike(enabled, pump, t)
    OBVIOUS
  <2> HIDE DEF go, t
  <2>5. Kept(go \o t.send, t, Sofar)
    BY <1>2, <2>1, <2>2, <2>3, <2>4, KeptAlike
  <2> QED BY <2>5 DEF go, t
<1>7. Reports'
  BY <1>1 DEF PumpInv, Reports, EngineOn
<1> QED BY <1>3, <1>4, <1>5, <1>6, <1>7 DEF PumpInv

LEMMA PumpTimerKeeps == PumpInv /\ PumpTimer => PumpInv'
<1> SUFFICES ASSUME PumpInv, PumpTimer PROVE PumpInv'
  OBVIOUS
<1>1. /\ pumping /\ pump' = Fire(pump)
      /\ UNCHANGED <<enabled, read, taken, scan, pumping, out, engine, gone, got>>
  BY DEF PumpTimer, PumpFree
<1>2. enabled \in BOOLEAN /\ PumpOK(enabled, pump) /\ pumping \in BOOLEAN /\ pump \in Pumps
  BY DEF PumpInv, PumpShapes, Held, PumpOK
<1>3. Alike(enabled, pump, Fire(pump)) /\ ~Buffered(Fire(pump))
  <2>1. CASE Buffered(pump)
    <3>1. Fire(pump) = Flush(pump, TRUE)
      BY <2>1 DEF Fire
    <3> QED BY <1>2, <3>1, FlushKeeps
  <2>2. CASE ~Buffered(pump)
    <3> DEFINE t == [pump EXCEPT !.timer = FALSE]
    <3>1. Fire(pump) = t
      BY <2>2 DEF Fire
    <3>2. /\ t \in Pumps /\ t.send = pump.send /\ t.text = pump.text /\ t.think = pump.think
          /\ t.detect = pump.detect /\ t.cur = pump.cur
      BY <1>2 DEF Pumps
    <3> HIDE DEF t
    <3>3. /\ PumpOK(enabled, t) /\ Follows(pump, t) /\ Pending(t) = Pending(pump) /\ Wanted(t) = Wanted(pump)
          /\ Buffered(t) = Buffered(pump)
      BY <1>2, <3>2, SameBuffers
    <3> QED BY <2>2, <3>1, <3>2, <3>3 DEF Alike
  <2> QED BY <2>1, <2>2
<1>4. Drained'
  BY <1>1 DEF Drained
<1>5. Alike(enabled, pump, pump') /\ ~Buffered(pump')
  BY <1>1, <1>3
<1> QED BY <1>1, <1>2, <1>4, <1>5, BetweenKeeps

LEMMA PumpEndKeeps == PumpInv /\ (PumpEnd \/ PumpCancel) => PumpInv'
<1> SUFFICES ASSUME PumpInv, PumpEnd \/ PumpCancel PROVE PumpInv'
  OBVIOUS
<1>1. /\ pumping' = FALSE /\ pump' = Flush(pump, TRUE)
      /\ UNCHANGED <<enabled, read, taken, scan, out, engine, gone, got>>
  BY DEF PumpEnd, PumpCancel, End
<1>2. enabled \in BOOLEAN /\ PumpOK(enabled, pump)
  BY DEF PumpInv, PumpShapes, Held
<1>3. Alike(enabled, pump, Flush(pump, TRUE)) /\ ~Buffered(Flush(pump, TRUE)) /\ ~Flush(pump, TRUE).timer
  BY <1>2, FlushKeeps
<1>4. Drained'
  BY <1>1 DEF Drained, PumpEnd, PumpCancel
<1>5. Alike(enabled, pump, pump') /\ ~Buffered(pump') /\ ~pump'.timer
  BY <1>1, <1>3
<1> QED BY <1>1, <1>4, <1>5, BetweenKeeps

\* The first result of a channel goes on.
LEMMA HeadGoes ==
  ASSUME NEW a \in Seq(Results), NEW b \in Seq(Results), b # <<>>
  PROVE  /\ Head(b) \in Results /\ Tail(b) \in Seq(Results) /\ Append(a, Head(b)) \in Seq(Results)
         /\ Append(a, Head(b)) \o Tail(b) = a \o b
         /\ Append(a, Head(b)) = a \o <<Head(b)>> /\ <<Head(b)>> \in Seq(Results)
         /\ Len(Append(a, Head(b))) = Len(a) + 1 /\ Len(Tail(b)) <= Len(b)
         /\ \A i \in DOMAIN Tail(b) : i + 1 \in DOMAIN b /\ Tail(b)[i] = b[i + 1]
         /\ 1 \in DOMAIN b /\ Head(b) = b[1]
<1> DEFINE h == Head(b)
           t == Tail(b)
           c == Append(a, h)
<1>1. /\ h \in Results /\ t \in Seq(Results) /\ h = b[1] /\ Len(b) \in Nat /\ Len(b) >= 1 /\ Len(t) = Len(b) - 1
      /\ \A i \in 1 .. Len(t) : t[i] = b[i + 1]
      /\ DOMAIN t = 1 .. Len(t) /\ DOMAIN b = 1 .. Len(b) /\ Len(a) \in Nat
  OBVIOUS
<1> HIDE DEF h, t
<1>2. c \in Seq(Results) /\ Len(c) = Len(a) + 1 /\ c = a \o <<h>> /\ <<h>> \in Seq(Results)
      /\ c[Len(a) + 1] = h /\ \A i \in 1 .. Len(a) : c[i] = a[i]
  BY <1>1
<1> HIDE DEF c
<1>3. c \o t = a \o b
  <2> DEFINE z == c \o t
  <2>1. /\ z \in Seq(Results) /\ Len(z) = Len(c) + Len(t)
        /\ \A i \in 1 .. Len(c) : z[i] = c[i]
        /\ \A i \in 1 .. Len(t) : z[Len(c) + i] = t[i]
    <3>1. c \in Seq(Results) /\ t \in Seq(Results)
      BY <1>1, <1>2
    <3> QED BY <3>1, ConcatAt
  <2> HIDE DEF z
  <2>2. \A i \in 1 .. Len(a) : z[i] = a[i]
    BY <1>1, <1>2, <2>1
  <2>3. ASSUME NEW i \in 1 .. Len(b) PROVE z[Len(a) + i] = b[i]
    <3>1. CASE i = 1
      BY <1>1, <1>2, <2>1, <3>1
    <3>2. CASE i # 1
      <4> DEFINE k == i - 1
      <4>1. k \in 1 .. Len(t) /\ k + 1 = i /\ Len(a) + i = Len(c) + k
        BY <1>1, <1>2, <3>2
      <4> HIDE DEF k
      <4> QED BY <1>1, <2>1, <4>1
    <3> QED BY <3>1, <3>2
  <2>4. Aligned(a, b, z)
    BY <1>1, <1>2, <2>1, <2>2, <2>3 DEF Aligned
  <2>5. z = a \o b
    BY <2>1, <2>4, ConcatIs
  <2> QED BY <2>5 DEF z
<1>4. \A i \in DOMAIN t : i + 1 \in DOMAIN b
  BY <1>1
<1> QED BY <1>1, <1>2, <1>3, <1>4 DEF h, t, c

LEMMA ProvenGoes ==
  ASSUME NEW e, NEW a, NEW b, Proven(e, a), Proven(e, b), b # <<>>
  PROVE  Proven(e, Append(a, Head(b))) /\ Proven(e, Tail(b)) /\ Proper(e, Head(b))
<1>1. a \in Seq(Results) /\ b \in Seq(Results)
  BY DEF Proven
<1> DEFINE c == Append(a, Head(b))
           t == Tail(b)
<1>2. /\ c \in Seq(Results) /\ t \in Seq(Results) /\ 1 \in DOMAIN b /\ Head(b) = b[1]
      /\ \A i \in DOMAIN t : i + 1 \in DOMAIN b /\ t[i] = b[i + 1]
  BY <1>1, HeadGoes
<1>3. \A i \in DOMAIN c : c[i] = Head(b) \/ (i \in DOMAIN a /\ c[i] = a[i])
  BY <1>1
<1>4. Proper(e, Head(b))
  BY <1>2 DEF Proven
<1> HIDE DEF c, t
<1>5. Proven(e, c)
  BY <1>2, <1>3, <1>4 DEF Proven
<1>6. Proven(e, t)
  BY <1>2 DEF Proven
<1> QED BY <1>4, <1>5, <1>6 DEF c, t

\* Kept says of the pump only what is in its buffers.
LEMMA KeptSame ==
  ASSUME NEW all, NEW s, NEW u, Kept(all, s, u), NEW t,
         t.cur = s.cur, t.text = s.text, t.think = s.think, t.detect = s.detect
  PROVE  Kept(all, t, u)
BY DEF Kept, Waiting

LEMMA SendKeeps == PumpInv /\ Send => PumpInv'
<1> SUFFICES ASSUME PumpInv, Send PROVE PumpInv'
  OBVIOUS
<1> DEFINE t == [pump EXCEPT !.send = Tail(pump.send)]
           o == Append(out, Head(pump.send))
<1>1. /\ pump.send # <<>> /\ Len(out) < BufferSize /\ out' = o /\ pump' = t
      /\ UNCHANGED <<enabled, read, taken, scan, pumping, engine, gone, got>>
  BY DEF Send
<1>2. /\ PumpOK(enabled, pump) /\ pump \in Pumps /\ Proven(enabled, pump.send) /\ pump.send \in Seq(Results)
      /\ Proven(enabled, out) /\ out \in Seq(Results) /\ got \in Seq(Results) /\ BufferSize \in Nat
  BY PumpAssumption DEF PumpInv, Held, PumpOK, Proven
<1>3. Tail(pump.send) \in Seq(Results) /\ Len(o) = Len(out) + 1 /\ o \in Seq(Results)
      /\ o \o Tail(pump.send) = out \o pump.send
  <2> DEFINE b == pump.send
  <2>1. b \in Seq(Results) /\ b # <<>>
    BY <1>1, <1>2
  <2> HIDE DEF b
  <2>2. /\ Tail(b) \in Seq(Results) /\ Len(Append(out, Head(b))) = Len(out) + 1 /\ Append(out, Head(b)) \in Seq(Results)
        /\ Append(out, Head(b)) \o Tail(b) = out \o b
    BY <1>2, <2>1, HeadGoes
  <2> QED BY <2>2 DEF b
<1>4. Proven(enabled, o) /\ Proven(enabled, Tail(pump.send))
  BY <1>1, <1>2, ProvenGoes
<1>5. /\ t \in Pumps /\ t.send = Tail(pump.send) /\ t.text = pump.text /\ t.think = pump.think
      /\ t.detect = pump.detect /\ t.cur = pump.cur /\ t.timer = pump.timer
  BY <1>2, <1>3 DEF Pumps
<1> HIDE DEF t
<1>6. PumpOK(enabled, t)
  BY <1>2, <1>4, <1>5 DEF PumpOK
<1>7. (got \o o) \o t.send = (got \o out) \o pump.send
  <2> DEFINE b == pump.send
             c == Tail(pump.send)
  <2>1. /\ b \in Seq(Results) /\ c \in Seq(Results) /\ got \in Seq(Results) /\ out \in Seq(Results) /\ o \in Seq(Results)
    BY <1>2, <1>3
  <2>2. o \o c = out \o b
    BY <1>3
  <2> HIDE DEF b, c, o
  <2>3. (got \o o) \o c = got \o (o \o c)
    BY <2>1, ConcatAssociative, SMTT(30)
  <2>4. (got \o out) \o b = got \o (out \o b)
    BY <2>1, ConcatAssociative, SMTT(30)
  <2> QED BY <1>5, <2>2, <2>3, <2>4 DEF b, c
<1> HIDE DEF o
<1>8. Sofar' = Sofar
  BY <1>1 DEF Sofar
<1>9. PumpShapes' /\ Drained'
  BY <1>1 DEF PumpInv, PumpShapes, Drained
<1>10. Held'
  <2>1. Len(o) <= BufferSize
    <3>1. Len(out) \in Nat
      BY <1>2
    <3> QED BY <1>1, <1>2, <1>3, <3>1
  <2> QED BY <1>1, <1>4, <1>6, <2>1 DEF PumpInv, Held
<1>11. Timed'
  BY <1>1, <1>5 DEF PumpInv, Timed, Buffered
<1>12. Agrees'
  <2> SUFFICES ASSUME ~gone PROVE Kept((got \o o) \o t.send, t, Sofar)
    BY <1>1, <1>8 DEF Agrees
  <2>1. Kept((got \o out) \o pump.send, pump, Sofar)
    BY DEF PumpInv, Agrees
  <2>2. Kept((got \o out) \o pump.send, t, Sofar)
    BY <1>5, <2>1, KeptSame
  <2> QED BY <1>7, <2>2
<1>13. Reports'
  BY <1>1, <1>8 DEF PumpInv, Reports, EngineOn
<1> QED BY <1>9, <1>10, <1>11, <1>12, <1>13 DEF PumpInv

LEMMA GiveUpKeeps == PumpInv /\ GiveUp => PumpInv'
<1> SUFFICES ASSUME PumpInv, GiveUp PROVE PumpInv'
  OBVIOUS
<1> DEFINE t == [pump EXCEPT !.send = <<>>]
<1>1. /\ gone /\ pump' = t
      /\ UNCHANGED <<enabled, read, taken, scan, pumping, out, engine, gone, got>>
  BY DEF GiveUp, CanGiveUp
<1>2. PumpOK(enabled, pump) /\ pump \in Pumps /\ <<>> \in Seq(Results) /\ Proven(enabled, <<>>)
  BY DEF PumpInv, Held, PumpOK, Proven
<1>3. /\ t \in Pumps /\ t.send = <<>> /\ t.text = pump.text /\ t.think = pump.think
      /\ t.detect = pump.detect /\ t.cur = pump.cur /\ t.timer = pump.timer
  BY <1>2 DEF Pumps
<1> HIDE DEF t
<1>4. PumpOK(enabled, t)
  BY <1>2, <1>3 DEF PumpOK
<1>5. Sofar' = Sofar
  BY <1>1 DEF Sofar
<1>6. PumpShapes' /\ Held' /\ Drained' /\ Agrees'
  BY <1>1, <1>4 DEF PumpInv, PumpShapes, Held, Drained, Agrees
<1>7. Timed'
  BY <1>1, <1>3 DEF PumpInv, Timed, Buffered
<1>8. Reports'
  BY <1>1, <1>5 DEF PumpInv, Reports, EngineOn
<1> QED BY <1>6, <1>7, <1>8 DEF PumpInv

\* The first that stops of all results is the one at which the consumer of lines stopped.
LEMMA FirstStop ==
  ASSUME NEW a \in Seq(Results), NEW b \in Seq(Results), NEW r \in Results, Quiet(a), r.stop,
         NEW u, Cut((a \o <<r>>) \o b, u)
  PROVE  Sees(a, u)
<1>1. PICK x \in Seq(Results), last \in Results, y \in Seq(Results) :
        (a \o <<r>>) \o b = (x \o <<last>>) \o y /\ last.stop /\ Quiet(x) /\ Sees(x, u)
  BY DEF Cut
<1> DEFINE z == (a \o <<r>>) \o b
<1>2. ASSUME NEW p \in Seq(Results), NEW q \in Results, NEW w \in Seq(Results), z = (p \o <<q>>) \o w
      PROVE  /\ Len(p) \in Nat /\ z[Len(p) + 1] = q
             /\ \A i \in 1 .. Len(p) : z[i] = p[i]
  <2> DEFINE k == p \o <<q>>
  <2>1. k \in Seq(Results) /\ Len(p) \in Nat /\ Len(k) = Len(p) + 1 /\ k[Len(p) + 1] = q /\ \A i \in 1 .. Len(p) : k[i] = p[i]
    OBVIOUS
  <2>2. z = k \o w
    BY <1>2
  <2> HIDE DEF k, z
  <2>3. \A i \in 1 .. Len(k) : z[i] = k[i]
    BY <2>1, <2>2, ConcatAt
  <2>4. Len(p) + 1 \in 1 .. Len(k) /\ \A i \in 1 .. Len(p) : i \in 1 .. Len(k)
    BY <2>1
  <2> QED BY <2>1, <2>3, <2>4
<1>3. /\ Len(a) \in Nat /\ z[Len(a) + 1] = r /\ \A i \in 1 .. Len(a) : z[i] = a[i]
      /\ Len(x) \in Nat /\ z[Len(x) + 1] = last /\ \A i \in 1 .. Len(x) : z[i] = x[i]
  BY <1>1, <1>2
<1> HIDE DEF z
<1>4. DOMAIN a = 1 .. Len(a) /\ DOMAIN x = 1 .. Len(x)
  OBVIOUS
<1>5. ~(Len(x) < Len(a))
  <2> SUFFICES ASSUME Len(x) < Len(a) PROVE FALSE
    OBVIOUS
  <2>1. Len(x) + 1 \in 1 .. Len(a)
    BY <1>3
  <2>2. a[Len(x) + 1] = last
    BY <1>3, <2>1
  <2> QED BY <1>1, <1>4, <2>1, <2>2 DEF Quiet
<1>6. ~(Len(a) < Len(x))
  <2> SUFFICES ASSUME Len(a) < Len(x) PROVE FALSE
    OBVIOUS
  <2>1. Len(a) + 1 \in 1 .. Len(x)
    BY <1>3
  <2>2. x[Len(a) + 1] = r
    BY <1>3, <2>1
  <2> QED BY <1>1, <1>4, <2>1, <2>2 DEF Quiet
<1>7. Len(a) = Len(x)
  BY <1>3, <1>5, <1>6
<1>8. \A i \in 1 .. Len(a) : a[i] = x[i]
  BY <1>3, <1>7
<1>9. a = x
  BY <1>7, <1>8, SeqEqual, SMTT(30)
<1> QED BY <1>1, <1>9

LEMMA ParsedKeeps == PumpInv /\ Parsed => PumpInv'
<1> SUFFICES ASSUME PumpInv, Parsed PROVE PumpInv'
  OBVIOUS
<1> DEFINE r == Head(out)
           rest == Tail(out)
           e == IF Seen(r) THEN [engine EXCEPT !.content = TRUE, !.quiet = 0] ELSE engine
<1>1. /\ EngineOn /\ ~gone /\ out # <<>> /\ got' = Append(got, r) /\ out' = rest
      /\ engine' = IF r.stop THEN [e EXCEPT !.pc = "finalized", !.reason = "stop"] ELSE e
      /\ UNCHANGED <<enabled, read, taken, scan, pumping, pump, gone>>
  BY DEF Parsed
<1>2. /\ enabled \in BOOLEAN /\ PumpOK(enabled, pump) /\ pump.send \in Seq(Results) /\ BufferSize \in Nat
      /\ Proven(enabled, out) /\ Proven(enabled, got) /\ out \in Seq(Results) /\ got \in Seq(Results)
      /\ Len(out) <= BufferSize /\ engine \in Engines /\ engine.reason = "" /\ Quiet(got) /\ engine.pc = "running"
  BY <1>1, PumpAssumption DEF PumpInv, PumpShapes, Held, Reports, EngineOn, Proven, PumpOK, Pumps
<1>3. /\ r \in Results /\ rest \in Seq(Results) /\ Append(got, r) = got \o <<r>> /\ <<r>> \in Seq(Results)
      /\ Len(rest) <= Len(out)
  <2>1. \A b \in Seq(Results) : b # <<>> => /\ Head(b) \in Results /\ Tail(b) \in Seq(Results) /\ Len(Tail(b)) <= Len(b)
                                            /\ Append(got, Head(b)) = got \o <<Head(b)>> /\ <<Head(b)>> \in Seq(Results)
    BY <1>2, HeadGoes
  <2> QED BY <1>1, <1>2, <2>1
<1>4. Proven(enabled, Append(got, r)) /\ Proven(enabled, rest) /\ Proper(enabled, r)
  BY <1>1, <1>2, ProvenGoes
<1>5. Append(got, r) \o rest = got \o out
  BY <1>1, <1>2, HeadGoes
<1>6. e \in Engines /\ e.pc = "running" /\ e.reason = ""
  BY <1>2 DEF Engines
<1> HIDE DEF r, rest, e
<1>7. r.stop \in BOOLEAN
  BY <1>3 DEF Results
<1>8. /\ engine' \in Engines /\ (engine'.reason = "stop" <=> r.stop) /\ engine'.reason \in {"", "stop"}
      /\ (engine'.pc = "running" => ~r.stop /\ engine'.reason = "")
  <2>1. CASE r.stop
    BY <1>1, <1>6, <2>1 DEF Engines
  <2>2. CASE ~r.stop
    BY <1>1, <1>6, <2>2
  <2> QED BY <2>1, <2>2
<1>9. Sofar' = Sofar
  BY <1>1 DEF Sofar
<1>10. PumpShapes' /\ Timed' /\ Drained'
  BY <1>1, <1>8 DEF PumpInv, PumpShapes, Timed, Drained, Buffered
<1>11. Held'
  <2>1. Len(rest) <= BufferSize
    <3>1. \A x \in Seq(Results) : Len(x) \in Nat
      OBVIOUS
    <3>2. Len(rest) \in Nat /\ Len(out) \in Nat /\ Len(rest) <= Len(out) /\ Len(out) <= BufferSize /\ BufferSize \in Nat
      BY <1>2, <1>3, <3>1
    <3> QED BY <3>2
  <2> QED BY <1>1, <1>2, <1>4, <2>1 DEF Held
<1>12. Kept((got \o out) \o pump.send, pump, Sofar)
  BY <1>1 DEF PumpInv, Agrees
<1>13. Agrees'
  BY <1>1, <1>5, <1>9, <1>12 DEF Agrees
<1>14. r.stop => Sofar.stopped /\ Sees(got', Sofar)
  <2> SUFFICES ASSUME r.stop PROVE Sofar.stopped /\ Sees(Append(got, r), Sofar)
    BY <1>1
  <2> DEFINE a == got \o <<r>>
             z == pump.send
             b == rest \o z
  <2>1. a \in Seq(Results) /\ z \in Seq(Results) /\ b \in Seq(Results) /\ rest \in Seq(Results)
    <3>1. \A x, y \in Seq(Results) : x \o y \in Seq(Results)
      OBVIOUS
    <3>2. got \in Seq(Results) /\ <<r>> \in Seq(Results) /\ rest \in Seq(Results) /\ z \in Seq(Results)
      BY <1>2, <1>3
    <3> HIDE DEF z
    <3> QED BY <3>1, <3>2
  <2>2. a \o rest = got \o out
    BY <1>3, <1>5
  <2>3. Kept((a \o rest) \o z, pump, Sofar)
    BY <1>12, <2>2
  <2> HIDE DEF a, z
  <2>4. (a \o rest) \o z = a \o b
    BY <2>1, ConcatAssociative
  <2>5. Kept(a \o b, pump, Sofar)
    BY <2>3, <2>4
  <2> HIDE DEF b
  <2>6. Sofar.stopped
    <3> SUFFICES ASSUME ~Sofar.stopped PROVE FALSE
      OBVIOUS
    <3>1. Quiet(a \o b)
      BY <2>5 DEF Kept
    <3>2. Quiet(a)
      BY <2>1, <3>1, QuietConcat
    <3>3. Quiet(<<r>>)
      BY <1>2, <1>3, <3>2, QuietConcat DEF a
    <3>4. 1 \in DOMAIN <<r>> /\ <<r>>[1] = r
      OBVIOUS
    <3> QED BY <3>3, <3>4 DEF Quiet
  <2>7. Cut((got \o <<r>>) \o b, Sofar)
    BY <2>5, <2>6 DEF Kept, a
  <2>8. Sees(got, Sofar)
    BY <1>2, <1>3, <2>1, <2>7, FirstStop
  <2>9. r.parts = <<>> /\ r.detect = <<>>
    BY <1>4 DEF Proper
  <2>10. /\ FlatResults(Append(got, r)) = FlatResults(got) \o Flat(r.parts)
         /\ DetectResults(Append(got, r)) = DetectResults(got) \o DetectText(r)
    BY <1>2, <1>4, OneMore
  <2>11. Flat(r.parts) = <<>> /\ DetectText(r) = <<>>
    BY <1>3, <2>9, FlatFacts, DetectFacts
  <2>12. FlatResults(got) \in Seq(Words) /\ DetectResults(got) \in Seq(STRING)
    BY <1>2, ResultsFacts DEF Texts
  <2>13. FlatResults(got) \o <<>> = FlatResults(got) /\ DetectResults(got) \o <<>> = DetectResults(got)
    BY <2>12, ConcatNothing
  <2>14. FlatResults(Append(got, r)) = FlatResults(got) /\ DetectResults(Append(got, r)) = DetectResults(got)
    BY <2>10, <2>11, <2>13
  <2> QED BY <2>6, <2>8, <2>14 DEF Sees
<1>15. ~r.stop => Quiet(got')
  <2> SUFFICES ASSUME ~r.stop PROVE Quiet(got \o <<r>>)
    BY <1>1, <1>3
  <2>1. Quiet(<<r>>)
    BY DEF Quiet
  <2> QED BY <1>2, <1>3, <2>1, QuietConcat
<1>16. Reports'
  BY <1>8, <1>9, <1>14, <1>15 DEF Reports, EngineOn
<1> QED BY <1>10, <1>11, <1>13, <1>16 DEF PumpInv

LEMMA UpstreamDoneKeeps == PumpInv /\ UpstreamDone => PumpInv'
<1> SUFFICES ASSUME PumpInv, UpstreamDone PROVE PumpInv'
  OBVIOUS
<1>1. /\ EngineOn /\ ~gone /\ out = <<>> /\ ~pumping /\ pump.send = <<>>
      /\ engine' = [engine EXCEPT !.pc = "finalized", !.reason = "upstream_completed"]
      /\ UNCHANGED <<enabled, read, taken, scan, pumping, pump, out, gone, got>>
  BY DEF UpstreamDone, Closed, Finalize
<1>2. /\ enabled \in BOOLEAN /\ read \in Seq(Lines) /\ got \in Seq(Results) /\ Quiet(got) /\ engine \in Engines
      /\ PumpOK(enabled, pump) /\ ~Buffered(pump) /\ taken = Len(read) /\ scan # "reading"
      /\ Kept((got \o out) \o pump.send, pump, Sofar)
  BY <1>1 DEF PumpInv, PumpShapes, Held, Proven, Timed, Drained, Agrees, Reports
<1>3. engine' \in Engines /\ engine'.pc = "finalized" /\ engine'.reason = "upstream_completed"
  BY <1>1, <1>2 DEF Engines
<1>4. Sofar' = Sofar
  BY <1>1 DEF Sofar
<1>5. Sofar = Collect(enabled, read)
  BY <1>2, FirstsAll DEF Sofar
<1>6. (got \o out) \o pump.send = got
  <2>1. got \o <<>> = got
    BY <1>2, ConcatNothing
  <2> QED BY <1>1, <2>1
<1>7. Kept(got, pump, Sofar)
  BY <1>2, <1>6
<1>8. ~Sofar.stopped
  <2> SUFFICES ASSUME Sofar.stopped PROVE FALSE
    OBVIOUS
  <2>1. PICK x \in Seq(Results), last \in Results, y \in Seq(Results) : got = (x \o <<last>>) \o y /\ last.stop
    BY <1>7 DEF Kept, Cut
  <2>2. x \o <<last>> \in Seq(Results) /\ <<last>> \in Seq(Results)
    OBVIOUS
  <2>3. Quiet((x \o <<last>>) \o y)
    BY <1>2, <2>1
  <2> DEFINE w == x \o <<last>>
             k == <<last>>
  <2>4. w \in Seq(Results) /\ k \in Seq(Results) /\ w = x \o k /\ Quiet(w \o y)
    BY <2>2, <2>3
  <2>5. 1 \in DOMAIN k /\ k[1] = last
    OBVIOUS
  <2> HIDE DEF w, k
  <2>6. Quiet(w)
    BY <2>4, QuietConcat
  <2>7. Quiet(k)
    BY <2>4, <2>6, QuietConcat
  <2> QED BY <2>1, <2>5, <2>7 DEF Quiet
<1>9. Sees(got, Sofar)
  <2>1. Sofar.flat = FlatResults(got) \o Flat(Waiting(pump)) /\ Sofar.detect = DetectResults(got) \o pump.detect
    BY <1>7, <1>8 DEF Kept
  <2>2. pump.text = <<>> /\ pump.think = <<>> /\ pump.detect = <<>>
    BY <1>2 DEF Buffered
  <2>3. Flat(Waiting(pump)) = <<>>
    BY <2>2, EmptyTexts, FlatFacts DEF Waiting
  <2>4. FlatResults(got) \in Seq(Words) /\ DetectResults(got) \in Seq(STRING)
    BY <1>2, ResultsFacts DEF Texts
  <2>5. FlatResults(got) \o <<>> = FlatResults(got) /\ DetectResults(got) \o <<>> = DetectResults(got)
    BY <2>4, ConcatNothing
  <2> QED BY <2>1, <2>2, <2>3, <2>5 DEF Sees
<1>10. PumpShapes' /\ Held' /\ Timed' /\ Drained' /\ Agrees'
  BY <1>1, <1>3, <1>4 DEF PumpInv, PumpShapes, Held, Timed, Drained, Agrees, Buffered
<1>11. Reports'
  <2>1. Sees(got', Collect(enabled, read)')
    BY <1>1, <1>4, <1>5, <1>9
  <2> QED BY <1>1, <1>2, <1>3, <2>1 DEF Reports, EngineOn
<1> QED BY <1>10, <1>11 DEF PumpInv

LEMMA PumpStutters == PumpInv /\ UNCHANGED pumpVars => PumpInv'
<1> SUFFICES ASSUME PumpInv, UNCHANGED pumpVars PROVE PumpInv'
  OBVIOUS
<1>1. UNCHANGED <<enabled, read, taken, scan, pumping, pump, out, engine, gone, got>>
  BY DEF pumpVars
<1>2. Sofar' = Sofar
  BY <1>1 DEF Sofar
<1> QED BY <1>1, <1>2 DEF PumpInv, PumpShapes, Held, Timed, Drained, Agrees, Reports, EngineOn

LEMMA PumpInvImplies == PumpInv => AnswerArrives /\ ThinkingHidden
<1> SUFFICES ASSUME PumpInv PROVE AnswerArrives /\ ThinkingHidden
  OBVIOUS
<1>1. /\ enabled \in BOOLEAN /\ read \in Seq(Lines) /\ taken \in 0 .. Len(read) /\ taken \in Nat
      /\ PumpOK(enabled, pump) /\ pump.cur \in Types /\ Proven(enabled, got) /\ engine \in Engines
  BY PendingType DEF PumpInv, PumpShapes, Held
<1>2. PumpTypeOK
  <2>1. engine.pc \in {"running", "finalized", "context_done"}
    BY <1>1 DEF Engines
  <2> QED BY <1>1, <2>1 DEF PumpInv, PumpShapes, Held, Timed, PumpTypeOK, Types
<1>3. NothingLost
  <2> SUFFICES ASSUME ~gone, ~Sofar.stopped
               PROVE  /\ Sofar.flat = FlatResults(got \o out \o pump.send) \o Flat(Waiting(pump))
                      /\ Sofar.detect = DetectResults(got \o out \o pump.send) \o pump.detect
    BY DEF NothingLost, Sofar, Waiting
  <2>1. Kept((got \o out) \o pump.send, pump, Sofar)
    BY DEF PumpInv, Agrees
  <2> QED BY <2>1 DEF Kept
<1>4. EndSeesAnswer
  <2>1. CASE engine.reason = "upstream_completed"
    BY <2>1 DEF PumpInv, Reports, Sees, EndSeesAnswer
  <2>2. CASE engine.reason = "stop"
    <3>1. Sofar.stopped /\ Sees(got, Sofar)
      BY <2>2 DEF PumpInv, Reports
    <3>2. taken <= Len(read)
      BY <1>1
    <3>3. Collect(enabled, read) = Sofar
      BY <1>1, <3>1, <3>2, CollectStops DEF Sofar
    <3> QED BY <3>1, <3>3 DEF Sees, EndSeesAnswer
  <2>3. CASE engine.reason \notin {"stop", "upstream_completed"}
    BY <2>3 DEF EndSeesAnswer
  <2> QED BY <2>1, <2>2, <2>3
<1>5. BufferedHasTimer
  BY DEF PumpInv, Timed, BufferedHasTimer
<1>6. ThinkingHidden
  BY <1>1 DEF Proven, Proper, ThinkingHidden
<1> QED BY <1>2, <1>3, <1>4, <1>5, <1>6 DEF AnswerArrives

LEMMA PumpInvariant == PumpSpec => []PumpInv
<1>1. PumpInv /\ [PumpNext]_pumpVars => PumpInv'
  BY ScanLineKeeps, ScanEndKeeps, LeaveKeeps, TickKeeps, PumpLineKeeps, PumpTimerKeeps, PumpEndKeeps, SendKeeps,
     GiveUpKeeps, ParsedKeeps, UpstreamDoneKeeps, PumpStutters DEF PumpNext, PumpStep, EngineStep
<1> QED BY <1>1, PumpStarts, PTL DEF PumpSpec

\* Gathering the pieces of an answer is invisible (ConsumeSSE, StartParsedLinePump and CollectStream): for every set
\* of lines, size of the channels, number of characters gathered and time limit.
THEOREM GatheringIsInvisible == PumpSpec => []AnswerArrives
BY PumpInvariant, PumpInvImplies, PTL

\* A model told not to show its reasoning never does: no line and no state of the pump's buffers lets it through.
THEOREM ReasoningStaysHidden == PumpSpec => []ThinkingHidden
BY PumpInvariant, PumpInvImplies, PTL
=============================================================================
