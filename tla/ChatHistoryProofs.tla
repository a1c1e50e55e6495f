-------------------------- MODULE ChatHistoryProofs --------------------------
(***************************************************************************)
(* Theorems about ChatHistory for every set of entries, every limit, and   *)
(* with crashes and failing writes or without.                             *)
(***************************************************************************)
EXTENDS ChatHistory, FiniteSetTheorems, TLAPS

Running == status \in {"up", "saving"}

Types ==
    /\ TypeOK
    /\ index.kind \in {"none", "legacy", "split"} /\ index.limit \in Limits
    /\ index.revision \in 0 .. MaxRevision /\ issued \in 0 .. MaxRevision
    /\ ~Running => details = NoEntries /\ dirty = {} /\ deleted = {}
    /\ index.kind = "legacy" =>
        DOMAIN index.items # {} /\ \A i \in DOMAIN index.items : index.items[i].revision = 1

\* What is not pending is on disk, in the middle of a save as between two.
PendingIsAll ==
    /\ \A i \in DOMAIN details \ dirty : i \in DOMAIN files /\ files[i] = details[i]
    /\ status = "saving" =>
        \A i \in DOMAIN details \ toWrite : i \in DOMAIN files /\ files[i] = details[i]

\* Until the first crash every file belongs to an entry or is to be removed.
NoStrayFiles ==
    ~restarted =>
        /\ ~Running => DOMAIN files = {}
        /\ DOMAIN files \subseteq DOMAIN details \cup deleted
        /\ status = "saving" => DOMAIN files \subseteq DOMAIN details \cup toRemove

\* A save that succeeded is over; the disk has what it wrote.
SavedFrame ==
    /\ clean => status = "up"
    /\ clean => index.items = details /\ index.limit = limit /\ DOMAIN details \subseteq DOMAIN files
    /\ clean => dirty = {} /\ deleted = {}

\* What a start knows of the revisions that were given.
Known == IF index.kind = "split" THEN index.revision ELSE IF index.kind = "legacy" THEN 1 ELSE 0

\* Identifiers and revisions are given once; what is owed to the index is so in memory, and
\* the revision lags only after a stop with one owed.
Given ==
    /\ DOMAIN details \cup DOMAIN index.items \subseteq used
    /\ \A i \in DOMAIN details : details[i].revision <= issued
    /\ \A i \in DOMAIN files : files[i].revision <= issued
    /\ \A i \in DOMAIN index.items : index.items[i].revision <= issued
    /\ revision <= issued /\ index.revision <= issued
    /\ ~lost /\ Running => revision = issued
    /\ ~lost /\ ~owed => issued = Known
    /\ owed => Running
    /\ index.kind = "split" /\ ~Running => restarted

\* What is in memory is not older than what the index was told, and what is to be removed
\* is given up.
Forward ==
    /\ deleted \subseteq doomed
    /\ index.kind = "split" =>
        \A i \in (DOMAIN index.items \cap DOMAIN details) \ doomed :
            details[i].revision >= index.items[i].revision \/ reused

IInv ==
    Types /\ PendingIsAll /\ NoStrayFiles /\ SavedFrame /\ Given /\ Forward /\ AckedSurvive
-----------------------------------------------------------------------------
(* The operators on entries, and revisions.                                *)

LEMMA RestrictIs ==
    ASSUME NEW f, NEW S
    PROVE  DOMAIN Restrict(f, S) = S /\ \A i \in S : Restrict(f, S)[i] = f[i]
BY DEF Restrict

LEMMA WithoutIs ==
    ASSUME NEW f, NEW S
    PROVE  /\ DOMAIN Without(f, S) = DOMAIN f \ S
           /\ \A i \in DOMAIN f \ S : Without(f, S)[i] = f[i]
BY RestrictIs DEF Without

LEMMA HalfIsNatural ==
    ASSUME NEW n \in Nat PROVE n \div 2 \in Nat
OBVIOUS

\* Whatever time it is, an operation is given a revision that was never given, unless one
\* was lost.
LEMMA RevisionIsNew ==
    ASSUME IInv, Operation
    PROVE  /\ revision' > revision /\ (~lost => revision' > issued /\ issued' = revision')
           /\ revision' \in 1 .. MaxRevision /\ issued' \in 0 .. MaxRevision
           /\ issued <= issued' /\ revision' <= issued'
           /\ now' \in Nat /\ Millis(now') \in Nat /\ status = "up"
           /\ UNCHANGED <<disk, restarted, lost>> /\ owed' = TRUE
           /\ (reused => reused') /\ (reused' \/ revision' > issued)
<1>1. /\ issued \in 0 .. MaxRevision /\ revision \in Nat /\ revision <= issued /\ MaxRevision \in Nat
      /\ ~lost => revision = issued
  BY HistoryAssumption DEF IInv, Types, TypeOK, Given, Operation, Running
<1>2. now' \in Nat \ {0}
  BY <1>1 DEF Operation, Tick
<1>3. revision' > revision /\ revision' \in 1 .. MaxRevision
  BY <1>1, <1>2 DEF Operation, NextRevision
<1>4. Millis(now') \in Nat
  BY <1>2, HalfIsNatural DEF Millis
<1>5. issued' = IF revision' > issued THEN revision' ELSE issued
  BY DEF Operation
<1>6. reused' \/ revision' > issued
  <2>1. reused' = (reused \/ revision' <= issued)
    BY DEF Operation
  <2>2. revision' <= issued => reused'
    BY <2>1, Zenon
  <2> QED BY <1>1, <1>3, <2>2
<1>7. /\ UNCHANGED <<disk, restarted, lost>> /\ owed' = TRUE /\ (reused => reused')
      /\ status = "up"
  BY DEF Operation
<1> QED BY <1>1, <1>2, <1>3, <1>4, <1>5, <1>6, <1>7

(***************************************************************************)
(* What every operation and every load has to bring to the save that ends  *)
(* it: entries 'd' of which those not in 'written' are on disk already or  *)
(* pending, none of which is to be removed, and none older than the index  *)
(* says.                                                                   *)
(***************************************************************************)
Saveable(d, l, written, removed) ==
    /\ EntryMap(d) /\ l \in Limits /\ revision' \in 0 .. MaxRevision
    /\ issued' \in 0 .. MaxRevision /\ issued <= issued' /\ used \subseteq used'
    /\ written \subseteq DOMAIN d /\ dirty \subseteq DOMAIN d \cup removed
    /\ removed \subseteq Ids \ DOMAIN d /\ (deleted \ written) \cap DOMAIN d = {}
    /\ \A i \in DOMAIN d \ (written \cup dirty) : i \in DOMAIN files /\ files[i] = d[i]
    /\ DOMAIN d \subseteq used'
    /\ \A i \in DOMAIN d : d[i].revision <= issued'
    /\ revision' <= issued' /\ (~lost => revision' = issued')
    /\ (lost' <=> lost) /\ (reused => reused') /\ (~lost /\ ~owed' => issued' = Known)
    /\ index.kind = "split" =>
        \A i \in (DOMAIN index.items \cap DOMAIN d) \ doomed :
            d[i].revision >= index.items[i].revision \/ reused'
    /\ ~restarted => DOMAIN files \subseteq DOMAIN d \cup removed \cup deleted

LEMMA SaveFromInv ==
    ASSUME IInv, NEW d, NEW l, NEW written, NEW removed,
           SaveFrom(d, l, written, removed), Saveable(d, l, written, removed),
           UNCHANGED <<disk, restarted>>
    PROVE  IInv'
<1>1. PICK kept \in Keepable(d, l) :
        LET gone == removed \cup (DOMAIN d \ kept)
        IN  /\ details' = Restrict(d, kept) /\ limit' = l
            /\ dirty' = MarkDirty(written, gone) /\ deleted' = MarkDeleted(written, gone)
            /\ toRemove' = deleted' /\ toWrite' = dirty' /\ status' = "saving"
            /\ doomed' = doomed \cup gone /\ clean' = FALSE
  BY DEF SaveFrom
<1> DEFINE gone == removed \cup (DOMAIN d \ kept)
<1>2. kept \subseteq DOMAIN d
  BY DEF Keepable
<1>3. DOMAIN details' = kept /\ \A i \in kept : details'[i] = d[i]
  BY <1>1, RestrictIs
<1>4. /\ dirty' = (dirty \cup written) \ gone /\ deleted' = (deleted \ written) \cup gone
      /\ toRemove' = deleted' /\ toWrite' = dirty' /\ status' = "saving" /\ limit' = l
      /\ doomed' = doomed \cup gone /\ ~clean' /\ UNCHANGED <<index, files, restarted>>
  BY <1>1 DEF MarkDirty, MarkDeleted, disk
<1>5. Types' /\ SavedFrame'
  BY <1>2, <1>3, <1>4 DEF IInv, Types, TypeOK, EntryMap, Running, SavedFrame, Saveable
<1>6. PendingIsAll' /\ NoStrayFiles'
  BY <1>2, <1>3, <1>4 DEF PendingIsAll, NoStrayFiles, Running, Saveable
<1>7. Given'
  <2>1. issued \in Nat /\ issued' \in Nat /\ issued <= issued' /\ index.revision \in Nat
    BY DEF IInv, Types, Saveable
  <2>2. \A i \in DOMAIN files : files[i].revision \in Nat /\ files[i].revision <= issued
    BY DEF IInv, Types, TypeOK, EntryMap, Given
  <2>3. \A i \in DOMAIN index.items :
          index.items[i].revision \in Nat /\ index.items[i].revision <= issued
    BY DEF IInv, Types, TypeOK, EntryMap, Given
  <2> QED BY <1>2, <1>3, <1>4, <2>1, <2>2, <2>3 DEF IInv, Given, Known, Running, Saveable
<1>8. Forward' /\ AckedSurvive'
  BY <1>2, <1>3, <1>4 DEF IInv, Forward, AckedSurvive, Saveable
<1> QED BY <1>5, <1>6, <1>7, <1>8 DEF IInv
-----------------------------------------------------------------------------
(* The steps.                                                              *)

LEMMA InitInv == Init => IInv
<1> SUFFICES ASSUME Init PROVE IInv
  OBVIOUS
<1>1. PICK old \in SUBSET Ids, l \in Limits :
        /\ Cardinality(old) <= 1 /\ used = old
        /\ index = [kind |-> IF old = {} THEN "none" ELSE "legacy", limit |-> l, revision |-> 0,
                    items |-> [i \in old |-> [created |-> 0, revision |-> 1]]]
  BY DEF Init
<1>2. issued = IF old = {} THEN 0 ELSE 1
  <2>1. IsFiniteSet(old)
    BY HistoryAssumption, FS_Subset
  <2>2. Cardinality(old) \in Nat /\ (Cardinality(old) = 0 <=> old = {})
    BY <2>1, FS_CardinalityType, FS_EmptySet
  <2>3. issued = Cardinality(old)
    BY <1>1 DEF Init
  <2> QED BY <1>1, <2>2, <2>3
<1>3. DOMAIN index.items = old /\ index.kind = (IF old = {} THEN "none" ELSE "legacy")
      /\ \A i \in old : index.items[i].created = 0 /\ index.items[i].revision = 1
      /\ index.limit = l /\ index.revision = 0
  BY <1>1
<1>4. DOMAIN NoEntries = {}
  BY DEF NoEntries
<1> QED BY <1>1, <1>2, <1>3, <1>4, HistoryAssumption
    DEF Init, IInv, Types, TypeOK, EntryMap, Running, PendingIsAll, NoStrayFiles, SavedFrame,
        Given, Known, Forward, AckedSurvive

\* The operations bring what a save needs.
LEMMA OperationsInv ==
    ASSUME IInv, NEW i, NEW l,
           \/ (i \in Ids /\ Start(i)) \/ Update(i) \/ Delete(i) \/ Clear
           \/ (l \in Limits /\ SetLimit(l))
    PROVE  IInv'
<1> USE DEF Saveable
<1>1. Operation
  BY DEF Start, Update, Delete, Clear, SetLimit
<1>2. /\ revision' \in 1 .. MaxRevision /\ issued' \in 0 .. MaxRevision
      /\ issued <= issued' /\ revision' <= issued' /\ (~lost => issued' = revision')
      /\ Millis(now') \in Nat /\ UNCHANGED <<disk, restarted, lost>> /\ status = "up"
      /\ owed' = TRUE /\ (reused => reused') /\ (reused' \/ revision' > issued)
  BY <1>1, RevisionIsNew
<1>3. /\ EntryMap(details) /\ limit \in Limits /\ dirty \subseteq DOMAIN details
      /\ deleted \subseteq Ids \ DOMAIN details
      /\ \A j \in DOMAIN details \ dirty : j \in DOMAIN files /\ files[j] = details[j]
      /\ DOMAIN details \cup DOMAIN index.items \subseteq used
      /\ \A j \in DOMAIN details : details[j].revision \in Nat /\ details[j].revision <= issued
      /\ \A j \in DOMAIN index.items :
            index.items[j].revision \in Nat /\ index.items[j].revision <= issued
      /\ index.kind = "split" =>
          \A j \in (DOMAIN index.items \cap DOMAIN details) \ doomed :
              details[j].revision >= index.items[j].revision \/ reused
      /\ ~restarted => DOMAIN files \subseteq DOMAIN details \cup deleted
      /\ issued \in Nat /\ revision' \in Nat /\ MaxRevision \in Nat
  BY <1>2, HistoryAssumption
  DEF IInv, Types, TypeOK, EntryMap, PendingIsAll, NoStrayFiles, Given, Forward
<1>4. CASE i \in Ids /\ Start(i)
  <2> DEFINE e == [created |-> Millis(now'), revision |-> revision']
             d == With(details, i, e)
  <2>1. SaveFrom(d, limit, {i}, {}) /\ i \notin used /\ used' = used \cup {i}
    BY <1>4 DEF Start
  <2>2. /\ DOMAIN d = DOMAIN details \cup {i} /\ d[i] = e
        /\ \A j \in DOMAIN details \ {i} : d[j] = details[j]
    BY DEF With
  <2>3. e.created = Millis(now') /\ e.revision = revision'
        /\ e \in [created : Nat, revision : 1 .. MaxRevision]
    BY <1>2
  <2> HIDE DEF d, e
  <2>4. Saveable(d, limit, {i}, {})
    BY <1>2, <1>3, <1>4, <2>1, <2>2, <2>3 DEF EntryMap
  <2> QED BY <1>2, <2>1, <2>4, SaveFromInv
<1>5. CASE Update(i)
  <2> DEFINE d == [details EXCEPT ![i].revision = revision']
  <2>1. SaveFrom(d, limit, {i}, {}) /\ i \in DOMAIN details /\ used' = used
    BY <1>5 DEF Update
  <2>2. /\ DOMAIN d = DOMAIN details /\ d[i] = [details[i] EXCEPT !.revision = revision']
        /\ \A j \in DOMAIN details \ {i} : d[j] = details[j]
    BY <2>1
  <2>3. /\ d[i].created = details[i].created /\ d[i].revision = revision'
        /\ d[i] \in [created : Nat, revision : 1 .. MaxRevision]
    BY <1>2, <1>3, <2>1, <2>2 DEF EntryMap
  <2> HIDE DEF d
  <2>4. Saveable(d, limit, {i}, {})
    BY <1>2, <1>3, <2>1, <2>2, <2>3 DEF EntryMap
  <2> QED BY <1>2, <2>1, <2>4, SaveFromInv
<1>6. CASE Delete(i)
  <2> DEFINE d == Without(details, {i})
  <2>1. SaveFrom(d, limit, {}, {i}) /\ used' = used /\ i \in DOMAIN details
    BY <1>6 DEF Delete
  <2>2. /\ DOMAIN d = DOMAIN details \ {i}
        /\ \A j \in DOMAIN details \ {i} : d[j] = details[j]
    BY WithoutIs
  <2> HIDE DEF d
  <2>3. Saveable(d, limit, {}, {i})
    BY <1>2, <1>3, <2>1, <2>2 DEF EntryMap
  <2> QED BY <1>2, <2>1, <2>3, SaveFromInv
<1>7. CASE Clear
  <2>1. SaveFrom(NoEntries, limit, {}, DOMAIN details) /\ used' = used
    BY <1>7 DEF Clear
  <2>2. Saveable(NoEntries, limit, {}, DOMAIN details)
    BY <1>2, <1>3, <2>1 DEF EntryMap, NoEntries
  <2> QED BY <1>2, <2>1, <2>2, SaveFromInv
<1>8. CASE l \in Limits /\ SetLimit(l)
  <2>1. SaveFrom(details, l, {}, {}) /\ used' = used
    BY <1>8 DEF SetLimit
  <2>2. Saveable(details, l, {}, {})
    BY <1>2, <1>3, <1>8, <2>1
  <2> QED BY <1>2, <2>1, <2>2, SaveFromInv
<1> QED BY <1>4, <1>5, <1>6, <1>7, <1>8

\* The steps of a save: nothing pending is forgotten, whatever fails.
LEMMA SaveStepsInv ==
    ASSUME IInv, NEW i, RemoveDetail(i) \/ WriteDetail(i) \/ WriteIndex \/ SaveFails
    PROVE  IInv'
<1>a. RemoveDetail(i) => /\ DOMAIN files' = DOMAIN files \ {i}
                         /\ \A j \in DOMAIN files \ {i} : files'[j] = files[j]
  BY DEF Without, Restrict, RemoveDetail
<1>b. WriteDetail(i) => /\ DOMAIN files' = DOMAIN files \cup {i} /\ files'[i] = details[i]
                        /\ \A j \in DOMAIN files \ {i} : files'[j] = files[j]
  BY DEF With, WriteDetail
<1> USE HistoryAssumption DEF IInv, Types, TypeOK, EntryMap, Running, PendingIsAll, NoStrayFiles,
        SavedFrame, Given, Known, Forward, AckedSurvive, memory, saving, disk, history, gap
<1>1. CASE RemoveDetail(i)
  BY <1>1, <1>a DEF RemoveDetail
<1>2. CASE WriteDetail(i)
  BY <1>2, <1>b DEF WriteDetail
<1>3. CASE WriteIndex
  <2>1. /\ index'.kind = "split" /\ index'.limit = limit /\ index'.revision = revision
        /\ index'.items = details
    BY <1>3 DEF WriteIndex
  <2> QED BY <1>3, <2>1 DEF WriteIndex
<1>4. CASE SaveFails
  BY <1>4 DEF SaveFails
<1> QED BY <1>1, <1>2, <1>3, <1>4

\* A crash forgets memory; what a start loads is what a save left, and it may be newer than
\* the index.
LEMMA RestartInv ==
    ASSUME IInv, Stop \/ Bootstrap \/ LoadLegacy \/ LoadSplit \/ LoadFails
    PROVE  IInv'
<1>1. CASE Stop
  <2>1. (lost => lost') /\ (owed => lost') /\ ~owed'
    BY <1>1, Zenon DEF Stop
  <2> QED BY <1>1, <2>1, HistoryAssumption
  DEF Stop, IInv, Types, TypeOK, EntryMap, Running, PendingIsAll, NoStrayFiles, SavedFrame,
      Given, Known, Forward, AckedSurvive, NoEntries, disk
<1>2. CASE Bootstrap
  <2>1. SaveFrom(NoEntries, DefaultLimit, {}, {}) /\ UNCHANGED <<disk, restarted>>
    BY <1>2 DEF Bootstrap
  <2>2. Saveable(NoEntries, DefaultLimit, {}, {})
    BY <1>2, HistoryAssumption DEF Bootstrap, Saveable, EntryMap, NoEntries, IInv, Types, TypeOK,
       Running, NoStrayFiles, Given, Known, gap
  <2> QED BY <2>1, <2>2, SaveFromInv
<1>3. CASE LoadLegacy
  <2> DEFINE d == index.items
  <2>1. SaveFrom(d, index.limit, DOMAIN d, {}) /\ UNCHANGED <<disk, restarted>>
    BY <1>3 DEF LoadLegacy
  <2>2. revision' = 1
    <3>1. /\ DOMAIN d # {} /\ \A i \in DOMAIN d : d[i].revision = 1
      BY <1>3 DEF LoadLegacy, IInv, Types
    <3>2. \E m \in {0} \cup {d[i].revision : i \in DOMAIN d} :
             \A i \in DOMAIN d : d[i].revision <= m
      BY <3>1
    <3>3. /\ MaxRevisionOf(d) \in {0} \cup {d[i].revision : i \in DOMAIN d}
          /\ \A i \in DOMAIN d : d[i].revision <= MaxRevisionOf(d)
      BY <3>2 DEF MaxRevisionOf
    <3> QED BY <1>3, <3>1, <3>3 DEF LoadLegacy
  <2>3. Saveable(d, index.limit, DOMAIN d, {})
    BY <1>3, <2>2, HistoryAssumption DEF LoadLegacy, Saveable, EntryMap, NoEntries, IInv, Types,
       TypeOK, Running, NoStrayFiles, Given, Known, gap
  <2> QED BY <2>1, <2>3, SaveFromInv
<1>4. CASE LoadSplit
  <2> DEFINE S == DOMAIN index.items
             d == Restrict(files, S)
  <2>1. SaveFrom(d, index.limit, {}, {}) /\ UNCHANGED <<disk, restarted>> /\ S \subseteq DOMAIN files
    BY <1>4 DEF LoadSplit
  <2>2. DOMAIN d = S /\ \A i \in S : d[i] = files[i]
    BY RestrictIs
  <2>3. Saveable(d, index.limit, {}, {})
    <3> HIDE DEF d
    <3> QED BY <1>4, <2>1, <2>2, HistoryAssumption DEF LoadSplit, Saveable, EntryMap, NoEntries,
           IInv, Types, TypeOK, Running, NoStrayFiles, Given, Known, gap, Forward, AckedSurvive
  <2> QED BY <2>1, <2>3, SaveFromInv
<1>5. CASE LoadFails
  BY <1>5 DEF LoadFails, IInv, Types, TypeOK, EntryMap, Running, PendingIsAll, NoStrayFiles,
      SavedFrame, Given, Known, Forward, AckedSurvive, memory, saving, disk, history, gap
<1> QED BY <1>1, <1>2, <1>3, <1>4, <1>5

LEMMA StepInv == IInv /\ [Next]_vars => IInv'
<1> SUFFICES ASSUME IInv, [Next]_vars PROVE IInv'
  OBVIOUS
<1>1. CASE Next
  <2>1. CASE \E i \in Ids : Start(i) \/ Update(i) \/ Delete(i)
    BY <2>1, OperationsInv
  <2>2. CASE Clear \/ \E l \in Limits : SetLimit(l)
    BY <2>2, OperationsInv
  <2>3. CASE (\E i \in Ids : RemoveDetail(i) \/ WriteDetail(i)) \/ WriteIndex \/ SaveFails
    BY <2>3, SaveStepsInv
  <2>4. CASE Stop \/ Bootstrap \/ LoadLegacy \/ LoadSplit \/ LoadFails
    BY <2>4, RestartInv
  <2> QED BY <1>1, <2>1, <2>2, <2>3, <2>4 DEF Next
<1>2. CASE UNCHANGED vars
  BY <1>2 DEF vars, memory, saving, disk, history, gap, IInv, Types, TypeOK, EntryMap, Running,
      PendingIsAll, NoStrayFiles, SavedFrame, Given, Known, Forward, AckedSurvive
<1> QED BY <1>1, <1>2

LEMMA Invariance == Spec => []IInv
BY InitInv, StepInv, PTL DEF Spec

\* Whatever a crash or a failing write cuts short, the disk has what a successful save left,
\* and no entry of the index that nobody gave up is missing or older there.
THEOREM HistoryIsDurable == Spec => []Durable
<1>1. IInv => Durable
  BY DEF IInv, Types, PendingIsAll, NoStrayFiles, SavedFrame, Durable, SavedIsComplete
<1> QED BY <1>1, Invariance, PTL

\* The revision of an operation, the ETag of what it stamps, was never given before, also
\* after the clock was set back within a process or over a restart and after a save that
\* failed, unless the process stopped owing the index a revision.
THEOREM RevisionsAreFresh == Spec => RevisionFresh
<1>1. IInv /\ [Next]_vars =>
        [status = "up" /\ status' = "saving" =>
            revision' > revision /\ (lost \/ revision' > issued)]_vars
  <2> SUFFICES ASSUME IInv, Next, status = "up", status' = "saving"
               PROVE  revision' > revision /\ (lost \/ revision' > issued)
    BY DEF vars
  <2>1. Operation
    BY DEF Next, Start, Update, Delete, Clear, SetLimit, RemoveDetail, WriteDetail, WriteIndex,
           SaveFails, Stop, Bootstrap, LoadLegacy, LoadSplit, LoadFails
  <2> QED BY <2>1, RevisionIsNew
<1> QED BY <1>1, Invariance, PTL DEF Spec, RevisionFresh

\* Whatever is evicted to make room for an entry, it is not that entry, unless the clock went
\* back behind another one.
THEOREM NewestIsKept == Spec => NewestKept
<1>1. ASSUME IInv, [Next]_vars
      PROVE  [\A i \in used' \ used :
                \/ i \in DOMAIN details'
                \/ \E j \in DOMAIN details' : \/ details[j].created > Millis(now')
                                              \/ details[j].revision >= revision']_vars
  <2> SUFFICES ASSUME Next, NEW i \in used' \ used, i \notin DOMAIN details'
               PROVE  \E j \in DOMAIN details' : \/ details[j].created > Millis(now')
                                                 \/ details[j].revision >= revision'
    BY <1>1 DEF vars, history
  <2> DEFINE e == [created |-> Millis(now'), revision |-> revision']
             d == With(details, i, e)
  <2>1. Start(i) /\ i \in Ids
    BY DEF Next, Start, Update, Delete, Clear, SetLimit, RemoveDetail, WriteDetail, WriteIndex,
           SaveFails, Stop, Bootstrap, LoadLegacy, LoadSplit, LoadFails, history
  <2>2. Operation /\ SaveFrom(d, limit, {i}, {}) /\ limit # 0
    BY <2>1 DEF Start
  <2>3. Millis(now') \in Nat /\ revision' \in Nat
    BY <1>1, <2>2, RevisionIsNew
  <2>4. PICK kept \in Keepable(d, limit) : details' = Restrict(d, kept)
    BY <2>2 DEF SaveFrom
  <2>5. /\ DOMAIN d = DOMAIN details \cup {i} /\ d[i].created = Millis(now')
        /\ d[i].revision = revision' /\ \A j \in DOMAIN details \ {i} : d[j] = details[j]
    BY DEF With
  <2> HIDE DEF d, e
  <2>6. DOMAIN details' = kept /\ kept \subseteq DOMAIN d /\ i \in DOMAIN d \ kept
    BY <2>4, <2>5, RestrictIs DEF Keepable
  <2>7. limit \in Nat /\ limit > 0 /\ IsFiniteSet(DOMAIN d) /\ EntryMap(details)
    <3>1. DOMAIN d \subseteq Ids
      BY <1>1, <2>1, <2>5 DEF IInv, Types, TypeOK, EntryMap
    <3> QED BY <1>1, <2>2, <3>1, HistoryAssumption, FS_Subset DEF IInv, Types, TypeOK
  <2>8. kept # {}
    <3>1. Cardinality(kept) = IF Cardinality(DOMAIN d) < limit THEN Cardinality(DOMAIN d)
                              ELSE limit
      BY <2>7 DEF Keepable
    <3>2. Cardinality(DOMAIN d) \in Nat /\ Cardinality(DOMAIN d) # 0
      BY <2>6, <2>7, FS_CardinalityType, FS_EmptySet
    <3>3. Cardinality(kept) # 0
      BY <2>7, <3>1, <3>2
    <3> QED BY <3>3, FS_EmptySet
  <2>9. PICK j \in kept : ~Newer(d, i, j)
    BY <2>6, <2>8 DEF Keepable
  <2>10. d[j] = details[j] /\ details[j] \in [created : Nat, revision : 1 .. MaxRevision]
    BY <2>5, <2>6, <2>7 DEF EntryMap
  <2>11. details[j].created > Millis(now') \/ details[j].revision >= revision'
    BY <2>3, <2>5, <2>9, <2>10, HistoryAssumption DEF Newer
  <2> QED BY <2>6, <2>11
<1> QED BY <1>1, Invariance, PTL DEF Spec, NewestKept
=============================================================================
