----------------------------- MODULE ChatHistory -----------------------------
(***************************************************************************)
(* The server-side conversation history (internal/chathistory/store.go):   *)
(* an in-memory index with the full entries, saved after every change as   *)
(* one detail file per entry and one index file.  Every operation holds    *)
(* the store's mutex, so that only a crash or a failing write can come     *)
(* between the steps of a save.                                            *)
(***************************************************************************)
EXTENDS Naturals, FiniteSets, Functions

CONSTANTS
    Ids,          \* identifiers of entries; each is used once (random UUIDs)
    Limits,       \* allowedLimits, scaled down; 0 disables recording
    DefaultLimit,
    MaxRevision,  \* bound: no operation starts past this revision
    Stops,        \* when the process may stop: "never", "idle" (between two
                  \* operations) or "anytime"
    MayFail       \* TRUE if a file operation may fail

ASSUME HistoryAssumption ==
    /\ IsFiniteSet(Ids)
    /\ Limits \subseteq Nat /\ DefaultLimit \in Limits
    /\ MaxRevision \in Nat \ {0}
    /\ Stops \in {"never", "idle", "anytime"}
    /\ MayFail \in BOOLEAN

VARIABLES
    \* the process
    status,     \* "up", "saving", "down", or "broken": s.err is set
    limit,      \* s.state.Limit
    revision,   \* s.state.Revision
    details,    \* s.details; s.state.Items has the same entries, sorted
    dirty,      \* s.dirty
    deleted,    \* s.deleted
    toRemove,   \* the files the running save has still to remove,
    toWrite,    \* and those it has to write before the index
    \* the disk
    index,      \* the index file
    files,      \* the detail files
    \* the world
    now,        \* what the clock said to the operation, 0 once it saves
    used,       \* identifiers given out
    \* history
    clean,      \* the last save succeeded
    doomed,     \* entries deleted or evicted since ever
    issued,     \* the highest revision ever given to an entry
    restarted,  \* the process has stopped at least once
    owed,       \* a revision was given that no index was written with since
    lost,       \* the process stopped when one was owed
    reused      \* a revision was given that is not above all given before

memory == <<limit, revision, details, dirty, deleted>>
saving == <<toRemove, toWrite>>
disk == <<index, files>>
gap == <<owed, lost, reused>>
history == <<used, clean, doomed, issued, restarted, gap>>
vars == <<status, memory, saving, disk, now, history>>

NoEntries == [i \in {} |-> 0]
Without(f, S) == Restrict(f, DOMAIN f \ S)
With(f, i, e) == [j \in DOMAIN f \cup {i} |-> IF j = i THEN e ELSE f[j]]

\* Two instants of the clock fall into one millisecond of CreatedAt.
Millis(t) == t \div 2

-----------------------------------------------------------------------------
(* The index.                                                              *)

\* Mutant: the tie is broken the other way round.
NewerSwapped(d, i, j) ==
    \/ d[i].created > d[j].created
    \/ d[i].created = d[j].created /\ d[i].revision < d[j].revision

\* The sort of rebuildIndexLocked: newest creation first, then revision.
Newer(d, i, j) ==
    \/ d[i].created > d[j].created
    \/ d[i].created = d[j].created /\ d[i].revision > d[j].revision

\* What may be kept of the entries 'd': entries equal in both are sorted at random.
Keepable(d, l) ==
    {kept \in SUBSET DOMAIN d :
        /\ l = 0 => kept = DOMAIN d
        /\ l > 0 => Cardinality(kept) = IF Cardinality(DOMAIN d) < l
                                        THEN Cardinality(DOMAIN d) ELSE l
        /\ \A i \in DOMAIN d \ kept, j \in kept : ~Newer(d, i, j)}

\* Mutant: the clock alone.
RevisionIsClock(t) == t

NextRevision(t) == IF t > revision THEN t ELSE revision + 1

\* Mutants: what an earlier save left pending is dropped; an entry that is gone
\* is still to be written.
PendingDropped(written, gone) == written \ gone
GoneStillDirty(written, gone) == dirty \cup written

\* markDetailDirtyLocked and markDetailDeletedLocked.
MarkDirty(written, gone) == (dirty \cup written) \ gone

MarkDeleted(written, gone) == (deleted \ written) \cup gone

\* The end of every operation: rebuildIndexLocked evicts the oldest entries,
\* and saveLocked starts.  'd' are the entries, 'written' those that changed
\* and 'removed' those that were deleted.
SaveFrom(d, l, written, removed) ==
    \E kept \in Keepable(d, l) :
        LET gone == removed \cup (DOMAIN d \ kept)
        IN  /\ details' = Restrict(d, kept)
            /\ limit' = l
            /\ dirty' = MarkDirty(written, gone)
            /\ deleted' = MarkDeleted(written, gone)
            /\ toRemove' = deleted'
            /\ toWrite' = dirty'
            /\ status' = "saving"
            /\ doomed' = doomed \cup gone
            /\ clean' = FALSE

\* The wall clock may jump forwards or be set back between any two operations, over
\* a restart too.
Tick == now' \in 1 .. MaxRevision

Operation ==
    /\ status = "up"
    /\ Tick
    /\ revision' = NextRevision(now')
    /\ revision' <= MaxRevision
    /\ issued' = IF revision' > issued THEN revision' ELSE issued
    /\ owed' = TRUE /\ reused' = (reused \/ revision' <= issued)
    /\ UNCHANGED <<disk, restarted, lost>>

-----------------------------------------------------------------------------
(* Operations.                                                             *)

Start(i) ==
    /\ limit # 0
    /\ i \notin used
    /\ Operation
    /\ used' = used \cup {i}
    /\ SaveFrom(With(details, i, [created |-> Millis(now'),
                                  revision |-> revision']),
                limit, {i}, {})

\* An entry may be updated while recording is disabled.
Update(i) ==
    /\ i \in DOMAIN details
    /\ Operation
    /\ SaveFrom([details EXCEPT ![i].revision = revision'], limit, {i}, {})
    /\ UNCHANGED used

Delete(i) ==
    /\ i \in DOMAIN details
    /\ Operation
    /\ SaveFrom(Without(details, {i}), limit, {}, {i})
    /\ UNCHANGED used

Clear ==
    /\ Operation
    /\ SaveFrom(NoEntries, limit, {}, DOMAIN details)
    /\ UNCHANGED used

SetLimit(l) ==
    /\ Operation
    /\ SaveFrom(details, l, {}, {})
    /\ UNCHANGED used

-----------------------------------------------------------------------------
(* saveLocked, one file at a time; each file is replaced atomically        *)
(* (writeFileAtomic).  The order of the identifiers is random.             *)

RemoveDetail(i) ==
    /\ status = "saving"
    /\ i \in toRemove
    /\ now' = 0
    /\ files' = Without(files, {i})
    /\ toRemove' = toRemove \ {i}
    /\ UNCHANGED <<status, memory, toWrite, index, history>>

WriteDetail(i) ==
    /\ status = "saving"
    /\ toRemove = {}
    /\ i \in toWrite
    /\ now' = 0
    /\ files' = With(files, i, details[i])
    /\ toWrite' = toWrite \ {i}
    /\ UNCHANGED <<status, memory, toRemove, index, history>>

\* Mutant: the index keeps the revision it had.
WriteIndexOldRevision ==
    /\ status = "saving"
    /\ toRemove = {} /\ toWrite = {}
    /\ index' = [kind |-> "split", limit |-> limit, revision |-> index.revision,
                 items |-> details]
    /\ dirty' = {} /\ deleted' = {}
    /\ clean' = TRUE /\ owed' = FALSE
    /\ now' = 0
    /\ status' = "up"
    /\ UNCHANGED <<limit, revision, details, saving, files, used,
                   doomed, issued, restarted, lost, reused>>

\* The index is the last file of a save; nothing is pending after it.
WriteIndex ==
    /\ status = "saving"
    /\ toRemove = {} /\ toWrite = {}
    /\ index' = [kind |-> "split", limit |-> limit, revision |-> revision,
                 items |-> details]
    /\ dirty' = {} /\ deleted' = {}
    /\ clean' = TRUE /\ owed' = FALSE
    /\ now' = 0
    /\ status' = "up"
    /\ UNCHANGED <<limit, revision, details, saving, files, used,
                   doomed, issued, restarted, lost, reused>>

\* A file operation fails: the error goes to the caller, memory stays ahead
\* of the disk, and what was pending is still pending at the next save.
SaveFails ==
    /\ MayFail
    /\ status = "saving"
    /\ toRemove' = {} /\ toWrite' = {}
    /\ status' = "up"
    /\ now' = 0
    /\ UNCHANGED <<memory, disk, history>>

-----------------------------------------------------------------------------
(* Crash and restart.                                                      *)

Stop ==
    /\ \/ Stops # "never" /\ status = "up"
       \/ Stops = "anytime" /\ status = "saving"
    /\ status' = "down"
    /\ limit' = DefaultLimit /\ revision' = 0 /\ details' = NoEntries
    /\ dirty' = {} /\ deleted' = {}
    /\ toRemove' = {} /\ toWrite' = {}
    /\ clean' = FALSE
    /\ now' = 0
    /\ restarted' = TRUE
    /\ lost' = (lost \/ owed) /\ owed' = FALSE
    /\ UNCHANGED <<disk, used, doomed, issued, reused>>

MaxRevisionOf(d) ==
    CHOOSE m \in {0} \cup {d[i].revision : i \in DOMAIN d} :
        \A i \in DOMAIN d : d[i].revision <= m

\* New, on a directory without an index: an empty history is written.
Bootstrap ==
    /\ status = "down" /\ index.kind = "none"
    /\ revision' = 0
    /\ SaveFrom(NoEntries, DefaultLimit, {}, {})
    /\ UNCHANGED <<disk, now, used, issued, restarted, gap>>

\* Mutant: the entries of the former format are not marked for writing.
LoadLegacyUnmarked ==
    /\ status = "down" /\ index.kind = "legacy"
    /\ revision' = MaxRevisionOf(index.items)
    /\ SaveFrom(index.items, index.limit, {}, {})
    /\ UNCHANGED <<disk, now, used, issued, restarted, gap>>

\* New, on an index of the former format, which holds the entries themselves.
LoadLegacy ==
    /\ status = "down" /\ index.kind = "legacy"
    /\ revision' = MaxRevisionOf(index.items)
    /\ SaveFrom(index.items, index.limit, DOMAIN index.items, {})
    /\ UNCHANGED <<disk, now, used, issued, restarted, gap>>

\* New, on an index: the entries are read from their files.  The rewrite of
\* the index may fail like any save.
LoadSplit ==
    /\ status = "down" /\ index.kind = "split"
    /\ DOMAIN index.items \subseteq DOMAIN files
    /\ revision' = index.revision
    /\ SaveFrom(Restrict(files, DOMAIN index.items), index.limit, {}, {})
    /\ UNCHANGED <<disk, now, used, issued, restarted, gap>>

\* A detail file is missing: the store reports the error for ever after.
LoadFails ==
    /\ status = "down" /\ index.kind = "split"
    /\ ~(DOMAIN index.items \subseteq DOMAIN files)
    /\ status' = "broken"
    /\ UNCHANGED <<memory, saving, disk, now, history>>

-----------------------------------------------------------------------------
\* No history yet, or one written by a version with a single file.
Init ==
    /\ status = "down"
    /\ limit = DefaultLimit /\ revision = 0 /\ details = NoEntries
    /\ dirty = {} /\ deleted = {} /\ toRemove = {} /\ toWrite = {}
    /\ \E old \in SUBSET Ids, l \in Limits :
        /\ Cardinality(old) <= 1
        /\ index = [kind |-> IF old = {} THEN "none" ELSE "legacy", limit |-> l,
                    revision |-> 0,
                    items |-> [i \in old |-> [created |-> 0, revision |-> 1]]]
        /\ used = old
    /\ files = NoEntries
    /\ now = 0
    /\ clean = FALSE /\ doomed = {} /\ issued = Cardinality(used)
    /\ restarted = FALSE /\ owed = FALSE /\ lost = FALSE /\ reused = FALSE

Next ==
    \/ \E i \in Ids : \/ Start(i) \/ Update(i) \/ Delete(i)
                      \/ RemoveDetail(i) \/ WriteDetail(i)
    \/ Clear \/ \E l \in Limits : SetLimit(l)
    \/ WriteIndex \/ SaveFails \/ Stop
    \/ Bootstrap \/ LoadLegacy \/ LoadSplit \/ LoadFails

Spec == Init /\ [][Next]_vars

-----------------------------------------------------------------------------
EntryMap(f) ==
    /\ DOMAIN f \subseteq Ids
    /\ \A i \in DOMAIN f : f[i] \in [created : Nat, revision : 1 .. MaxRevision]

\* The type invariant: what is pending is in memory, what is to be removed is
\* not.
TypeOK ==
    /\ status \in {"up", "saving", "down", "broken"}
    /\ limit \in Limits /\ revision \in 0 .. MaxRevision
    /\ EntryMap(details) /\ EntryMap(files) /\ EntryMap(index.items)
    /\ dirty \subseteq DOMAIN details /\ deleted \subseteq Ids \ DOMAIN details
    /\ toRemove \subseteq deleted /\ toWrite \subseteq dirty
    /\ status # "saving" => toRemove = {} /\ toWrite = {}

\* After a save that succeeded the disk has what memory has: the index and
\* every entry's file, whatever earlier saves failed half-way, and no file is
\* left of a deleted entry unless a crash left it.
SavedIsComplete ==
    clean =>
        /\ index.items = details /\ index.limit = limit
        /\ \A i \in DOMAIN details : i \in DOMAIN files /\ files[i] = details[i]
        /\ ~restarted => DOMAIN files = DOMAIN details

\* No crash and no failure loses an entry of the index that nobody deleted or
\* evicted, nor brings back an older version of it.  (Revisions tell which version is
\* older as long as none was given twice.  An entry that is being deleted or evicted when a
\* crash falls between the removal of its file and the index is not covered, and that
\* index is refused by LoadFails ever after.)
AckedSurvive ==
    index.kind = "split" =>
        \A i \in DOMAIN index.items \ doomed :
            /\ i \in DOMAIN files
            /\ files[i].revision >= index.items[i].revision \/ reused

\* The entry just started is not the one evicted to make room for it, unless
\* the clock was set back behind the creation or the revision of another.
NewestKept ==
    [][\A i \in used' \ used :
        \/ i \in DOMAIN details'
        \/ \E j \in DOMAIN details' : \/ details[j].created > Millis(now')
                                      \/ details[j].revision >= revision']_vars

\* A revision, which is also the ETag of the entry it stamps, is given once in the life
\* of the directory: not again after a save that failed, nor when the clock was set back
\* within a process or over a restart, unless the process stopped before an index was
\* written with the last revision it gave.  Then the next one knows of no more than that index
\* says, and gives each revision once only among its own.
RevisionFresh ==
    [][status = "up" /\ status' = "saving" =>
        revision' > revision /\ (lost \/ revision' > issued)]_vars

\* What the disk owes to memory at any moment, in the middle of a save as after one: store.go
\* keeps the index and the files of the entries in step through its dirty and deleted sets.
Durable == TypeOK /\ SavedIsComplete /\ AckedSurvive
=============================================================================
