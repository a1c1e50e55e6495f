----------------------------- MODULE ElasticPool -----------------------------
(***************************************************************************)
(* The elastic pool (internal/account/elastic.go): which accounts of the   *)
(* store are enabled when only a quota of each pool type may be, and the   *)
(* transactions of the store that call it or that should: mutes, bans and  *)
(* captcha cooldowns reported by the upstream, and the admin API's edits   *)
(* of the accounts.  Each action is one Store.Update transaction.          *)
(***************************************************************************)
EXTENDS Naturals, Sequences, FiniteSets, SequencesExt

CONSTANTS
    Identifiers, \* what an account of the store may be called
    Types,       \* pool types in use
    Settings,    \* elastic pool settings the admin chooses among
    Removable,   \* the accounts the admin adds and deletes
    Edits        \* what the admin does to accounts beside the elastic pool

AllTypes == {"default", "no_tools", "tools_only"}

ASSUME ElasticAssumption ==
    /\ IsFiniteSet(Identifiers) /\ Removable \subseteq Identifiers
    /\ Types \subseteq AllTypes /\ Types # {}
    /\ Settings \subseteq [enabled : BOOLEAN, quota : [AllTypes -> Nat]]
    /\ Edits \subseteq {"add", "delete", "type", "toggle"}

VARIABLES
    order,      \* the accounts of the store, in the order of the file
    type,       \* Account.PoolType
    disabled,   \* Account.Disabled
    muted,      \* Account.IsMuted: muted_until lies ahead
    banned,     \* Account.Banned
    cooling,    \* Account.IsCoolingDown: cooldown_until lies ahead
    elastic,    \* Config.ElasticPool
    edited,     \* history: the types whose accounts the admin edited since a reconcile
    recovered   \* history: the accounts whose mute expired since a reconcile

elasticVars == <<order, type, disabled, muted, banned, cooling, elastic, edited, recovered>>

Present == ToSet(order)

\* The accounts of the store a report about 'a' applies to.  Mutant: the
\* report is recorded whether the account is still there or not.
HitAnyway(a) == {a}

Hit(a) == {a} \cap Present

-----------------------------------------------------------------------------
(* The algorithm, as the loops of elastic.go run it on the accounts 'seq'. *)

\* Mutant: a muted account uses up the quota.
MutedUsesQuota(st, a, count, mut) ==
    IF st.used >= count THEN [st EXCEPT !.disabled = @ \cup {a}]
    ELSE [disabled |-> IF a \in mut THEN st.disabled \cup {a}
                                    ELSE st.disabled \ {a},
          used |-> st.used + 1]

\* applyElasticState: 'st' carries the disabled accounts and the quota used.
ApplyElasticState(st, a, count, mut) ==
    IF a \in mut THEN [st EXCEPT !.disabled = @ \cup {a}]
    ELSE IF st.used < count
         THEN [disabled |-> st.disabled \ {a}, used |-> st.used + 1]
         ELSE [st EXCEPT !.disabled = @ \cup {a}]

\* One turn of the loop of reconcileGroupFiltered, and the loop.
Turn(st, a, t, count, typ, mut) ==
    IF typ[a] = t THEN ApplyElasticState(st, a, count, mut) ELSE st

ReconcileGroup(seq, t, count, typ, dis, mut) ==
    LET state[i \in 0 .. Len(seq)] ==
            IF i = 0 THEN [disabled |-> dis, used |-> 0]
            ELSE Turn(state[i - 1], seq[i], t, count, typ, mut)
    IN  state[Len(seq)].disabled

\* ReconcileElasticPool: one pass for each pool type.
Reconcile(seq, ep, typ, dis, mut) ==
    LET Group(d, t) == ReconcileGroup(seq, t, ep.quota[t], typ, d, mut)
    IN  Group(Group(Group(dis, "default"), "no_tools"), "tools_only")

ReconcileIfEnabled(seq, ep, typ, dis, mut) ==
    IF ep.enabled THEN Reconcile(seq, ep, typ, dis, mut) ELSE dis

\* A transaction has recomputed the flags: what happened before no longer shows.
Recomputed == edited' = {} /\ recovered' = {}

\* The admin has edited accounts of the types 'ts', and no reconcile follows.  Switching
\* the elastic pool on recomputes the flags, so that nothing is kept while it is off.
EditOf(ts) == edited' = IF elastic.enabled THEN edited \cup ts ELSE {}

-----------------------------------------------------------------------------
(* What the upstream reports of an account a request is using.  The        *)
(* account may have been deleted meanwhile: the pool is reconciled anyway. *)

\* SetAccountMutedUntil and persistMutedUntil.
SetMuted(a) ==
    /\ muted' = muted \cup Hit(a)
    /\ disabled' = ReconcileIfEnabled(order, elastic, type, disabled, muted')
    /\ Recomputed
    /\ UNCHANGED <<order, type, banned, cooling, elastic>>

\* SetAccountBanned and persistBannedAccount.
SetBanned(a) ==
    /\ banned' = banned \cup Hit(a)
    /\ disabled' = ReconcileIfEnabled(order, elastic, type,
                                      disabled \cup Hit(a), muted)
    /\ Recomputed
    /\ UNCHANGED <<order, type, muted, cooling, elastic>>

\* clearBannedAccount: after a successful login.
ClearBanned(a) ==
    /\ a \in banned
    /\ banned' = banned \ {a}
    /\ disabled' = ReconcileIfEnabled(order, elastic, type,
                                      disabled \ {a}, muted)
    /\ Recomputed
    /\ UNCHANGED <<order, type, muted, cooling, elastic>>

\* persistCooldownUntil: after a captcha challenge.
CoolDown(a) ==
    /\ cooling' = cooling \cup Hit(a)
    /\ disabled' = ReconcileIfEnabled(order, elastic, type, disabled, muted)
    /\ Recomputed
    /\ UNCHANGED <<order, type, muted, banned, elastic>>

\* Time passes: nothing but the comparison with the clock changes.
MuteExpires(a) ==
    /\ a \in muted
    /\ muted' = muted \ {a}
    /\ recovered' = IF elastic.enabled THEN recovered \cup {a} ELSE {}
    /\ UNCHANGED <<order, type, disabled, banned, cooling, elastic, edited>>

CooldownExpires(a) ==
    /\ a \in cooling
    /\ cooling' = cooling \ {a}
    /\ UNCHANGED <<order, type, disabled, muted, banned, elastic, edited, recovered>>

-----------------------------------------------------------------------------
(* The admin API.                                                          *)

\* updateElasticPool: switching the elastic pool off enables every account.
UpdateElasticPool(ep) ==
    /\ elastic' = ep
    /\ disabled' = IF ep.enabled
                   THEN Reconcile(order, ep, type, disabled, muted)
                   ELSE disabled \ Present
    /\ Recomputed
    /\ UNCHANGED <<order, type, muted, banned, cooling>>

AddAccount(a, t) ==
    /\ "add" \in Edits
    /\ a \in Removable \ Present
    /\ order' = Append(order, a)
    /\ type' = [type EXCEPT ![a] = t]
    /\ EditOf({t})
    /\ UNCHANGED <<disabled, muted, banned, cooling, elastic, recovered>>

DeleteAccount(a) ==
    /\ "delete" \in Edits
    /\ a \in Removable \cap Present
    /\ order' = RemoveFirst(order, a)
    /\ disabled' = disabled \ {a}
    /\ muted' = muted \ {a}
    /\ banned' = banned \ {a}
    /\ cooling' = cooling \ {a}
    /\ recovered' = recovered \ {a}
    /\ EditOf({type[a]})
    /\ UNCHANGED <<type, elastic>>

UpdateAccountType(a, t) ==
    /\ "type" \in Edits
    /\ a \in Present
    /\ type' = [type EXCEPT ![a] = t]
    /\ EditOf({type[a], t})
    /\ UNCHANGED <<order, disabled, muted, banned, cooling, elastic, recovered>>

ToggleAccount(a) ==
    /\ "toggle" \in Edits
    /\ a \in Present
    /\ disabled' = IF a \in disabled THEN disabled \ {a} ELSE disabled \cup {a}
    /\ EditOf({type[a]})
    /\ UNCHANGED <<order, type, muted, banned, cooling, elastic, recovered>>

BatchToggle(enable) ==
    /\ "toggle" \in Edits
    /\ disabled' = IF enable THEN disabled \ Present ELSE disabled \cup Present
    /\ EditOf(Types)
    /\ UNCHANGED <<order, type, muted, banned, cooling, elastic, recovered>>

-----------------------------------------------------------------------------
\* A store of accounts without any flag, whose elastic pool is off.
ElasticInit ==
    /\ order \in SetToSeqs(Identifiers)
    /\ type \in [Identifiers -> Types]
    /\ disabled = {} /\ muted = {} /\ banned = {} /\ cooling = {}
    /\ elastic = [enabled |-> FALSE, quota |-> [t \in AllTypes |-> 0]]
    /\ edited = {} /\ recovered = {}

\* Client.Login records what the upstream says of the account: that it is suspended, or,
\* beside a token, that it is muted; the token lifts a suspension.
Login(a) == SetBanned(a) \/ SetMuted(a) \/ ClearBanned(a)

\* The requests on the account do, and so does time.
Upstream(a) == Login(a) \/ CoolDown(a) \/ MuteExpires(a) \/ CooldownExpires(a)

Admin ==
    \/ \E ep \in Settings : UpdateElasticPool(ep)
    \/ \E a \in Identifiers, t \in Types : AddAccount(a, t) \/ UpdateAccountType(a, t)
    \/ \E a \in Identifiers : DeleteAccount(a) \/ ToggleAccount(a)
    \/ \E enable \in BOOLEAN : BatchToggle(enable)

ElasticNext == Admin \/ \E a \in Identifiers : Upstream(a)

ElasticSpec == ElasticInit /\ [][ElasticNext]_elasticVars

-----------------------------------------------------------------------------
Group(t) == {a \in Present : type[a] = t}
\* The type invariant; flags are only set on accounts of the store.
ElasticTypeOK ==
    /\ order \in Seq(Identifiers) /\ IsInjective(order)
    /\ type \in [Identifiers -> Types]
    /\ \A s \in {disabled, muted, banned, cooling, recovered} : s \subseteq Present
    /\ elastic \in [enabled : BOOLEAN, quota : [AllTypes -> Nat]]
    /\ edited \subseteq Types

\* The accounts of a type that precede 'a' in the file and are not muted.
Ahead(a) ==
    LET pos(b) == CHOOSE i \in DOMAIN order : order[i] = b
    IN  {b \in Group(type[a]) \ muted : pos(b) < pos(a)}

FirstN(a) == a \notin muted /\ Cardinality(Ahead(a)) < elastic.quota[type[a]]

\* What elastic.go:12-15 says of a transaction that reconciles, without its loops: of each
\* type the first accounts that are not muted are enabled, up to its quota, banned and
\* cooling ones among them, and all the others are disabled.  Muting, banning, cooling
\* down and changing the settings are such transactions.
ReconcilesToFirstN ==
    [][ LET reconciles == \/ \E a \in Identifiers : SetMuted(a) \/ SetBanned(a)
                                                  \/ ClearBanned(a) \/ CoolDown(a)
                          \/ \E ep \in Settings : UpdateElasticPool(ep)
        IN  reconciles /\ elastic'.enabled =>
                disabled' = {a \in Present : ~FirstN(a)'}
      ]_elasticVars

\* Between reconciles, while mutes expire, accounts come and go and the admin edits other
\* types: a type the admin has left alone never has more accounts enabled than its quota
\* nor a muted one among them; and one that is short of its quota has no account asleep but
\* muted ones and those whose mute expired since the last reconcile, for which nobody
\* recomputes the flags (elastic.go:19 has no caller on a timer).
QuotaHolds ==
    elastic.enabled => \A t \in AllTypes \ edited :
        LET on == Group(t) \ disabled
        IN  /\ on \cap muted = {}
            /\ Cardinality(on) <= elastic.quota[t]
            /\ Cardinality(on) < elastic.quota[t]
                 => Group(t) \cap disabled \subseteq muted \cup recovered

\* All at once: flags belong to accounts of the store, a reconcile gives the quota to the
\* first accounts that are not muted, and it stays theirs until the next one.
KeepsQuota == [](ElasticTypeOK /\ QuotaHolds) /\ ReconcilesToFirstN
=============================================================================
