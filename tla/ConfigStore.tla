---------------------------- MODULE ConfigStore ----------------------------
(***************************************************************************)
(* The configuration store: the configuration in memory, the two files it  *)
(* is kept in (config.json, and mihomo_subscriptions.json for what the     *)
(* node bridge changes often), how a start chooses among the files and the *)
(* environment, the transactions every writer goes through, and the admin  *)
(* handlers that run them.  A file is absent, torn (os.WriteFile truncates *)
(* first) or readable; a write may fail and the daemon may die at any step *)
(* of a save.                                                              *)
(*                                                                         *)
(* Of a configuration the model keeps what the properties tell apart: the  *)
(* API keys with their tools flag, in both the lists the code keeps; each  *)
(* account's proxy and ban; the proxies; two of the run-time limits; the   *)
(* bridge's API port, in config.json, and what the other file holds beside *)
(* it: subscriptions, and the ports given to their nodes.  Tokens are      *)
(* never compared and are left out.                                        *)
(***************************************************************************)
EXTENDS Naturals, FiniteSets

CONSTANTS
  Keys, Accounts, Proxies,
  Subs, PortOf,   \* the entries of the second file; the port an entry gives, 0 for a subscription
  ApiPorts,       \* the API ports an admin may set
  None,           \* no proxy
  Setups,         \* the environments a deployment may give
  Disks,          \* what the two files may hold before the first start
  EnvConfig,      \* what DS2API_CONFIG_JSON holds, where it is valid
  LegacyConfig,   \* what /app/config.json holds, where it is tried
  Requested,      \* the limits an admin may ask for, 0 for "unchanged"
  Imports,        \* the configurations an admin may import
  MaxCommits, MaxFaults, MaxCrashes, MaxSettings    \* bounds

VARIABLES
  setup,       \* the environment: [env, writeback, path]
  mainFile, subsFile,
  status,      \* "down", "up" or "refused"
  cfg, fromEnv, dirty, migrate,
  pc,          \* "idle", or the file the save in progress comes to next
  last,        \* what the last save answered
  checked,     \* updateSettings calls between their check and their transaction
  blind,       \* what the files owe memory and no dirty bit tells of
  raw,         \* what an unchecked handler stored and no start accepts: "proxies", "limits"
  beside,      \* history: the API port of the configuration a file was last written from
  acked, tried,   \* the last configuration told to be saved, and those after it
  commits, faults, crashes

memory == <<cfg, fromEnv, dirty, migrate>>
disk == <<mainFile, subsFile>>
vars == <<setup, disk, status, memory, pc, last, checked, blind, raw, beside, acked, tried, commits, faults, crashes>>

Partial(S, T) == UNION {[D -> T] : D \in SUBSET S}
\* f where it is defined and g elsewhere; f with x set to v.
Over(f, g) == [x \in DOMAIN f \cup DOMAIN g |-> IF x \in DOMAIN f THEN f[x] ELSE g[x]]
With(f, x, v) == Over([y \in {x} |-> v], f)
ApiKeys == Partial(Keys, BOOLEAN)
AccountSets == Partial(Accounts, [proxy : Proxies \cup {None}, banned : BOOLEAN])
Limits == [per : Nat, global : Nat]
Configs == [keys : SUBSET Keys, api : ApiKeys, accounts : AccountSets, proxies : SUBSET Proxies,
            limits : Limits, apiPort : Nat, subs : SUBSET Subs]

Empty == [keys |-> {}, api |-> <<>>, accounts |-> <<>>, proxies |-> {},
          limits |-> [per |-> 0, global |-> 0], apiPort |-> 0, subs |-> {}]

Absent == [is |-> "absent"]
Torn == [is |-> "torn"]
Readable(f) == f.is = "text"

Core(c) == [c EXCEPT !.subs = {}]

\* A configuration as a load or a transaction leaves it, and what the two files may hold.
Settled == {c \in Configs : c.keys = DOMAIN c.api}
Files == [is : {"absent", "torn"}] \cup
         [is : {"text"}, core : {c \in Settled : c.subs = {}}, embedded : SUBSET Subs, tested : BOOLEAN]
SubsFiles == [is : {"absent", "torn"}] \cup [is : {"text"}, subs : {s \in SUBSET Subs : s # {}}]

ASSUME ConfigAssumption ==
  /\ Setups \subseteq [env : {"unset", "valid", "invalid"}, writeback : BOOLEAN,
                       path : {"explicit", "default", "container"}]
  /\ Disks \subseteq [main : Files, subs : SubsFiles]
  /\ {EnvConfig, LegacyConfig} \subseteq Settled /\ Imports \subseteq Configs
  /\ PortOf \in [Subs -> Nat] /\ ApiPorts \subseteq Nat \ {0}
  /\ Requested \subseteq Limits
  /\ {MaxCommits, MaxFaults, MaxCrashes, MaxSettings} \subseteq Nat

\* config.json never takes the subscriptions; an older file may still embed them.
Text(c) == [is |-> "text", core |-> Core(c), embedded |-> {}, tested |-> FALSE]
SubsText(c) == IF c.subs = {} THEN Absent ELSE [is |-> "text", subs |-> c.subs]

-----------------------------------------------------------------------------
(* What a configuration must satisfy for a start to accept it. *)

ValidProxies(c) == \A a \in DOMAIN c.accounts : c.accounts[a].proxy \in c.proxies \cup {None}
ValidLimits(l) == l.per > 0 /\ l.global > 0 => l.global >= l.per

\* ValidateMihomoConfig: the API's port is none of the nodes' (0: it is not set).
FreePorts(apiPort, subs) == apiPort = 0 \/ apiPort \notin {PortOf[s] : s \in subs}
ValidPorts(c) == FreePorts(c.apiPort, c.subs)

Valid(c) == ValidProxies(c) /\ ValidLimits(c.limits) /\ ValidPorts(c)

\* What of it a configuration misses, of the checks a handler may leave out.
Broken(c) ==
  (IF ValidProxies(c) THEN {} ELSE {"proxies"}) \cup (IF ValidLimits(c.limits) THEN {} ELSE {"limits"})

\* Mutant: the ports are not looked at.
ValidProxiesOnly(c) == ValidProxies(c)

\* validateMutation, of the bridge's handlers.
ValidMutation(c) == ValidProxies(c) /\ ValidPorts(c)

\* Without the reconciliation of the two lists.
ReconcileNothing(next, base) == next

(***************************************************************************)
(* The two lists of API keys.  A transaction may have changed either; the  *)
(* plain list counts only if the structured one was left alone.            *)
(***************************************************************************)
KeysFromStrings(keys, meta) == [k \in keys |-> IF k \in DOMAIN meta THEN meta[k] ELSE FALSE]

Reconcile(next, base) ==
  LET api == IF next.keys # base.keys /\ next.api = base.api
             THEN KeysFromStrings(next.keys, base.api) ELSE next.api
  IN [next EXCEPT !.api = api, !.keys = DOMAIN api]

Normalize(c) ==
  IF DOMAIN c.api # {} THEN [c EXCEPT !.keys = DOMAIN c.api]
                       ELSE [c EXCEPT !.api = [k \in c.keys |-> FALSE]]

MergeKeys(old, new) ==
  Over([k \in DOMAIN new \cap DOMAIN old |-> old[k] \/ new[k]], Over(old, new))

\* The imported account replaces the one that is there.
MergeAccountsOver(old, new) == Over(new, old)

MergeAccounts(old, new) == Over(old, new)

MergeLimits(now, asked) ==
  [per |-> IF asked.per > 0 THEN asked.per ELSE now.per,
   global |-> IF asked.global > 0 THEN asked.global ELSE now.global]

\* Only the request is validated, as parseSettingsUpdateRequest does before.
LimitsToCheckAlone(now, asked) == asked

\* What updateSettings validates: the request over the limits it read.
LimitsToCheck(now, asked) == MergeLimits(now, asked)

-----------------------------------------------------------------------------
(* A start. *)

\* The text a start reads, and whether the store then counts as env-backed;
\* NoText where it refuses.
NoText == [is |-> "none"]

\* Config.UnmarshalJSON reads the subscriptions where a file still embeds them.
Decoded(main) == [main.core EXCEPT !.subs = main.embedded]

Chosen(main) ==
  LET file == [is |-> "file", cfg |-> Decoded(main), fromEnv |-> FALSE]
      env == [is |-> "env", cfg |-> EnvConfig, fromEnv |-> TRUE]
      plain(c) == [is |-> "plain", cfg |-> c, fromEnv |-> FALSE]
  IN CASE setup.env = "valid" -> IF setup.writeback /\ Readable(main) THEN file ELSE env
       [] setup.env = "invalid" -> IF setup.writeback /\ Readable(main) THEN file ELSE NoText
       [] setup.env = "unset" ->
            IF Readable(main) THEN file
            ELSE IF setup.path = "container" THEN plain(LegacyConfig)
            ELSE IF setup.path = "explicit" /\ main = Absent THEN plain(Empty)
            ELSE NoText

\* The separate file wins; where it is absent or torn the embedded text stays.
WithSubs(c, subs) == IF Readable(subs) THEN [c EXCEPT !.subs = subs.subs] ELSE c

\* What the files owe memory after a start without any bit to tell: subscriptions that
\* no file holds any more, a main file that the rewriting tore, and an old text that
\* would bring deleted subscriptions back.
Unflagged(c, main, subs) ==
  LET again == Chosen(main)
  IN {d \in {"subs", "main", "embedded"} :
        \/ d = "subs" /\ c.subs # {} /\ ~Readable(subs)
        \/ d = "main" /\ (again = NoText \/ Core(again.cfg) # Core(c))
        \/ d = "embedded" /\ again # NoText /\ again.cfg.subs # {}}

\* A pending migration has yet to rewrite a main file with older subscriptions in it.
Outdated(main, subs) == {d \in {"embedded"} : Readable(subs) /\ subs.subs # main.embedded}

Begin(text, env, main, subs) ==
  LET c == WithSubs(text.cfg, subs)
      pending == Readable(main) /\ main.embedded # {}
  IN /\ mainFile' = main /\ subsFile' = subs
     /\ IF Valid(c)
        THEN /\ status' = "up" /\ cfg' = c /\ fromEnv' = env /\ migrate' = pending
             /\ blind' = IF pending THEN Outdated(main, subs) ELSE Unflagged(c, main, subs)
             /\ raw' = {} /\ beside' = c.apiPort /\ acked' = c /\ tried' = {}
        ELSE /\ status' = "refused"
             /\ UNCHANGED <<cfg, fromEnv, migrate, blind, raw, beside, acked, tried>>
     /\ UNCHANGED <<setup, dirty, pc, last, checked, commits, crashes>>

Fails == faults < MaxFaults /\ faults' = faults + 1

\* loadConfigFromFile rewrites a file that still holds "test_status", as MarshalJSON
\* prints it: without the subscriptions. It does not look at the outcome.
StartRewriting ==
  /\ status = "down"
  /\ Readable(mainFile) /\ mainFile.tested /\ setup.env # "valid" /\ Chosen(mainFile) # NoText
  /\ \/ Begin(Chosen(mainFile), FALSE, Text(mainFile.core), subsFile) /\ UNCHANGED faults
     \/ Fails /\ \E m \in {mainFile, Torn} : Begin(Chosen(mainFile), FALSE, m, subsFile)

\* The environment's text is written to the missing file: both files, in turn.
StartBootstrapping ==
  /\ status = "down"
  /\ setup.env = "valid" /\ setup.writeback /\ mainFile = Absent /\ Valid(EnvConfig)
  /\ LET text == Chosen(mainFile)
         subs == SubsText(EnvConfig)
     IN \/ Begin(text, FALSE, Text(EnvConfig), subs) /\ UNCHANGED faults
        \/ Fails /\ \E m \in {Absent, Torn} : Begin(text, TRUE, m, subs)
        \/ Fails /\ \E s \in {subsFile} \cup (IF subs = Absent THEN {} ELSE {Torn}) :
                      Begin(text, TRUE, mainFile, s)

StartPlain ==
  /\ status = "down"
  /\ ~(Readable(mainFile) /\ mainFile.tested /\ setup.env # "valid")
  /\ ~(setup.env = "valid" /\ setup.writeback /\ mainFile = Absent)
  /\ Chosen(mainFile) # NoText
  /\ Begin(Chosen(mainFile), Chosen(mainFile).fromEnv, mainFile, subsFile)
  /\ UNCHANGED faults

StartRefused ==
  /\ status = "down" /\ Chosen(mainFile) = NoText
  /\ status' = "refused"
  /\ UNCHANGED <<setup, disk, memory, pc, last, checked, blind, raw, beside, acked, tried, commits, faults, crashes>>

-----------------------------------------------------------------------------
(* Transactions and the save that ends them; the lock is held throughout. *)

ReadOnly == fromEnv /\ ~setup.writeback

MarkDirty(base, next) ==
  {f \in {"main", "subs"} : IF f = "subs" THEN base.subs # next.subs ELSE Core(base) # Core(next)}

BeginSave ==
  /\ pc' = IF ReadOnly THEN "idle" ELSE "subs"
  /\ last' = IF ReadOnly THEN "skipped" ELSE "none"

Ready == status = "up" /\ pc = "idle"

\* Update, where the mutator returned next.
Transact(next) ==
  /\ Ready /\ commits < MaxCommits
  /\ LET c == Normalize(Reconcile(next, cfg))
     IN /\ cfg' = c
        /\ dirty' = dirty \cup MarkDirty(cfg, c)
        /\ tried' = tried \cup {c}
  /\ commits' = commits + 1
  /\ BeginSave
  /\ UNCHANGED <<setup, disk, status, fromEnv, migrate, blind, beside, acked, faults, crashes>>

\* A handler that accepts only what a start would accept, or checks less than that.
Store(next) == Transact(next) /\ UNCHANGED <<checked, raw>>
StoreUnchecked(next) == Transact(next) /\ raw' = raw \cup Broken(next) /\ UNCHANGED checked

\* UpdateAccountToken: a save that marks nothing.
SaveToken ==
  /\ Ready /\ DOMAIN cfg.accounts # {}
  /\ BeginSave
  /\ UNCHANGED <<setup, disk, status, memory, checked, blind, raw, beside, acked, tried, commits, faults, crashes>>

Answer(result) ==
  /\ pc' = "idle" /\ last' = result
  /\ IF result = "ok" THEN acked' = cfg /\ tried' = {} ELSE UNCHANGED <<acked, tried>>

\* A pending migration rewrites config.json alone.
OwesSubsIfDirty == "subs" \in dirty

OwesSubs == "subs" \in dirty \/ migrate
OwesMain == "main" \in dirty \/ migrate
\* Nothing to write, but no main file yet.
Creates == ~OwesMain /\ mainFile = Absent

WriteSubs ==
  /\ subsFile' = SubsText(cfg)
  /\ dirty' = dirty \ {"subs"} /\ blind' = blind \ {"subs"} /\ beside' = cfg.apiPort

\* The bit is cleared whatever the write does.
SubsWriteFailsCleared ==
  /\ subsFile' \in {subsFile} \cup (IF SubsText(cfg) = Absent THEN {} ELSE {Torn})
  /\ dirty' = dirty \ {"subs"} /\ UNCHANGED <<blind, beside>>

SubsWriteFails ==
  /\ subsFile' \in {subsFile} \cup (IF SubsText(cfg) = Absent THEN {} ELSE {Torn})
  /\ UNCHANGED <<dirty, blind, beside>>

SaveSubs ==
  /\ status = "up" /\ pc = "subs"
  /\ \/ ~OwesSubs /\ pc' = "main" /\ UNCHANGED <<subsFile, dirty, blind, beside, last, acked, tried, faults>>
     \/ OwesSubs /\ WriteSubs /\ pc' = "main" /\ UNCHANGED <<last, acked, tried, faults>>
     \/ OwesSubs /\ Fails /\ SubsWriteFails /\ Answer("failed")
  /\ UNCHANGED <<setup, mainFile, status, cfg, fromEnv, migrate, checked, raw, commits, crashes>>

\* The migration stays pending.
WriteMainStillPending ==
  /\ mainFile' = Text(cfg) /\ fromEnv' = FALSE /\ blind' = blind \ {"main", "embedded"} /\ beside' = cfg.apiPort
  /\ IF OwesMain THEN dirty' = dirty \ {"main"} ELSE UNCHANGED dirty
  /\ UNCHANGED migrate

WriteMain ==
  /\ mainFile' = Text(cfg) /\ fromEnv' = FALSE /\ blind' = blind \ {"main", "embedded"} /\ beside' = cfg.apiPort
  /\ IF OwesMain THEN dirty' = dirty \ {"main"} /\ migrate' = FALSE ELSE UNCHANGED <<dirty, migrate>>

SaveMain ==
  /\ status = "up" /\ pc = "main"
  /\ \/ /\ ~OwesMain /\ ~Creates /\ Answer("ok")
        /\ UNCHANGED <<mainFile, fromEnv, dirty, migrate, blind, beside, faults>>
     \/ (OwesMain \/ Creates) /\ WriteMain /\ Answer("ok") /\ UNCHANGED faults
     \/ /\ (OwesMain \/ Creates) /\ Fails /\ Answer("failed")
        /\ mainFile' \in {mainFile, Torn}
        /\ blind' = IF Creates /\ mainFile' = Torn THEN blind \cup {"main"} ELSE blind
        /\ UNCHANGED <<fromEnv, dirty, migrate, beside>>
  /\ UNCHANGED <<setup, subsFile, status, cfg, checked, raw, commits, crashes>>

\* The daemon dies, or is stopped; the file being written is left old, torn or new.
Crash ==
  /\ status = "up" /\ crashes < MaxCrashes
  /\ \/ UNCHANGED <<disk, beside>>
     \/ pc = "main" /\ (OwesMain \/ Creates) /\ mainFile' = Torn /\ UNCHANGED <<subsFile, beside>>
     \/ pc = "main" /\ (OwesMain \/ Creates) /\ mainFile' = Text(cfg) /\ beside' = cfg.apiPort /\ UNCHANGED subsFile
     \/ pc = "subs" /\ OwesSubs /\ cfg.subs # {} /\ subsFile' = Torn /\ UNCHANGED <<mainFile, beside>>
     \/ pc = "subs" /\ OwesSubs /\ subsFile' = SubsText(cfg) /\ beside' = cfg.apiPort /\ UNCHANGED mainFile
  /\ status' = "down" /\ pc' = "idle" /\ last' = "none"
  /\ cfg' = Empty /\ fromEnv' = FALSE /\ dirty' = {} /\ migrate' = FALSE /\ checked' = {}
  /\ crashes' = crashes + 1
  /\ UNCHANGED <<setup, blind, raw, acked, tried, commits, faults>>

-----------------------------------------------------------------------------
(* The admin handlers. *)

AddKey(k, tools) == k \notin DOMAIN cfg.api /\ Store([cfg EXCEPT !.api = With(@, k, tools)])
UpdateKey(k, tools) == k \in DOMAIN cfg.api /\ Store([cfg EXCEPT !.api[k] = tools])
DeleteKey(k) ==
  k \in DOMAIN cfg.api /\ Store([cfg EXCEPT !.api = [j \in DOMAIN cfg.api \ {k} |-> cfg.api[j]]])

AddAccount(a, p) ==
  /\ a \notin DOMAIN cfg.accounts /\ p \in cfg.proxies \cup {None}
  /\ Store([cfg EXCEPT !.accounts = With(@, a, [proxy |-> p, banned |-> FALSE])])
DeleteAccount(a) ==
  /\ a \in DOMAIN cfg.accounts
  /\ Store([cfg EXCEPT !.accounts = [b \in DOMAIN cfg.accounts \ {a} |-> cfg.accounts[b]]])
UpdateAccountProxy(a, p) ==
  LET next == [cfg EXCEPT !.accounts[a].proxy = p]
  IN a \in DOMAIN cfg.accounts /\ p \in cfg.proxies \cup {None} /\ ValidProxies(next) /\ Store(next)

AddProxy(p) ==
  LET next == [cfg EXCEPT !.proxies = @ \cup {p}]
  IN p \notin cfg.proxies /\ ValidProxies(next) /\ Store(next)
DeleteProxy(p) ==
  LET unbound(acc) == IF acc.proxy = p THEN [acc EXCEPT !.proxy = None] ELSE acc
      next == [cfg EXCEPT !.proxies = @ \ {p},
                          !.accounts = [a \in DOMAIN cfg.accounts |-> unbound(cfg.accounts[a])]]
  IN p \in cfg.proxies /\ ValidProxies(next) /\ Store(next)

\* SetAccountBanned, and the login that clears it.
Ban(a) == a \in DOMAIN cfg.accounts /\ Store([cfg EXCEPT !.accounts[a].banned = TRUE])
LoggedIn(a) ==
  a \in DOMAIN cfg.accounts /\ cfg.accounts[a].banned /\ Store([cfg EXCEPT !.accounts[a].banned = FALSE])

\* The bridge's handlers, as far as they touch its entries: subscriptions come, change and
\* go, ports are given and collected (what they do to proxies and accounts in the same
\* transactions is NodeBinding's); a change of the settings may collect entries as well.
EditBridge(next) == next # cfg /\ ValidMutation(next) /\ Store(next)
ChangeSubs(s) == EditBridge([cfg EXCEPT !.subs = s])
UpdateBridge(p, s) == s \subseteq cfg.subs /\ EditBridge([cfg EXCEPT !.apiPort = p, !.subs = s])

\* The accounts of a request: toAccount reads neither a ban nor a state.
GivenAccounts == Partial(Accounts, [proxy : Proxies \cup {None}, banned : {FALSE}])

\* updateConfig takes whole lists.
UpdateConfig ==
  \/ \E api \in ApiKeys : StoreUnchecked([cfg EXCEPT !.api = api])
  \/ \E keys \in SUBSET Keys : StoreUnchecked([cfg EXCEPT !.keys = keys])
  \/ \E new \in GivenAccounts : StoreUnchecked([cfg EXCEPT !.accounts = new])

BatchImport(in) ==
  LET fresh == [a \in DOMAIN in.accounts |-> [in.accounts[a] EXCEPT !.banned = FALSE]]
  IN StoreUnchecked([cfg EXCEPT !.api = MergeKeys(@, in.api), !.accounts = MergeAccounts(@, fresh)])

\* The merge takes no proxies and no subscriptions.
ImportMerge(in) ==
  LET next == [cfg EXCEPT !.api = MergeKeys(@, in.api), !.accounts = MergeAccounts(@, in.accounts),
                          !.limits = MergeLimits(@, in.limits)]
  IN Valid(next) /\ Store(next)

ImportReplace(in) ==
  LET next == [in EXCEPT !.subs = IF @ = {} THEN cfg.subs ELSE @]
  IN Valid(next) /\ Store(next)

\* What parseSettingsUpdateRequest lets pass: each limit in its range, the two in order.
Accepted(asked) == ValidLimits(asked)

\* updateSettings checks the request, alone and over a snapshot, and only then begins.
CheckSettings(asked) ==
  /\ Ready /\ Cardinality(checked) < MaxSettings /\ commits < MaxCommits
  /\ Accepted(asked)
  /\ ValidLimits(LimitsToCheck(cfg.limits, asked))
  /\ checked' = checked \cup {[asked |-> asked, seen |-> cfg.limits]}
  /\ UNCHANGED <<setup, disk, status, memory, pc, last, blind, raw, beside, acked, tried, commits, faults, crashes>>
ApplySettings(call) ==
  LET next == [cfg EXCEPT !.limits = MergeLimits(@, call.asked)]
  IN /\ call \in checked /\ checked' = checked \ {call}
     /\ Transact(next)
     /\ raw' = IF call.seen = cfg.limits THEN raw ELSE raw \cup Broken(next)

-----------------------------------------------------------------------------
Init ==
  /\ setup \in Setups
  /\ \E d \in Disks : mainFile = d.main /\ subsFile = d.subs
  /\ status = "down" /\ cfg = Empty /\ fromEnv = FALSE /\ dirty = {} /\ migrate = FALSE
  /\ pc = "idle" /\ last = "none" /\ checked = {} /\ blind = {} /\ raw = {}
  /\ tried = {}
  /\ acked = IF Chosen(mainFile) = NoText THEN Empty ELSE WithSubs(Chosen(mainFile).cfg, subsFile)
  /\ beside = acked.apiPort
  /\ commits = 0 /\ faults = 0 /\ crashes = 0

Start == StartRewriting \/ StartBootstrapping \/ StartPlain \/ StartRefused

Next ==
  \/ Start \/ SaveSubs \/ SaveMain \/ SaveToken \/ Crash
  \/ \E k \in Keys : DeleteKey(k) \/ \E tools \in BOOLEAN : AddKey(k, tools) \/ UpdateKey(k, tools)
  \/ \E a \in Accounts :
       \/ DeleteAccount(a) \/ Ban(a) \/ LoggedIn(a)
       \/ \E p \in Proxies \cup {None} : AddAccount(a, p) \/ UpdateAccountProxy(a, p)
  \/ \E p \in Proxies : AddProxy(p) \/ DeleteProxy(p)
  \/ \E s \in SUBSET Subs : ChangeSubs(s) \/ \E p \in ApiPorts : UpdateBridge(p, s)
  \/ UpdateConfig
  \/ \E in \in Imports : BatchImport(in) \/ ImportMerge(in) \/ ImportReplace(in)
  \/ \E asked \in Requested : CheckSettings(asked)
  \/ \E call \in checked : ApplySettings(call)

Spec == Init /\ [][Next]_vars

-----------------------------------------------------------------------------
(* What a start would load from the files as they are. *)
Reload == IF Chosen(mainFile) = NoText THEN NoText ELSE WithSubs(Chosen(mainFile).cfg, subsFile)

\* The variables keep their types, the two lists of API keys name the same keys, a
\* migration is pending only while config.json still embeds subscriptions or is being
\* rewritten, and nothing is owed to the files of a store that never writes.
ConfigTypeOK ==
  /\ mainFile \in Files /\ subsFile \in SubsFiles
  /\ status \in {"down", "up", "refused"} /\ fromEnv \in BOOLEAN
  /\ raw \subseteq {"proxies", "limits"} /\ beside \in Nat
  /\ pc \in {"idle", "subs", "main"} /\ last \in {"none", "skipped", "ok", "failed"}
  /\ cfg \in Settled
  /\ dirty \subseteq {"main", "subs"} /\ blind \subseteq {"main", "subs", "embedded"}
  /\ migrate /\ Readable(mainFile) => mainFile.embedded # {}
  /\ status = "up" /\ ReadOnly => pc = "idle"

(***************************************************************************)
(* A save that was answered without error left nothing behind: a start now *)
(* would load the configuration in memory.  That is what the two dirty     *)
(* bits, which let a save skip a file, have to guarantee over failed saves *)
(* and migrations.  Store.Update and UpdateAccountToken, store.go.  The    *)
(* variable "blind" names the debts no bit tells of.                       *)
(***************************************************************************)
SavedIsComplete ==
  status = "up" /\ pc = "idle" /\ last = "ok" =>
    /\ "main" \notin blind => Reload # NoText /\ Core(Reload) = Core(cfg)
    /\ blind = {} => Reload.subs = cfg.subs

(***************************************************************************)
(* However the daemon died, each file that can still be read holds what    *)
(* was last told to be saved or what a later transaction wrote over it:    *)
(* never something older, and no subscription is lost between the two      *)
(* files while it moves from one to the other.  saveLocked, store.go.      *)
(***************************************************************************)
AckedSurvives ==
  status # "refused" /\ (status = "up" => ~ReadOnly) /\ Readable(mainFile) /\ Reload # NoText
  /\ ~(setup.env = "valid" /\ ~setup.writeback) =>
    /\ Core(Reload) \in {Core(c) : c \in tried \cup {acked}}
    /\ subsFile # Torn /\ "subs" \notin blind /\ (subsFile = Absent => "embedded" \notin blind) =>
         Reload.subs \in {c.subs : c \in tried \cup {acked}}

\* The checks of two of the parts, of which a handler may have left one out.
Passes(c, excepted) ==
  /\ "proxies" \in excepted \/ ValidProxies(c)
  /\ "limits" \in excepted \/ ValidLimits(c.limits)

(***************************************************************************)
(* The store never writes what a start then refuses: ValidateConfig        *)
(* accepts what the files hold after any save, also one that failed or was *)
(* cut off between or in the two files (LoadStoreWithError makes NewApp    *)
(* fail otherwise, router.go).  Excepted by name: parts that a handler     *)
(* without that check stored (raw: updateConfig, batchImport, and an       *)
(* updateSettings call overtaken by another since it checked); and ports   *)
(* beside an API port that is not the one they were saved with (beside):   *)
(* one file may then give out the port the other has for the API, although *)
(* validateMutation says that what it passes can always be loaded.         *)
(***************************************************************************)
StartsAgain ==
  Reload # NoText =>
    /\ Passes(Reload, raw)
    /\ Reload.apiPort = beside => ValidPorts(Reload)

(***************************************************************************)
(* A ban is lifted by a login only: no other transaction, import or        *)
(* settings change on a running store clears it while the account exists.  *)
(* The two that replace the whole list of accounts are excepted: they drop *)
(* it.  SetAccountBanned, auth/request.go.                                 *)
(***************************************************************************)
BanHolds ==
  [][\A a \in DOMAIN cfg.accounts \cap DOMAIN cfg'.accounts :
       cfg.accounts[a].banned /\ ~cfg'.accounts[a].banned =>
         LoggedIn(a) \/ UpdateConfig \/ \E in \in Imports : ImportReplace(in)]_vars

\* A key that was deleted is not in either list, although the other list still held it
\* when the transaction ended. deleteKey and ReconcileCredentials.
DeletedKeyIsGone ==
  [][\A k \in Keys : DeleteKey(k) => k \notin cfg'.keys \cup DOMAIN cfg'.api]_vars

\* The two files follow memory: complete after every save that was answered, and never older
\* than what was answered before, whatever failed or crashed between.
FilesFollow == ConfigTypeOK /\ SavedIsComplete /\ AckedSurvives

\* What an administrator has put out of use stays so: a banned account and a deleted key are
\* not brought back by an edit that is about something else.
EditsHold == BanHolds /\ DeletedKeyIsGone
=============================================================================
