-------------------------- MODULE ConfigStoreProofs --------------------------
(***************************************************************************)
(* Theorems about ConfigStore for every set of keys, accounts, proxies and *)
(* subscriptions, whatever the environment and the first files hold.  What *)
(* a save owes to the files is told by two dirty bits and the pending      *)
(* migration; the inductive invariant says of each bit what is true of its *)
(* file while the bit is clear, in terms of what a start would load, and   *)
(* of each readable file that it holds nothing older than what was last    *)
(* told to be saved.                                                       *)
(***************************************************************************)
EXTENDS ConfigStore, TLAPS

\* A store whose files count: where the environment wins for good nothing is written.
Follows == setup.env = "unset" \/ setup.writeback

\* What was last told to be saved, and what came after it.
Versions == tried \cup {acked}
CoreKnown(c) == \E v \in Versions : Core(v) = Core(c)
SubsKnown(s) == \E v \in Versions : v.subs = s

\* What is true of the variables while the daemon is down, and what belongs together.
Types ==
  /\ setup \in [env : {"unset", "valid", "invalid"}, writeback : BOOLEAN,
                path : {"explicit", "default", "container"}]
  /\ mainFile \in Files /\ subsFile \in SubsFiles
  /\ status \in {"down", "up", "refused"}
  /\ pc \in {"idle", "subs", "main"} /\ last \in {"none", "skipped", "ok", "failed"}
  /\ cfg \in Settled
  /\ dirty \subseteq {"main", "subs"} /\ blind \subseteq {"main", "subs", "embedded"}
  /\ fromEnv => setup.env = "valid"
  /\ status # "up" => cfg = Empty /\ dirty = {} /\ ~migrate /\ pc = "idle" /\ last = "none" /\ checked = {}
  /\ status = "up" /\ ~Follows => setup.env = "valid" /\ fromEnv /\ pc = "idle" /\ last # "ok"

\* The lock is held from the first file to the second: once the subscriptions are written
\* they are not owed any more; and a save that was answered owes nothing.
SaveSteps ==
  /\ pc = "main" => "subs" \notin dirty
  /\ last = "ok" => pc = "idle" /\ dirty = {} /\ ~migrate

\* config.json while its bit is clear.
MainUpToDate ==
  /\ status = "up" /\ Readable(mainFile) => (migrate <=> mainFile.embedded # {})
  /\ status = "up" /\ Follows =>
       /\ "main" \notin dirty /\ Readable(mainFile) => mainFile.core = Core(cfg)
       /\ "main" \notin dirty \cup blind /\ ~migrate =>
            /\ Chosen(mainFile) # NoText /\ Core(Chosen(mainFile).cfg) = Core(cfg)
            /\ "embedded" \notin blind => Chosen(mainFile).cfg.subs = {}

\* mihomo_subscriptions.json while its bit is clear.
SubsUpToDate ==
  status = "up" /\ Follows /\ "subs" \notin dirty =>
    /\ Readable(subsFile) => subsFile.subs = cfg.subs
    /\ ~Readable(subsFile) /\ "subs" \notin blind /\ (~migrate \/ pc = "main") => cfg.subs = {}

\* A file that can be read holds nothing older than what was told to be saved.
NothingOlder ==
  Follows /\ (status = "up" \/ (status = "down" /\ Chosen(mainFile) # NoText)) =>
    /\ status = "up" => cfg \in Versions
    /\ Readable(mainFile) => CoreKnown(mainFile.core)
    /\ Readable(subsFile) => SubsKnown(subsFile.subs)
    /\ Readable(mainFile) /\ subsFile = Absent /\ blind \cap {"subs", "embedded"} = {} =>
         SubsKnown(mainFile.embedded)

\* While a migration is pending config.json tells the subscriptions that were told last, or
\* is known to be older.
PendingKnown ==
  status = "up" /\ Follows /\ migrate /\ Readable(mainFile) /\ "embedded" \notin blind =>
    SubsKnown(mainFile.embedded)

IInv == Types /\ SaveSteps /\ MainUpToDate /\ SubsUpToDate /\ NothingOlder /\ PendingKnown

-----------------------------------------------------------------------------
(* The operators. *)

LEMMA PartialFacts ==
  ASSUME NEW S, NEW T, NEW f
  PROVE  f \in Partial(S, T) <=> \E D \in SUBSET S : f \in [D -> T]
BY DEF Partial

LEMMA EmptySettled == Empty \in Settled /\ Empty.subs = {}
<1>1. <<>> \in ApiKeys /\ DOMAIN <<>> = {}
  BY PartialFacts, <<>> \in [{} -> BOOLEAN] DEF ApiKeys
<1>2. <<>> \in AccountSets
  BY PartialFacts, <<>> \in [{} -> [proxy : Proxies \cup {None}, banned : BOOLEAN]] DEF AccountSets
<1> QED BY <1>1, <1>2 DEF Empty, Settled, Configs, Limits

\* Setting the subscriptions of a configuration, or dropping them as config.json does.
LEMMA SubsOnly ==
  ASSUME NEW c \in Settled, NEW s \in SUBSET Subs
  PROVE  /\ c.subs \in SUBSET Subs
         /\ [c EXCEPT !.subs = s] \in Settled /\ [c EXCEPT !.subs = s].subs = s
         /\ Core([c EXCEPT !.subs = s]) = Core(c)
         /\ Core(c) \in Settled /\ Core(c).subs = {} /\ Core(Core(c)) = Core(c)
         /\ c.subs = {} => Core(c) = c
<1>1. c \in [keys : SUBSET Keys, api : ApiKeys, accounts : AccountSets, proxies : SUBSET Proxies,
             limits : Limits, apiPort : Nat, subs : SUBSET Subs] /\ c.keys = DOMAIN c.api
  BY DEF Settled, Configs
<1> QED BY <1>1 DEF Core, Settled, Configs

\* What config.json is written with.
LEMMA TextFacts ==
  ASSUME NEW c \in Settled
  PROVE  /\ Text(c) \in Files /\ Readable(Text(c))
         /\ Text(c).core = Core(c) /\ Text(c).embedded = {}
BY SubsOnly, {} \in SUBSET Subs DEF Text, Files, Readable

LEMMA FileKinds ==
  /\ Absent \in Files /\ Torn \in Files /\ Absent \in SubsFiles /\ Torn \in SubsFiles
  /\ ~Readable(Absent) /\ ~Readable(Torn) /\ Absent # Torn
BY DEF Absent, Torn, Files, SubsFiles, Readable

LEMMA SubsTextFacts ==
  ASSUME NEW c \in Settled
  PROVE  /\ SubsText(c) \in SubsFiles
         /\ c.subs = {} => SubsText(c) = Absent
         /\ c.subs # {} => Readable(SubsText(c)) /\ SubsText(c).subs = c.subs
<1>1. c.subs \in SUBSET Subs
  BY DEF Settled, Configs
<1>2. CASE c.subs = {}
  BY <1>2, FileKinds DEF SubsText
<1>3. CASE c.subs # {}
  <2>1. c.subs \in {s \in SUBSET Subs : s # {}}
    BY <1>1, <1>3
  <2>2. SubsText(c) = [is |-> "text", subs |-> c.subs]
    BY <1>3 DEF SubsText
  <2> QED BY <1>3, <2>1, <2>2 DEF SubsFiles, Readable
<1> QED BY <1>2, <1>3

LEMMA FileFacts ==
  /\ \A m \in Files : Readable(m) => m.core \in Settled /\ m.core.subs = {} /\ m.embedded \in SUBSET Subs
  /\ \A s \in SubsFiles : Readable(s) => s.subs \in SUBSET Subs /\ s.subs # {}
  /\ \A s \in SubsFiles : ~Readable(s) => s = Absent \/ s = Torn
<1>1. \A s \in [is : {"absent", "torn"}] : s = [is |-> s.is] /\ s.is \in {"absent", "torn"}
  OBVIOUS
<1>2. ASSUME NEW s \in SubsFiles, ~Readable(s) PROVE s = Absent \/ s = Torn
  <2>1. s \in [is : {"absent", "torn"}]
    BY <1>2 DEF SubsFiles, Readable
  <2> QED BY <1>1, <2>1 DEF Absent, Torn
<1>3. ASSUME NEW m \in Files, Readable(m)
      PROVE  m.core \in Settled /\ m.core.subs = {} /\ m.embedded \in SUBSET Subs
  BY <1>3 DEF Files, Readable
<1>4. ASSUME NEW s \in SubsFiles, Readable(s)
      PROVE  s.subs \in SUBSET Subs /\ s.subs # {}
  BY <1>4 DEF SubsFiles, Readable
<1> QED BY <1>2, <1>3, <1>4

\* What a start reads: the file where the store follows it.
LEMMA ChosenFacts ==
  ASSUME setup \in [env : {"unset", "valid", "invalid"}, writeback : BOOLEAN,
                    path : {"explicit", "default", "container"}],
         NEW m \in Files
  PROVE  /\ Chosen(m) # NoText => Chosen(m).cfg \in Settled
         /\ Chosen(m) # NoText /\ Chosen(m).fromEnv => setup.env = "valid"
         /\ Chosen(m) # NoText /\ ~Follows => setup.env = "valid" /\ Chosen(m).fromEnv
         /\ Follows /\ Readable(m) =>
              /\ Chosen(m) # NoText /\ Chosen(m).cfg.subs = m.embedded
              /\ Core(Chosen(m).cfg) = m.core
<1>1. Empty \in Settled /\ EnvConfig \in Settled /\ LegacyConfig \in Settled
  BY EmptySettled, ConfigAssumption
<1>2. Readable(m) => /\ Decoded(m) \in Settled /\ Decoded(m).subs = m.embedded
                     /\ Core(Decoded(m)) = m.core
  <2> SUFFICES ASSUME Readable(m)
               PROVE  /\ Decoded(m) \in Settled /\ Decoded(m).subs = m.embedded
                      /\ Core(Decoded(m)) = m.core
    OBVIOUS
  <2>1. m.core \in Settled /\ m.core.subs = {} /\ m.embedded \in SUBSET Subs
    BY FileFacts
  <2> QED BY <2>1, SubsOnly DEF Decoded
<1> QED BY <1>1, <1>2 DEF Chosen, NoText, Follows

LEMMA WithSubsFacts ==
  ASSUME NEW c \in Settled, NEW s \in SubsFiles
  PROVE  /\ WithSubs(c, s) \in Settled /\ Core(WithSubs(c, s)) = Core(c)
         /\ Readable(s) => WithSubs(c, s).subs = s.subs
         /\ ~Readable(s) => WithSubs(c, s) = c
BY SubsOnly, FileFacts DEF WithSubs

\* A transaction leaves both lists of keys naming the same keys, and the rest as it is.
LEMMA NormalFacts ==
  ASSUME NEW next \in Configs, NEW base \in Configs
  PROVE  LET c == Normalize(Reconcile(next, base))
         IN  /\ c \in Settled
             /\ c.accounts = next.accounts /\ c.proxies = next.proxies
             /\ c.limits = next.limits /\ c.apiPort = next.apiPort /\ c.subs = next.subs
<1> DEFINE flag(k) == IF k \in DOMAIN base.api THEN base.api[k] ELSE FALSE
           api == IF next.keys # base.keys /\ next.api = base.api
                  THEN KeysFromStrings(next.keys, base.api) ELSE next.api
           r == Reconcile(next, base)
           c == Normalize(r)
<1>1. next \in [keys : SUBSET Keys, api : ApiKeys, accounts : AccountSets, proxies : SUBSET Proxies,
                limits : Limits, apiPort : Nat, subs : SUBSET Subs]
  BY DEF Configs
<1>2. \A k \in next.keys : flag(k) \in BOOLEAN
  <2>1. base.api \in Partial(Keys, BOOLEAN)
    BY DEF Configs, ApiKeys
  <2>2. PICK D \in SUBSET Keys : base.api \in [D -> BOOLEAN]
    BY <2>1, PartialFacts
  <2> QED BY <2>2
<1>3. KeysFromStrings(next.keys, base.api) \in ApiKeys
  BY <1>1, <1>2, PartialFacts DEF ApiKeys, KeysFromStrings
<1>4. api \in ApiKeys /\ DOMAIN api \in SUBSET Keys
  BY <1>1, <1>3, PartialFacts DEF ApiKeys
<1>5. r = [next EXCEPT !.api = api, !.keys = DOMAIN api]
  BY DEF Reconcile
<1> HIDE DEF api
<1>6. r \in Configs /\ r.keys = DOMAIN r.api /\ r.accounts = next.accounts /\ r.proxies = next.proxies
      /\ r.limits = next.limits /\ r.apiPort = next.apiPort /\ r.subs = next.subs
  BY <1>1, <1>4, <1>5 DEF Configs
<1> HIDE DEF r
<1> DEFINE Goal == /\ c \in Settled
                    /\ c.accounts = next.accounts /\ c.proxies = next.proxies
                    /\ c.limits = next.limits /\ c.apiPort = next.apiPort /\ c.subs = next.subs
<1>7. CASE DOMAIN r.api # {}
  <2>1. c = [r EXCEPT !.keys = DOMAIN r.api]
    BY <1>7 DEF Normalize
  <2>2. r.keys \in SUBSET Keys
    BY <1>6 DEF Configs
  <2>3. [r EXCEPT !.keys = DOMAIN r.api] \in Configs
    BY <1>6, <2>2 DEF Configs
  <2>4. Goal
    BY <1>6, <2>1, <2>2, <2>3 DEF Settled, Configs
  <2> QED BY <2>4 DEF r
<1>8. CASE DOMAIN r.api = {}
  <2>1. c = [r EXCEPT !.api = [k \in r.keys |-> FALSE]]
    BY <1>8 DEF Normalize
  <2>2. r.keys \in SUBSET Keys /\ [k \in r.keys |-> FALSE] \in [r.keys -> BOOLEAN]
    BY <1>6 DEF Configs
  <2>3. [k \in r.keys |-> FALSE] \in ApiKeys
    BY <2>2, PartialFacts DEF ApiKeys
  <2>4. [r EXCEPT !.api = [k \in r.keys |-> FALSE]] \in Configs
    BY <1>6, <2>3 DEF Configs
  <2>5. Goal
    BY <1>6, <2>1, <2>3, <2>4 DEF Settled, Configs
  <2> QED BY <2>5 DEF r
<1> QED BY <1>7, <1>8

-----------------------------------------------------------------------------
(* The steps. *)

LEMMA InitInv == Init => IInv
<1> SUFFICES ASSUME Init PROVE IInv
  OBVIOUS
<1>1. /\ setup \in [env : {"unset", "valid", "invalid"}, writeback : BOOLEAN,
                    path : {"explicit", "default", "container"}]
      /\ mainFile \in Files /\ subsFile \in SubsFiles
  BY ConfigAssumption DEF Init
<1>2. Types
  BY <1>1, EmptySettled DEF Init, Types
<1>3. SaveSteps /\ MainUpToDate /\ SubsUpToDate /\ PendingKnown
  BY DEF Init, SaveSteps, MainUpToDate, SubsUpToDate, PendingKnown
<1>4. NothingOlder
  <2> SUFFICES ASSUME Follows, Chosen(mainFile) # NoText
               PROVE  /\ Readable(mainFile) => CoreKnown(mainFile.core)
                      /\ Readable(subsFile) => SubsKnown(subsFile.subs)
                      /\ Readable(mainFile) /\ subsFile = Absent => SubsKnown(mainFile.embedded)
    BY DEF NothingOlder, Init
  <2>1. acked = WithSubs(Chosen(mainFile).cfg, subsFile) /\ acked \in Versions
    BY DEF Init, Versions
  <2>2. Chosen(mainFile).cfg \in Settled
    BY <1>1, ChosenFacts
  <2>3. /\ Core(acked) = Core(Chosen(mainFile).cfg)
        /\ Readable(subsFile) => acked.subs = subsFile.subs
        /\ ~Readable(subsFile) => acked = Chosen(mainFile).cfg
    BY <1>1, <2>1, <2>2, WithSubsFacts
  <2>4. Readable(mainFile) => /\ Core(acked) = mainFile.core /\ mainFile.core = Core(mainFile.core)
                              /\ Chosen(mainFile).cfg.subs = mainFile.embedded
    BY <1>1, <2>3, ChosenFacts, FileFacts, SubsOnly, {} \in SUBSET Subs
  <2> QED BY <2>1, <2>3, <2>4, FileKinds DEF CoreKnown, SubsKnown
<1> QED BY <1>2, <1>3, <1>4 DEF IInv

\* A start that has chosen its text and left the two files as m and s.
LEMMA BeginInv ==
  ASSUME IInv, status = "down",
         NEW text, NEW env \in BOOLEAN, NEW m \in Files, NEW s \in SubsFiles,
         text.cfg \in Settled,
         env => setup.env = "valid",
         ~Follows => setup.env = "valid" /\ env,
         Follows /\ Readable(m) => /\ m.core = Core(text.cfg)
                                   /\ m.embedded = text.cfg.subs \/ m.embedded = {},
         Begin(text, env, m, s)
  PROVE  IInv'
<1> DEFINE c == WithSubs(text.cfg, s)
           pending == Readable(m) /\ m.embedded # {}
<1>1. /\ c \in Settled /\ Core(c) = Core(text.cfg)
      /\ Readable(s) => c.subs = s.subs
      /\ ~Readable(s) => c = text.cfg
      /\ Core(Core(c)) = Core(c) /\ Core(text.cfg) = Core(Core(text.cfg))
  BY WithSubsFacts, SubsOnly, {} \in SUBSET Subs
<1>2. /\ mainFile' = m /\ subsFile' = s
      /\ UNCHANGED <<setup, dirty, pc, last, checked>>
      /\ dirty = {} /\ pc = "idle" /\ last = "none" /\ ~migrate /\ cfg = Empty /\ checked = {}
  BY DEF Begin, IInv, Types
<1>3. (Follows <=> Follows') /\ Chosen(mainFile)' = Chosen(m)
  BY <1>2 DEF Follows, Chosen
<1>4. CASE ~Valid(c)
  <2>1. status' = "refused" /\ UNCHANGED <<cfg, fromEnv, migrate, blind, raw, beside, acked, tried>>
    BY <1>4 DEF Begin
  <2>2. Types'
    BY <1>2, <1>3, <2>1 DEF IInv, Types
  <2>3. SaveSteps' /\ MainUpToDate' /\ SubsUpToDate' /\ NothingOlder' /\ PendingKnown'
    BY <1>2, <2>1 DEF SaveSteps, MainUpToDate, SubsUpToDate, NothingOlder, PendingKnown
  <2> QED BY <2>2, <2>3 DEF IInv
<1>5. CASE Valid(c)
  <2>1. /\ status' = "up" /\ cfg' = c /\ fromEnv' = env /\ (migrate' <=> pending)
        /\ blind' = IF pending THEN Outdated(m, s) ELSE Unflagged(c, m, s)
        /\ acked' = c /\ tried' = {}
    BY <1>5 DEF Begin
  <2>2. blind' \subseteq {"main", "subs", "embedded"}
    BY <2>1 DEF Outdated, Unflagged
  <2> HIDE DEF c
  <2>3. Types'
    BY <1>1, <1>2, <1>3, <2>1, <2>2 DEF IInv, Types
  <2>4. SaveSteps'
    BY <1>2 DEF SaveSteps
  <2>5. MainUpToDate'
    BY <1>1, <1>2, <1>3, <2>1 DEF MainUpToDate, Unflagged
  <2>6. SubsUpToDate'
    BY <1>1, <1>2, <1>3, <2>1 DEF SubsUpToDate, Unflagged
  <2>7. \A v : v \in Versions' <=> v = c
    BY <2>1 DEF Versions
  <2>8. NothingOlder'
    BY <1>1, <1>2, <1>3, <2>1, <2>7, FileKinds DEF NothingOlder, Unflagged, CoreKnown, SubsKnown
  <2>9. PendingKnown'
    BY <1>1, <1>2, <1>3, <2>1, <2>7 DEF PendingKnown, Outdated, SubsKnown
  <2> QED BY <2>3, <2>4, <2>5, <2>6, <2>8, <2>9 DEF IInv
<1> QED BY <1>4, <1>5

LEMMA StartInv == IInv /\ Start => IInv'
<1> SUFFICES ASSUME IInv, Start PROVE IInv'
  OBVIOUS
<1>1. Types /\ mainFile \in Files /\ subsFile \in SubsFiles
  BY DEF IInv, Types
<1>2. /\ Chosen(mainFile) # NoText => Chosen(mainFile).cfg \in Settled
      /\ Chosen(mainFile) # NoText /\ Chosen(mainFile).fromEnv => setup.env = "valid"
      /\ Chosen(mainFile) # NoText /\ ~Follows => setup.env = "valid" /\ Chosen(mainFile).fromEnv
      /\ Follows /\ Readable(mainFile) =>
              /\ Chosen(mainFile) # NoText /\ Chosen(mainFile).cfg.subs = mainFile.embedded
              /\ Core(Chosen(mainFile).cfg) = mainFile.core
  BY <1>1, ChosenFacts DEF Types
<1>3. CASE StartRewriting
  <2>1. /\ status = "down" /\ Readable(mainFile) /\ setup.env # "valid" /\ Chosen(mainFile) # NoText
        /\ \E m \in {Text(mainFile.core), mainFile, Torn} : Begin(Chosen(mainFile), FALSE, m, subsFile)
    BY <1>3 DEF StartRewriting
  <2>2. PICK m \in {Text(mainFile.core), mainFile, Torn} : Begin(Chosen(mainFile), FALSE, m, subsFile)
    BY <2>1
  <2>3. mainFile.core \in Settled /\ Core(mainFile.core) = mainFile.core
    BY <1>1, <2>1, FileFacts, SubsOnly, {} \in SUBSET Subs
  <2>4. /\ m \in Files
        /\ Readable(m) => m.core = mainFile.core /\ (m.embedded = mainFile.embedded \/ m.embedded = {})
    BY <1>1, <2>3, TextFacts, FileKinds
  <2> QED BY <1>1, <1>2, <2>1, <2>2, <2>4, BeginInv
<1>4. CASE StartBootstrapping
  <2>1. /\ status = "down" /\ setup.env = "valid" /\ setup.writeback /\ mainFile = Absent
        /\ \E env \in BOOLEAN, m \in {Text(EnvConfig), Absent, Torn}, s \in {SubsText(EnvConfig), subsFile, Torn} :
             Begin(Chosen(mainFile), env, m, s)
    BY <1>4 DEF StartBootstrapping
  <2>2. PICK env \in BOOLEAN, m \in {Text(EnvConfig), Absent, Torn}, s \in {SubsText(EnvConfig), subsFile, Torn} :
             Begin(Chosen(mainFile), env, m, s)
    BY <2>1
  <2>3. Chosen(mainFile).cfg = EnvConfig /\ EnvConfig \in Settled /\ Follows
    BY <2>1, FileKinds, ConfigAssumption DEF Chosen, Follows
  <2>4. /\ m \in Files /\ s \in SubsFiles
        /\ Readable(m) => m.core = Core(EnvConfig) /\ m.embedded = {}
    BY <1>1, <2>3, TextFacts, SubsTextFacts, FileKinds
  <2> QED BY <2>1, <2>2, <2>3, <2>4, BeginInv
<1>5. CASE StartPlain
  <2>1. /\ status = "down" /\ Chosen(mainFile) # NoText
        /\ Begin(Chosen(mainFile), Chosen(mainFile).fromEnv, mainFile, subsFile)
    BY <1>5 DEF StartPlain
  <2>2. Chosen(mainFile).fromEnv \in BOOLEAN
    BY <2>1, <1>1 DEF Chosen, NoText, Types
  <2> QED BY <1>1, <1>2, <2>1, <2>2, BeginInv
<1>6. CASE StartRefused
  BY <1>6 DEF StartRefused, disk, memory, IInv, Types, SaveSteps, MainUpToDate, SubsUpToDate,
              NothingOlder, PendingKnown, Follows
<1> QED BY <1>3, <1>4, <1>5, <1>6 DEF Start

\* A transaction adds a version and marks the files it is not in.
LEMMA TransactInv ==
  ASSUME IInv, NEW next \in Configs, Transact(next)
  PROVE  IInv'
<1> DEFINE c == Normalize(Reconcile(next, cfg))
<1>1. cfg \in Settled /\ cfg \in Configs
  BY DEF IInv, Types, Settled
<1>2. c \in Settled
  BY <1>1, NormalFacts
<1>3. /\ status = "up" /\ pc = "idle" /\ cfg' = c /\ tried' = tried \cup {c}
      /\ dirty' = dirty \cup MarkDirty(cfg, c)
      /\ UNCHANGED <<setup, mainFile, subsFile, status, fromEnv, migrate, blind, acked>>
      /\ pc' = IF ReadOnly THEN "idle" ELSE "subs"
      /\ last' = IF ReadOnly THEN "skipped" ELSE "none"
  BY DEF Transact, Ready, BeginSave, disk
<1> HIDE DEF c
<1>4. (Follows <=> Follows') /\ Chosen(mainFile)' = Chosen(mainFile)
  BY <1>3 DEF Follows, Chosen
<1>5. /\ "main" \notin dirty' => "main" \notin dirty /\ Core(c) = Core(cfg)
      /\ "subs" \notin dirty' => "subs" \notin dirty /\ c.subs = cfg.subs
      /\ dirty' \subseteq {"main", "subs"}
  BY <1>3 DEF MarkDirty, IInv, Types
<1>6. \A v : v \in Versions' <=> v \in Versions \/ v = c
  BY <1>3 DEF Versions
<1>7. Types'
  BY <1>2, <1>3, <1>4, <1>5 DEF IInv, Types, ReadOnly, Follows
<1>8. SaveSteps'
  BY <1>3 DEF IInv, SaveSteps
<1>9. MainUpToDate'
  BY <1>3, <1>4, <1>5 DEF IInv, MainUpToDate
<1>10. SubsUpToDate'
  BY <1>3, <1>4, <1>5 DEF IInv, SubsUpToDate
<1>11. NothingOlder' /\ PendingKnown'
  BY <1>3, <1>4, <1>6 DEF IInv, NothingOlder, PendingKnown, CoreKnown, SubsKnown
<1> QED BY <1>7, <1>8, <1>9, <1>10, <1>11 DEF IInv

\* A save that marks nothing, and the check of settings.
LEMMA QuietInv ==
  ASSUME IInv, status = "up", pc = "idle",
         UNCHANGED <<setup, mainFile, subsFile, status, cfg, fromEnv, dirty, migrate, blind, acked, tried>>,
         BeginSave \/ UNCHANGED <<pc, last>>
  PROVE  IInv'
<1>1. (Follows <=> Follows') /\ Chosen(mainFile)' = Chosen(mainFile) /\ Versions' = Versions
  BY DEF Follows, Chosen, Versions
<1>2. Types'
  BY <1>1 DEF IInv, Types, BeginSave, ReadOnly, Follows
<1>3. SaveSteps'
  BY DEF IInv, SaveSteps, BeginSave
<1>4. MainUpToDate' /\ SubsUpToDate'
  BY <1>1 DEF IInv, MainUpToDate, SubsUpToDate, BeginSave
<1>5. NothingOlder' /\ PendingKnown'
  BY <1>1 DEF IInv, NothingOlder, PendingKnown, CoreKnown, SubsKnown
<1> QED BY <1>2, <1>3, <1>4, <1>5 DEF IInv

\* The first file of a save.
LEMMA SaveSubsInv == IInv /\ SaveSubs => IInv'
<1> SUFFICES ASSUME IInv, SaveSubs PROVE IInv'
  OBVIOUS
<1>1. /\ status = "up" /\ pc = "subs" /\ Follows /\ cfg \in Settled /\ cfg \in Versions
      /\ UNCHANGED <<setup, mainFile, status, cfg, fromEnv, migrate, checked>>
  <2>1. /\ status = "up" /\ pc = "subs" /\ cfg \in Settled
        /\ UNCHANGED <<setup, mainFile, status, cfg, fromEnv, migrate, checked>>
    BY DEF SaveSubs, IInv, Types
  <2>2. Follows
    BY <2>1 DEF IInv, Types, Follows
  <2> QED BY <2>1, <2>2 DEF IInv, NothingOlder, Follows
<1>2. (Follows <=> Follows') /\ Chosen(mainFile)' = Chosen(mainFile)
  BY <1>1 DEF Follows, Chosen
<1>3. last # "ok"
  BY <1>1 DEF IInv, SaveSteps
<1>4. CASE ~OwesSubs /\ pc' = "main" /\ UNCHANGED <<subsFile, dirty, blind, beside, last, acked, tried, faults>>
  <2>1. Versions' = Versions /\ "subs" \notin dirty /\ ~migrate
    BY <1>4 DEF Versions, OwesSubs
  <2>2. Types' /\ SaveSteps'
    BY <1>1, <1>2, <1>3, <1>4, <2>1 DEF IInv, Types, SaveSteps
  <2>3. MainUpToDate' /\ SubsUpToDate'
    BY <1>1, <1>2, <1>4, <2>1 DEF IInv, MainUpToDate, SubsUpToDate
  <2>4. NothingOlder' /\ PendingKnown'
    BY <1>1, <1>2, <1>4, <2>1 DEF IInv, NothingOlder, PendingKnown, CoreKnown, SubsKnown
  <2> QED BY <2>2, <2>3, <2>4 DEF IInv
<1>5. CASE WriteSubs /\ pc' = "main" /\ UNCHANGED <<last, acked, tried, faults>>
  <2>1. /\ Versions' = Versions /\ subsFile' = SubsText(cfg)
        /\ dirty' = dirty \ {"subs"} /\ blind' = blind \ {"subs"}
    BY <1>5 DEF Versions, WriteSubs
  <2>2. /\ SubsText(cfg) \in SubsFiles
        /\ cfg.subs = {} => SubsText(cfg) = Absent
        /\ cfg.subs # {} => Readable(SubsText(cfg)) /\ SubsText(cfg).subs = cfg.subs
    BY <1>1, SubsTextFacts
  <2>3. Types' /\ SaveSteps'
    BY <1>1, <1>2, <1>3, <1>5, <2>1, <2>2 DEF IInv, Types, SaveSteps
  <2>4. MainUpToDate' /\ SubsUpToDate'
    BY <1>1, <1>2, <1>5, <2>1, <2>2, FileKinds DEF IInv, MainUpToDate, SubsUpToDate
  <2>5. NothingOlder'
    BY <1>1, <1>2, <2>1, <2>2, FileKinds
       DEF IInv, MainUpToDate, NothingOlder, PendingKnown, CoreKnown, SubsKnown
  <2>6. PendingKnown'
    BY <1>1, <1>2, <2>1 DEF IInv, PendingKnown, SubsKnown
  <2> QED BY <2>3, <2>4, <2>5, <2>6 DEF IInv
<1>6. CASE OwesSubs /\ SubsWriteFails /\ Answer("failed")
  <2>1. /\ Versions' = Versions /\ UNCHANGED <<dirty, blind>>
        /\ pc' = "idle" /\ last' = "failed"
        /\ subsFile' = subsFile \/ subsFile' = Torn
        /\ "subs" \in dirty \/ migrate
    BY <1>6 DEF Versions, SubsWriteFails, Answer, OwesSubs
  <2>2. Types' /\ SaveSteps'
    BY <1>1, <1>2, <2>1, FileKinds DEF IInv, Types, SaveSteps
  <2>3. MainUpToDate' /\ SubsUpToDate'
    BY <1>1, <1>2, <2>1, FileKinds DEF IInv, MainUpToDate, SubsUpToDate
  <2>4. NothingOlder' /\ PendingKnown'
    BY <1>1, <1>2, <2>1, FileKinds DEF IInv, NothingOlder, PendingKnown, CoreKnown, SubsKnown
  <2> QED BY <2>2, <2>3, <2>4 DEF IInv
<1> QED BY <1>4, <1>5, <1>6 DEF SaveSubs

\* The second one, after which nothing is owed.
LEMMA SaveMainInv == IInv /\ SaveMain => IInv'
<1> SUFFICES ASSUME IInv, SaveMain PROVE IInv'
  OBVIOUS
<1>1. /\ status = "up" /\ pc = "main" /\ Follows /\ cfg \in Settled /\ cfg \in Versions
      /\ "subs" \notin dirty /\ last # "ok"
      /\ UNCHANGED <<setup, subsFile, status, cfg, checked>>
  <2>1. /\ status = "up" /\ pc = "main" /\ cfg \in Settled
        /\ UNCHANGED <<setup, subsFile, status, cfg, checked>>
    BY DEF SaveMain, IInv, Types
  <2>2. Follows /\ "subs" \notin dirty /\ last # "ok"
    BY <2>1 DEF IInv, Types, SaveSteps, Follows
  <2> QED BY <2>1, <2>2 DEF IInv, NothingOlder, Follows
<1>2. Follows <=> Follows'
  BY <1>1 DEF Follows
<1>3. CASE ~OwesMain /\ ~Creates /\ Answer("ok") /\ UNCHANGED <<mainFile, fromEnv, dirty, migrate, blind, beside, faults>>
  <2>1. /\ pc' = "idle" /\ last' = "ok" /\ \A v : v \in Versions' <=> v = cfg
        /\ "main" \notin dirty /\ ~migrate /\ mainFile # Absent /\ dirty = {}
    BY <1>1, <1>3 DEF Versions, Answer, OwesMain, Creates, IInv, Types
  <2>2. Chosen(mainFile)' = Chosen(mainFile)
    BY <1>1, <1>3 DEF Chosen
  <2>3. Types' /\ SaveSteps'
    BY <1>1, <1>2, <1>3, <2>1 DEF IInv, Types, SaveSteps
  <2>4. MainUpToDate' /\ SubsUpToDate'
    BY <1>1, <1>2, <1>3, <2>1, <2>2 DEF IInv, MainUpToDate, SubsUpToDate
  <2>5. Core(cfg) = Core(Core(cfg))
    BY <1>1, SubsOnly, {} \in SUBSET Subs
  <2>6. NothingOlder' /\ PendingKnown'
    BY <1>1, <1>2, <1>3, <2>1, <2>2, <2>5, FileKinds
       DEF IInv, NothingOlder, PendingKnown, CoreKnown, SubsKnown, MainUpToDate, SubsUpToDate
  <2> QED BY <2>3, <2>4, <2>6 DEF IInv
<1>4. CASE (OwesMain \/ Creates) /\ WriteMain /\ Answer("ok")
  <2>1. /\ pc' = "idle" /\ last' = "ok" /\ \A v : v \in Versions' <=> v = cfg
        /\ mainFile' = Text(cfg) /\ ~fromEnv' /\ dirty' = {} /\ ~migrate'
        /\ blind' = blind \ {"main", "embedded"}
    BY <1>1, <1>4 DEF Versions, Answer, WriteMain, OwesMain, Creates, IInv, Types
  <2>2. /\ mainFile' \in Files /\ Readable(mainFile') /\ mainFile'.core = Core(cfg) /\ mainFile'.embedded = {}
        /\ Core(cfg) = Core(Core(cfg))
    BY <1>1, <2>1, TextFacts, SubsOnly, {} \in SUBSET Subs
  <2>3. /\ Chosen(mainFile)' # NoText /\ Core(Chosen(mainFile)'.cfg) = Core(cfg)
        /\ Chosen(mainFile)'.cfg.subs = {}
    <3>1. Chosen(mainFile)' = Chosen(Text(cfg))
      BY <1>1, <2>1 DEF Chosen
    <3> QED BY <1>1, <2>1, <2>2, <3>1, ChosenFacts DEF IInv, Types
  <2>4. Types' /\ SaveSteps'
    BY <1>1, <1>2, <2>1, <2>2 DEF IInv, Types, SaveSteps
  <2>5. MainUpToDate' /\ SubsUpToDate'
    BY <1>1, <1>2, <2>1, <2>2, <2>3 DEF IInv, MainUpToDate, SubsUpToDate
  <2>6. NothingOlder' /\ PendingKnown'
    BY <1>1, <1>2, <2>1, <2>2, FileKinds
       DEF IInv, NothingOlder, PendingKnown, CoreKnown, SubsKnown, SubsUpToDate
  <2> QED BY <2>4, <2>5, <2>6 DEF IInv
<1>5. CASE /\ (OwesMain \/ Creates) /\ Answer("failed") /\ mainFile' \in {mainFile, Torn}
           /\ blind' = IF Creates /\ mainFile' = Torn THEN blind \cup {"main"} ELSE blind
           /\ UNCHANGED <<fromEnv, dirty, migrate, beside>>
  <2>1. /\ pc' = "idle" /\ last' = "failed" /\ Versions' = Versions
        /\ mainFile' = mainFile \/ mainFile' = Torn
        /\ mainFile' # mainFile => "main" \in dirty \cup blind' \/ migrate
        /\ blind \subseteq blind' /\ blind' \subseteq blind \cup {"main"}
    BY <1>5 DEF Versions, Answer, OwesMain, Creates
  <2>2. mainFile' = mainFile => Chosen(mainFile)' = Chosen(mainFile)
    BY <1>1 DEF Chosen
  <2>3. Types' /\ SaveSteps'
    BY <1>1, <1>2, <1>5, <2>1, FileKinds DEF IInv, Types, SaveSteps
  <2>4. MainUpToDate' /\ SubsUpToDate'
    BY <1>1, <1>2, <1>5, <2>1, <2>2, FileKinds DEF IInv, MainUpToDate, SubsUpToDate
  <2>5. NothingOlder' /\ PendingKnown'
    <3>1. Readable(mainFile') => mainFile' = mainFile
      BY <2>1, FileKinds
    <3>2. blind' \cap {"subs", "embedded"} = {} => blind \cap {"subs", "embedded"} = {}
      BY <2>1
    <3>3. "embedded" \notin blind' => "embedded" \notin blind
      BY <2>1
    <3> QED BY <1>1, <1>2, <1>5, <2>1, <3>1, <3>2, <3>3 DEF IInv, NothingOlder, PendingKnown, CoreKnown, SubsKnown
  <2> QED BY <2>3, <2>4, <2>5 DEF IInv
<1> QED BY <1>3, <1>4, <1>5 DEF SaveMain

\* A crash leaves either file old, torn or new.
LEMMA CrashInv == IInv /\ Crash => IInv'
<1> SUFFICES ASSUME IInv, Crash PROVE IInv'
  OBVIOUS
<1>1. /\ status = "up" /\ status' = "down" /\ pc' = "idle" /\ last' = "none"
      /\ cfg' = Empty /\ ~fromEnv' /\ dirty' = {} /\ ~migrate' /\ checked' = {}
      /\ UNCHANGED <<setup, blind, acked, tried>>
      /\ cfg \in Settled /\ mainFile \in Files /\ subsFile \in SubsFiles
  BY DEF Crash, IInv, Types
<1>2. (Follows <=> Follows') /\ Versions' = Versions
  BY <1>1 DEF Follows, Versions
<1>3. \/ mainFile' = mainFile \/ mainFile' = Torn
      \/ pc = "main" /\ mainFile' = Text(cfg)
  BY DEF Crash, disk
<1>4. \/ subsFile' = subsFile \/ subsFile' = Torn
      \/ pc = "subs" /\ subsFile' = SubsText(cfg)
  BY DEF Crash, disk
<1>5. /\ Text(cfg) \in Files /\ Readable(Text(cfg)) /\ Text(cfg).core = Core(cfg) /\ Text(cfg).embedded = {}
      /\ Core(cfg) = Core(Core(cfg))
      /\ SubsText(cfg) \in SubsFiles
      /\ cfg.subs = {} => SubsText(cfg) = Absent
      /\ cfg.subs # {} => Readable(SubsText(cfg)) /\ SubsText(cfg).subs = cfg.subs
  BY <1>1, TextFacts, SubsTextFacts, SubsOnly, {} \in SUBSET Subs
<1>6. Types'
  BY <1>1, <1>2, <1>3, <1>4, <1>5, EmptySettled, FileKinds DEF IInv, Types
<1>7. SaveSteps' /\ MainUpToDate' /\ SubsUpToDate' /\ PendingKnown'
  BY <1>1 DEF SaveSteps, MainUpToDate, SubsUpToDate, PendingKnown
<1>8. ASSUME Follows PROVE NothingOlder'
  <2>1. /\ cfg \in Versions
        /\ Readable(mainFile) => CoreKnown(mainFile.core)
        /\ Readable(subsFile) => SubsKnown(subsFile.subs)
    BY <1>1, <1>8 DEF IInv, NothingOlder, Follows
  <2>2. Readable(mainFile') => CoreKnown(mainFile'.core)
    BY <1>3, <1>5, <2>1, FileKinds DEF CoreKnown
  <2>3. Readable(subsFile') => SubsKnown(subsFile'.subs)
    BY <1>4, <1>5, <2>1, FileKinds DEF SubsKnown
  <2>4. ASSUME Readable(mainFile'), subsFile' = Absent, blind \cap {"subs", "embedded"} = {}
        PROVE  SubsKnown(mainFile'.embedded)
    <3>1. CASE subsFile' = subsFile
      <4>1. CASE mainFile' = mainFile
        BY <1>1, <1>8, <2>4, <3>1, <4>1 DEF IInv, NothingOlder, Follows
      <4>2. CASE pc = "main" /\ mainFile' = Text(cfg)
        <5>1. "subs" \notin dirty /\ ~Readable(subsFile) /\ "subs" \notin blind
          BY <2>4, <3>1, <4>2, FileKinds DEF IInv, SaveSteps
        <5>2. cfg.subs = {}
          BY <1>1, <1>8, <4>2, <5>1 DEF IInv, SubsUpToDate
        <5> QED BY <1>5, <2>1, <4>2, <5>2 DEF SubsKnown
      <4> QED BY <1>3, <2>4, <4>1, <4>2, FileKinds
    <3>2. CASE pc = "subs" /\ subsFile' = SubsText(cfg)
      <4>1. mainFile' = mainFile /\ cfg.subs = {}
        BY <1>3, <1>5, <2>4, <3>2, FileKinds
      <4>2. CASE migrate
        BY <1>1, <1>8, <2>4, <4>1, <4>2 DEF IInv, PendingKnown
      <4>3. CASE ~migrate
        <5>1. mainFile.embedded = {}
          BY <1>1, <1>8, <2>4, <4>1, <4>3 DEF IInv, MainUpToDate
        <5> QED BY <2>1, <4>1, <5>1 DEF SubsKnown
      <4> QED BY <4>2, <4>3
    <3> QED BY <1>4, <2>4, <3>1, <3>2, FileKinds
  <2> QED BY <1>1, <1>2, <2>1, <2>2, <2>3, <2>4 DEF NothingOlder, CoreKnown, SubsKnown
<1>9. ~Follows => NothingOlder'
  BY <1>2 DEF NothingOlder
<1> QED BY <1>6, <1>7, <1>8, <1>9 DEF IInv

-----------------------------------------------------------------------------
(* The transactions of the handlers. *)

Account == [proxy : Proxies \cup {None}, banned : BOOLEAN]

LEMMA PartialIntro ==
  ASSUME NEW S, NEW T, NEW D \in SUBSET S, NEW f \in [D -> T]
  PROVE  f \in Partial(S, T)
BY PartialFacts

LEMMA PartialElim ==
  ASSUME NEW S, NEW T, NEW f \in Partial(S, T)
  PROVE  DOMAIN f \in SUBSET S /\ f \in [DOMAIN f -> T]
<1>1. PICK D \in SUBSET S : f \in [D -> T]
  BY PartialFacts
<1> QED BY <1>1

LEMMA OverPartial ==
  ASSUME NEW S, NEW T, NEW f \in Partial(S, T), NEW g \in Partial(S, T)
  PROVE  Over(f, g) \in Partial(S, T)
<1>1. /\ DOMAIN f \in SUBSET S /\ f \in [DOMAIN f -> T]
      /\ DOMAIN g \in SUBSET S /\ g \in [DOMAIN g -> T]
  BY PartialElim
<1>2. Over(f, g) \in [DOMAIN f \cup DOMAIN g -> T] /\ DOMAIN f \cup DOMAIN g \in SUBSET S
  BY <1>1 DEF Over
<1> QED BY <1>2, PartialIntro

LEMMA WithPartial ==
  ASSUME NEW S, NEW T, NEW f \in Partial(S, T), NEW x \in S, NEW v \in T
  PROVE  With(f, x, v) \in Partial(S, T)
<1>1. [y \in {x} |-> v] \in Partial(S, T)
  <2>1. [y \in {x} |-> v] \in [{x} -> T] /\ {x} \in SUBSET S
    OBVIOUS
  <2> QED BY <2>1, PartialIntro
<1> QED BY <1>1, OverPartial DEF With

\* What a transaction's configuration is, and that it keeps the bans.
Fine(next) ==
  /\ next \in Configs /\ Transact(next)
  /\ \/ raw' = raw /\ (Passes(cfg, raw) => Passes(next, raw))
     \/ raw' = raw \cup Broken(next)
  /\ ValidPorts(cfg) => ValidPorts(next)
KeepsBans(next) ==
  \A a \in DOMAIN cfg.accounts \cap DOMAIN next.accounts :
    cfg.accounts[a].banned => next.accounts[a].banned

\* The parts of a configuration.
LEMMA Parts ==
  ASSUME Types
  PROVE  /\ cfg \in [keys : SUBSET Keys, api : ApiKeys, accounts : AccountSets, proxies : SUBSET Proxies,
                     limits : Limits, apiPort : Nat, subs : SUBSET Subs]
         /\ DOMAIN cfg.api \in SUBSET Keys /\ cfg.api \in [DOMAIN cfg.api -> BOOLEAN]
         /\ DOMAIN cfg.accounts \in SUBSET Accounts /\ cfg.accounts \in [DOMAIN cfg.accounts -> Account]
<1>1. cfg \in [keys : SUBSET Keys, api : ApiKeys, accounts : AccountSets, proxies : SUBSET Proxies,
               limits : Limits, apiPort : Nat, subs : SUBSET Subs]
  BY DEF Types, Settled, Configs
<1>2. cfg.api \in Partial(Keys, BOOLEAN) /\ cfg.accounts \in Partial(Accounts, Account)
  BY <1>1 DEF ApiKeys, AccountSets, Account
<1> QED BY <1>1, <1>2, PartialElim

\* An edit of the keys, of the subscriptions or of the limits leaves the accounts alone.
LEMMA KeyEdits ==
  ASSUME Types, NEW k \in Keys, NEW tools \in BOOLEAN,
         DeleteKey(k) \/ AddKey(k, tools) \/ UpdateKey(k, tools)
  PROVE  \E next : Fine(next) /\ KeepsBans(next)
<1>1. PICK api \in ApiKeys : Store([cfg EXCEPT !.api = api])
  <2>1. CASE DeleteKey(k)
    <3>1. [j \in DOMAIN cfg.api \ {k} |-> cfg.api[j]] \in [DOMAIN cfg.api \ {k} -> BOOLEAN]
      BY Parts
    <3>2. [j \in DOMAIN cfg.api \ {k} |-> cfg.api[j]] \in ApiKeys
      BY <3>1, Parts, PartialIntro DEF ApiKeys
    <3> QED BY <2>1, <3>2 DEF DeleteKey
  <2>2. CASE AddKey(k, tools)
    <3>1. With(cfg.api, k, tools) \in ApiKeys
      BY Parts, WithPartial DEF ApiKeys
    <3> QED BY <2>2, <3>1 DEF AddKey
  <2>3. CASE UpdateKey(k, tools)
    <3>1. [cfg.api EXCEPT ![k] = tools] \in [DOMAIN cfg.api -> BOOLEAN]
      BY Parts
    <3>2. [cfg.api EXCEPT ![k] = tools] \in ApiKeys
      BY <3>1, Parts, PartialIntro DEF ApiKeys
    <3>3. [cfg EXCEPT !.api[k] = tools] = [cfg EXCEPT !.api = [cfg.api EXCEPT ![k] = tools]]
      BY Parts
    <3> QED BY <2>3, <3>2, <3>3 DEF UpdateKey
  <2> QED BY <2>1, <2>2, <2>3
<1> DEFINE next == [cfg EXCEPT !.api = api]
<1>2. /\ next \in Configs /\ next.accounts = cfg.accounts /\ next.proxies = cfg.proxies
      /\ next.limits = cfg.limits /\ next.apiPort = cfg.apiPort /\ next.subs = cfg.subs
  BY <1>1, Parts DEF Configs
<1>3. Transact(next) /\ raw' = raw
  BY <1>1 DEF Store
<1> HIDE DEF next
<1> QED BY <1>2, <1>3 DEF Fine, KeepsBans, Passes, ValidProxies, ValidPorts

LEMMA BridgeEdits ==
  ASSUME Types, NEW s \in SUBSET Subs, ChangeSubs(s) \/ \E p \in ApiPorts : UpdateBridge(p, s)
  PROVE  \E next : Fine(next) /\ KeepsBans(next)
<1>1. PICK q \in Nat : EditBridge([cfg EXCEPT !.apiPort = q, !.subs = s])
  <2>1. cfg.apiPort \in Nat /\ [cfg EXCEPT !.subs = s] = [cfg EXCEPT !.apiPort = cfg.apiPort, !.subs = s]
    BY Parts
  <2>2. ApiPorts \subseteq Nat
    BY ConfigAssumption
  <2> QED BY <2>1, <2>2 DEF ChangeSubs, UpdateBridge
<1> DEFINE next == [cfg EXCEPT !.apiPort = q, !.subs = s]
<1>2. next \in Configs /\ next.accounts = cfg.accounts /\ next.proxies = cfg.proxies /\ next.limits = cfg.limits
  BY Parts DEF Configs
<1>3. Transact(next) /\ raw' = raw /\ ValidPorts(next)
  BY <1>1 DEF EditBridge, Store, ValidMutation
<1> HIDE DEF next
<1> QED BY <1>2, <1>3 DEF Fine, KeepsBans, Passes, ValidProxies

\* An edit of the accounts gives each a proxy that exists, or none.
LEMMA AccountEdits ==
  ASSUME Types, NEW a \in Accounts, NEW p \in Proxies \cup {None},
         DeleteAccount(a) \/ AddAccount(a, p) \/ UpdateAccountProxy(a, p) \/ Ban(a)
  PROVE  \E next : Fine(next) /\ KeepsBans(next)
<1> DEFINE Proxied(acc) == \A b \in DOMAIN acc : acc[b].proxy \in cfg.proxies \cup {None}
           Held(acc) == \A b \in DOMAIN acc : b \in DOMAIN cfg.accounts /\ cfg.accounts[b].banned => acc[b].banned
<1>1. PICK acc \in AccountSets : /\ Store([cfg EXCEPT !.accounts = acc])
                                 /\ Proxied(cfg.accounts) => Proxied(acc)
                                 /\ Held(acc)
  <2>1. CASE DeleteAccount(a)
    <3> DEFINE acc == [b \in DOMAIN cfg.accounts \ {a} |-> cfg.accounts[b]]
    <3>1. acc \in [DOMAIN cfg.accounts \ {a} -> Account]
      BY Parts
    <3>2. acc \in AccountSets
      BY <3>1, Parts, PartialIntro DEF AccountSets, Account
    <3> QED BY <2>1, <3>2 DEF DeleteAccount
  <2>2. CASE AddAccount(a, p)
    <3> DEFINE acc == With(cfg.accounts, a, [proxy |-> p, banned |-> FALSE])
    <3>1. acc \in AccountSets
      BY Parts, WithPartial, [proxy |-> p, banned |-> FALSE] \in Account DEF AccountSets, Account
    <3>2. a \notin DOMAIN cfg.accounts /\ p \in cfg.proxies \cup {None} /\ Store([cfg EXCEPT !.accounts = acc])
      BY <2>2 DEF AddAccount
    <3>3. (Proxied(cfg.accounts) => Proxied(acc)) /\ Held(acc)
      BY <3>2 DEF With, Over
    <3> QED BY <3>1, <3>2, <3>3
  <2>3. CASE UpdateAccountProxy(a, p)
    <3> DEFINE acc == [cfg.accounts EXCEPT ![a].proxy = p]
    <3>1. a \in DOMAIN cfg.accounts /\ p \in cfg.proxies \cup {None}
      BY <2>3 DEF UpdateAccountProxy
    <3>2. acc \in [DOMAIN cfg.accounts -> Account]
      BY <3>1, Parts DEF Account
    <3>3. acc \in AccountSets
      BY <3>2, Parts, PartialIntro DEF AccountSets, Account
    <3>4. Store([cfg EXCEPT !.accounts = acc])
      <4>1. [cfg EXCEPT !.accounts[a].proxy = p] = [cfg EXCEPT !.accounts = acc]
        BY Parts
      <4> QED BY <2>3, <4>1 DEF UpdateAccountProxy
    <3>5. \A b \in DOMAIN acc : /\ b # a => acc[b] = cfg.accounts[b]
                                /\ acc[b].banned = cfg.accounts[b].banned
                                /\ b = a => acc[b].proxy = p
      BY <3>1, Parts DEF Account
    <3>6. DOMAIN acc = DOMAIN cfg.accounts
      OBVIOUS
    <3> HIDE DEF acc
    <3>7. Proxied(cfg.accounts) => Proxied(acc)
      BY <3>1, <3>5, <3>6
    <3>8. Held(acc)
      BY <3>5, <3>6
    <3> QED BY <3>3, <3>4, <3>7, <3>8
  <2>4. CASE Ban(a)
    <3> DEFINE acc == [cfg.accounts EXCEPT ![a].banned = TRUE]
    <3>1. a \in DOMAIN cfg.accounts
      BY <2>4 DEF Ban
    <3>2. acc \in [DOMAIN cfg.accounts -> Account]
      BY <3>1, Parts DEF Account
    <3>3. acc \in AccountSets
      BY <3>2, Parts, PartialIntro DEF AccountSets, Account
    <3>4. Store([cfg EXCEPT !.accounts = acc])
      <4>1. [cfg EXCEPT !.accounts[a].banned = TRUE] = [cfg EXCEPT !.accounts = acc]
        BY Parts
      <4> QED BY <2>4, <4>1 DEF Ban
    <3>5. \A b \in DOMAIN acc : /\ b # a => acc[b] = cfg.accounts[b]
                                /\ acc[b].proxy = cfg.accounts[b].proxy
                                /\ b = a => acc[b].banned
      BY <3>1, Parts DEF Account
    <3> QED BY <3>1, <3>2, <3>3, <3>4, <3>5
  <2> QED BY <2>1, <2>2, <2>3, <2>4
<1> DEFINE next == [cfg EXCEPT !.accounts = acc]
<1>2. /\ next \in Configs /\ next.accounts = acc /\ next.proxies = cfg.proxies
      /\ next.limits = cfg.limits /\ next.apiPort = cfg.apiPort /\ next.subs = cfg.subs
  BY <1>1, Parts DEF Configs
<1>3. Transact(next) /\ raw' = raw
  BY <1>1 DEF Store
<1>4. (Proxied(cfg.accounts) => Proxied(next.accounts)) /\ Held(next.accounts)
  BY <1>1, <1>2
<1> HIDE DEF next
<1>5. (Passes(cfg, raw) => Passes(next, raw)) /\ (ValidPorts(cfg) => ValidPorts(next))
  BY <1>2, <1>4 DEF Passes, ValidProxies, ValidPorts
<1>6. KeepsBans(next)
  BY <1>4 DEF KeepsBans
<1> QED BY <1>2, <1>3, <1>5, <1>6 DEF Fine

LEMMA ProxyEdits ==
  ASSUME Types, NEW p \in Proxies, AddProxy(p) \/ DeleteProxy(p)
  PROVE  \E next : Fine(next) /\ KeepsBans(next)
<1>1. CASE AddProxy(p)
  <2> DEFINE next == [cfg EXCEPT !.proxies = @ \cup {p}]
  <2>1. /\ next \in Configs /\ next.accounts = cfg.accounts
        /\ next.limits = cfg.limits /\ next.apiPort = cfg.apiPort /\ next.subs = cfg.subs
    BY Parts DEF Configs
  <2>2. Transact(next) /\ raw' = raw /\ ValidProxies(next)
    BY <1>1 DEF AddProxy, Store
  <2> HIDE DEF next
  <2> QED BY <2>1, <2>2 DEF Fine, KeepsBans, Passes, ValidPorts
<1>2. CASE DeleteProxy(p)
  <2> DEFINE unbound(acc) == IF acc.proxy = p THEN [acc EXCEPT !.proxy = None] ELSE acc
             accounts == [a \in DOMAIN cfg.accounts |-> unbound(cfg.accounts[a])]
             next == [cfg EXCEPT !.proxies = @ \ {p}, !.accounts = accounts]
  <2>1. \A acc \in Account : unbound(acc) \in Account /\ unbound(acc).banned = acc.banned
    BY DEF Account
  <2>2. /\ accounts \in [DOMAIN cfg.accounts -> Account] /\ DOMAIN accounts = DOMAIN cfg.accounts
        /\ \A a \in DOMAIN cfg.accounts : accounts[a].banned = cfg.accounts[a].banned
    BY <2>1, Parts
  <2>3. Transact(next) /\ raw' = raw /\ ValidProxies(next)
    BY <1>2 DEF DeleteProxy, Store
  <2> HIDE DEF accounts
  <2>4. accounts \in AccountSets
    BY <2>2, Parts, PartialIntro DEF AccountSets, Account
  <2>5. /\ next \in Configs /\ next.accounts = accounts
        /\ next.limits = cfg.limits /\ next.apiPort = cfg.apiPort /\ next.subs = cfg.subs
    BY <2>4, Parts DEF Configs
  <2> HIDE DEF next
  <2> QED BY <2>2, <2>3, <2>5 DEF Fine, KeepsBans, Passes, ValidPorts
<1> QED BY <1>1, <1>2

\* A login clears the ban of its own account only.
LEMMA LoginEdit ==
  ASSUME Types, NEW a \in Accounts, LoggedIn(a)
  PROVE  \E next : /\ Fine(next)
                   /\ \A b \in DOMAIN cfg.accounts \ {a} :
                        b \in DOMAIN next.accounts /\ cfg.accounts[b].banned => next.accounts[b].banned
<1> DEFINE acc == [cfg.accounts EXCEPT ![a].banned = FALSE]
           next == [cfg EXCEPT !.accounts = acc]
<1>1. a \in DOMAIN cfg.accounts
  BY DEF LoggedIn
<1>2. acc \in [DOMAIN cfg.accounts -> Account]
  BY <1>1, Parts DEF Account
<1>3. acc \in AccountSets
  BY <1>2, Parts, PartialIntro DEF AccountSets, Account
<1>4. [cfg EXCEPT !.accounts[a].banned = FALSE] = next
  BY Parts
<1>5. Transact(next) /\ raw' = raw
  BY <1>4 DEF LoggedIn, Store
<1>6. \A b \in DOMAIN acc : acc[b].proxy = cfg.accounts[b].proxy /\ (b # a => acc[b] = cfg.accounts[b])
  BY <1>1, Parts DEF Account
<1>7. DOMAIN acc = DOMAIN cfg.accounts
  OBVIOUS
<1> HIDE DEF acc
<1>8. /\ next \in Configs /\ next.accounts = acc /\ next.proxies = cfg.proxies
      /\ next.limits = cfg.limits /\ next.apiPort = cfg.apiPort /\ next.subs = cfg.subs
  BY <1>3, Parts DEF Configs
<1> HIDE DEF next
<1>9. (Passes(cfg, raw) => Passes(next, raw)) /\ (ValidPorts(cfg) => ValidPorts(next))
  BY <1>6, <1>7, <1>8 DEF Passes, ValidProxies, ValidPorts
<1> QED BY <1>5, <1>6, <1>7, <1>8, <1>9 DEF Fine

\* Limits asked for over limits that are there.
LEMMA LimitFacts ==
  ASSUME NEW now \in Limits, NEW asked \in Limits
  PROVE  MergeLimits(now, asked) \in Limits
BY DEF Limits, MergeLimits

\* An import that is merged keeps the accounts that are there.
LEMMA MergeEdits ==
  ASSUME Types, NEW in \in Imports, BatchImport(in) \/ ImportMerge(in)
  PROVE  \E next : Fine(next) /\ KeepsBans(next)
<1>1. in \in [keys : SUBSET Keys, api : ApiKeys, accounts : AccountSets, proxies : SUBSET Proxies,
              limits : Limits, apiPort : Nat, subs : SUBSET Subs]
  BY ConfigAssumption DEF Configs
<1>2. /\ DOMAIN in.api \in SUBSET Keys /\ in.api \in [DOMAIN in.api -> BOOLEAN]
      /\ DOMAIN in.accounts \in SUBSET Accounts /\ in.accounts \in [DOMAIN in.accounts -> Account]
  <2>1. in.api \in Partial(Keys, BOOLEAN) /\ in.accounts \in Partial(Accounts, Account)
    BY <1>1 DEF ApiKeys, AccountSets, Account
  <2> QED BY <2>1, PartialElim
<1> DEFINE both == [k \in DOMAIN in.api \cap DOMAIN cfg.api |-> cfg.api[k] \/ in.api[k]]
           api == MergeKeys(cfg.api, in.api)
<1>3. api \in ApiKeys
  <2>1. both \in [DOMAIN in.api \cap DOMAIN cfg.api -> BOOLEAN] /\ DOMAIN in.api \cap DOMAIN cfg.api \in SUBSET Keys
    BY <1>2
  <2>2. both \in Partial(Keys, BOOLEAN)
    BY <2>1, PartialIntro
  <2>3. cfg.api \in Partial(Keys, BOOLEAN) /\ in.api \in Partial(Keys, BOOLEAN)
    BY <1>1, Parts DEF ApiKeys
  <2> HIDE DEF both
  <2>4. Over(both, Over(cfg.api, in.api)) \in Partial(Keys, BOOLEAN)
    BY <2>2, <2>3, OverPartial
  <2> QED BY <2>4 DEF both, MergeKeys, ApiKeys
<1> HIDE DEF api
<1>4. ASSUME NEW new \in AccountSets
      PROVE  /\ MergeAccounts(cfg.accounts, new) \in AccountSets
             /\ \A a \in DOMAIN cfg.accounts : MergeAccounts(cfg.accounts, new)[a] = cfg.accounts[a]
  <2>1. MergeAccounts(cfg.accounts, new) \in AccountSets
    BY Parts, OverPartial DEF MergeAccounts, AccountSets
  <2> QED BY <2>1 DEF MergeAccounts, Over
<1>5. CASE BatchImport(in)
  <2> DEFINE fresh == [a \in DOMAIN in.accounts |-> [in.accounts[a] EXCEPT !.banned = FALSE]]
             acc == MergeAccounts(cfg.accounts, fresh)
             next == [cfg EXCEPT !.api = api, !.accounts = acc]
  <2>1. fresh \in [DOMAIN in.accounts -> Account]
    BY <1>2 DEF Account
  <2>2. fresh \in AccountSets
    BY <2>1, <1>2, PartialIntro DEF AccountSets, Account
  <2>3. Transact(next) /\ raw' = raw \cup Broken(next)
    BY <1>5 DEF BatchImport, StoreUnchecked, api
  <2> HIDE DEF fresh
  <2>4. acc \in AccountSets /\ \A a \in DOMAIN cfg.accounts : acc[a] = cfg.accounts[a]
    BY <2>2, <1>4
  <2> HIDE DEF acc
  <2>5. next \in Configs /\ next.accounts = acc /\ next.apiPort = cfg.apiPort /\ next.subs = cfg.subs
    BY <1>3, <2>4, Parts DEF Configs
  <2> HIDE DEF next
  <2> QED BY <2>3, <2>4, <2>5 DEF Fine, KeepsBans, ValidPorts
<1>6. CASE ImportMerge(in)
  <2> DEFINE acc == MergeAccounts(cfg.accounts, in.accounts)
             limits == MergeLimits(cfg.limits, in.limits)
             next == [cfg EXCEPT !.api = api, !.accounts = acc, !.limits = limits]
  <2>1. Transact(next) /\ raw' = raw /\ Valid(next)
    BY <1>6 DEF ImportMerge, Store, api
  <2>2. acc \in AccountSets /\ \A a \in DOMAIN cfg.accounts : acc[a] = cfg.accounts[a]
    BY <1>1, <1>4
  <2>3. limits \in Limits
    BY <1>1, Parts, LimitFacts
  <2> HIDE DEF acc, limits
  <2>4. next \in Configs /\ next.accounts = acc
    BY <1>3, <2>2, <2>3, Parts DEF Configs
  <2> HIDE DEF next
  <2> QED BY <2>1, <2>2, <2>4 DEF Fine, KeepsBans, Valid, Passes
<1> QED BY <1>5, <1>6

\* The two edits that replace the accounts.
LEMMA ReplacingEdits ==
  ASSUME Types, UpdateConfig \/ \E in \in Imports : ImportReplace(in)
  PROVE  \E next : Fine(next)
<1>1. CASE \E api \in ApiKeys : StoreUnchecked([cfg EXCEPT !.api = api])
  <2>1. PICK api \in ApiKeys : StoreUnchecked([cfg EXCEPT !.api = api])
    BY <1>1
  <2> DEFINE next == [cfg EXCEPT !.api = api]
  <2>2. next \in Configs /\ next.apiPort = cfg.apiPort /\ next.subs = cfg.subs
    BY Parts DEF Configs
  <2>3. Transact(next) /\ raw' = raw \cup Broken(next)
    BY <2>1 DEF StoreUnchecked
  <2> HIDE DEF next
  <2> QED BY <2>2, <2>3 DEF Fine, ValidPorts
<1>2. CASE \E keys \in SUBSET Keys : StoreUnchecked([cfg EXCEPT !.keys = keys])
  <2>1. PICK keys \in SUBSET Keys : StoreUnchecked([cfg EXCEPT !.keys = keys])
    BY <1>2
  <2> DEFINE next == [cfg EXCEPT !.keys = keys]
  <2>2. next \in Configs /\ next.apiPort = cfg.apiPort /\ next.subs = cfg.subs
    BY Parts DEF Configs
  <2>3. Transact(next) /\ raw' = raw \cup Broken(next)
    BY <2>1 DEF StoreUnchecked
  <2> HIDE DEF next
  <2> QED BY <2>2, <2>3 DEF Fine, ValidPorts
<1>3. CASE \E new \in GivenAccounts : StoreUnchecked([cfg EXCEPT !.accounts = new])
  <2>1. PICK new \in GivenAccounts : StoreUnchecked([cfg EXCEPT !.accounts = new])
    BY <1>3
  <2>2. DOMAIN new \in SUBSET Accounts /\ new \in [DOMAIN new -> [proxy : Proxies \cup {None}, banned : {FALSE}]]
    BY PartialElim DEF GivenAccounts
  <2>3. new \in [DOMAIN new -> Account]
    BY <2>2 DEF Account
  <2>4. new \in AccountSets
    BY <2>2, <2>3, PartialIntro DEF AccountSets, Account
  <2> DEFINE next == [cfg EXCEPT !.accounts = new]
  <2>5. next \in Configs /\ next.apiPort = cfg.apiPort /\ next.subs = cfg.subs
    BY <2>4, Parts DEF Configs
  <2>6. Transact(next) /\ raw' = raw \cup Broken(next)
    BY <2>1 DEF StoreUnchecked
  <2> HIDE DEF next
  <2> QED BY <2>5, <2>6 DEF Fine, ValidPorts
<1>4. CASE \E in \in Imports : ImportReplace(in)
  <2>1. PICK in \in Imports : ImportReplace(in)
    BY <1>4
  <2> DEFINE next == [in EXCEPT !.subs = IF @ = {} THEN cfg.subs ELSE @]
  <2>2. next \in Configs
    BY ConfigAssumption, Parts DEF Configs
  <2>3. Transact(next) /\ raw' = raw /\ Valid(next)
    BY <2>1 DEF ImportReplace, Store
  <2> HIDE DEF next
  <2> QED BY <2>2, <2>3 DEF Fine, Valid, Passes
<1> QED BY <1>1, <1>2, <1>3, <1>4 DEF UpdateConfig

\* A call that nobody overtook stores limits that were checked.
CheckedFit ==
  \A call \in checked :
    call.asked \in Limits /\ call.seen \in Limits /\ ValidLimits(LimitsToCheck(call.seen, call.asked))

LEMMA SettingsEdit ==
  ASSUME Types, CheckedFit, NEW call \in checked, ApplySettings(call)
  PROVE  \E next : Fine(next) /\ KeepsBans(next)
<1> DEFINE limits == MergeLimits(cfg.limits, call.asked)
           next == [cfg EXCEPT !.limits = limits]
<1>1. Transact(next) /\ raw' = IF call.seen = cfg.limits THEN raw ELSE raw \cup Broken(next)
  BY DEF ApplySettings
<1>2. limits \in Limits /\ (call.seen = cfg.limits => ValidLimits(limits))
  BY Parts, LimitFacts DEF CheckedFit, LimitsToCheck
<1> HIDE DEF limits
<1>3. /\ next \in Configs /\ next.accounts = cfg.accounts /\ next.proxies = cfg.proxies
      /\ next.limits = limits /\ next.apiPort = cfg.apiPort /\ next.subs = cfg.subs
  BY <1>2, Parts DEF Configs
<1> HIDE DEF next
<1> QED BY <1>1, <1>2, <1>3 DEF Fine, KeepsBans, Passes, ValidProxies, ValidPorts

-----------------------------------------------------------------------------
(* The files follow memory. *)

\* Every step is a start, a step of a save, a check, a crash or a fine transaction.
LEMMA Steps ==
  ASSUME Types, CheckedFit, Next
  PROVE  \/ Start \/ SaveSubs \/ SaveMain \/ SaveToken \/ Crash
         \/ \E asked \in Requested : CheckSettings(asked)
         \/ \E next : Fine(next)
<1>1. \A k \in Keys :
        /\ DeleteKey(k) => \E next : Fine(next)
        /\ \A tools \in BOOLEAN : AddKey(k, tools) \/ UpdateKey(k, tools) => \E next : Fine(next)
  <2>1. ASSUME NEW k \in Keys, DeleteKey(k)
        PROVE  \E next : Fine(next)
    BY <2>1, KeyEdits, FALSE \in BOOLEAN
  <2>2. ASSUME NEW k \in Keys, NEW tools \in BOOLEAN, AddKey(k, tools) \/ UpdateKey(k, tools)
        PROVE  \E next : Fine(next)
    BY <2>2, KeyEdits
  <2> QED BY <2>1, <2>2
<1>2. \A a \in Accounts :
        /\ DeleteAccount(a) \/ Ban(a) \/ LoggedIn(a) => \E next : Fine(next)
        /\ \A p \in Proxies \cup {None} :
             AddAccount(a, p) \/ UpdateAccountProxy(a, p) => \E next : Fine(next)
  <2>1. ASSUME NEW a \in Accounts, NEW p \in Proxies \cup {None},
               DeleteAccount(a) \/ AddAccount(a, p) \/ UpdateAccountProxy(a, p) \/ Ban(a)
        PROVE  \E next : Fine(next)
    BY <2>1, AccountEdits
  <2>2. ASSUME NEW a \in Accounts, LoggedIn(a)
        PROVE  \E next : Fine(next)
    BY <2>2, LoginEdit
  <2> QED BY <2>1, <2>2, None \in Proxies \cup {None}
<1>3. \A p \in Proxies : AddProxy(p) \/ DeleteProxy(p) => \E next : Fine(next)
  BY ProxyEdits
<1>4. \A s \in SUBSET Subs : ChangeSubs(s) \/ (\E p \in ApiPorts : UpdateBridge(p, s)) => \E next : Fine(next)
  BY BridgeEdits
<1>5. UpdateConfig => \E next : Fine(next)
  BY ReplacingEdits
<1>6. \A in \in Imports : BatchImport(in) \/ ImportMerge(in) \/ ImportReplace(in) => \E next : Fine(next)
  BY MergeEdits, ReplacingEdits
<1>7. \A call \in checked : ApplySettings(call) => \E next : Fine(next)
  BY SettingsEdit
<1> QED BY <1>1, <1>2, <1>3, <1>4, <1>5, <1>6, <1>7 DEF Next

\* The settings waiting for their transaction stay fit.
LEMMA CheckedNext ==
  ASSUME Types, CheckedFit, [Next]_vars
  PROVE  CheckedFit'
<1>1. \/ checked' \subseteq checked
      \/ \E asked \in Requested : CheckSettings(asked)
  BY DEF Next, vars, Start, StartRewriting, StartBootstrapping, StartPlain, StartRefused, Begin, SaveSubs, SaveMain,
         SaveToken, Crash, DeleteKey, AddKey, UpdateKey, DeleteAccount, Ban, LoggedIn, AddAccount, UpdateAccountProxy,
         AddProxy, DeleteProxy, ChangeSubs, UpdateBridge, EditBridge, UpdateConfig, BatchImport, ImportMerge, ImportReplace, ApplySettings,
         Store, StoreUnchecked
<1>2. ASSUME NEW asked \in Requested, CheckSettings(asked) PROVE CheckedFit'
  <2>1. checked' = checked \cup {[asked |-> asked, seen |-> cfg.limits]}
    BY <1>2 DEF CheckSettings
  <2>2. asked \in Limits /\ cfg.limits \in Limits /\ ValidLimits(LimitsToCheck(cfg.limits, asked))
    BY <1>2, Parts, ConfigAssumption DEF CheckSettings
  <2> QED BY <2>1, <2>2 DEF CheckedFit
<1>3. ASSUME checked' \subseteq checked PROVE CheckedFit'
  BY <1>3 DEF CheckedFit
<1> QED BY <1>1, <1>2, <1>3

LEMMA NextInv == IInv /\ CheckedFit /\ [Next]_vars => IInv' /\ CheckedFit'
<1> SUFFICES ASSUME IInv, CheckedFit, [Next]_vars PROVE IInv'
  BY CheckedNext DEF IInv
<1>1. CASE Start
  BY <1>1, StartInv
<1>2. CASE SaveSubs
  BY <1>2, SaveSubsInv
<1>3. CASE SaveMain
  BY <1>3, SaveMainInv
<1>4. CASE Crash
  BY <1>4, CrashInv
<1>5. CASE SaveToken
  BY <1>5, QuietInv DEF SaveToken, Ready, disk, memory
<1>6. CASE \E asked \in Requested : CheckSettings(asked)
  BY <1>6, QuietInv DEF CheckSettings, Ready, disk, memory
<1>7. CASE \E next : Fine(next)
  BY <1>7, TransactInv DEF Fine
<1>8. CASE UNCHANGED vars
  <2>1. /\ UNCHANGED <<setup, mainFile, subsFile, status, cfg, fromEnv, dirty, migrate, pc, last, checked, blind,
                       acked, tried>>
        /\ Chosen(mainFile)' = Chosen(mainFile)
    BY <1>8 DEF vars, disk, memory, Chosen
  <2> QED BY <2>1 DEF IInv, Types, SaveSteps, MainUpToDate, SubsUpToDate, NothingOlder, PendingKnown, Follows,
                      CoreKnown, SubsKnown, Versions
<1> QED BY <1>1, <1>2, <1>3, <1>4, <1>5, <1>6, <1>7, <1>8, Steps DEF IInv

LEMMA CheckedInit == Init => CheckedFit
BY DEF Init, CheckedFit

Flags == fromEnv \in BOOLEAN /\ raw \subseteq {"proxies", "limits"} /\ beside \in Nat

LEMMA FlagsInit == Init => Flags
<1> SUFFICES ASSUME Init PROVE beside \in Nat
  BY DEF Init, Flags
<1>1. Types
  BY InitInv DEF IInv
<1>2. acked \in Settled
  BY <1>1, EmptySettled, ChosenFacts, WithSubsFacts DEF Init, Types
<1> QED BY <1>2 DEF Init, Settled, Configs

LEMMA FlagsNext == Types /\ Flags /\ [Next]_vars /\ Types' => Flags'
<1> SUFFICES ASSUME Types, Flags, [Next]_vars, Types' PROVE Flags'
  OBVIOUS
<1>1. fromEnv' \in BOOLEAN
  <2>1. \/ fromEnv' = fromEnv \/ fromEnv' = TRUE \/ fromEnv' = FALSE
        \/ StartPlain /\ fromEnv' = Chosen(mainFile).fromEnv
    BY DEF Next, vars, memory, Start, StartRewriting, StartBootstrapping, StartPlain, StartRefused, Begin,
           SaveSubs, SaveMain, WriteMain, SaveToken, Crash, DeleteKey, AddKey, UpdateKey, DeleteAccount, Ban,
           LoggedIn, AddAccount, UpdateAccountProxy, AddProxy, DeleteProxy, ChangeSubs, UpdateBridge, EditBridge, UpdateConfig, BatchImport,
           ImportMerge, ImportReplace, ApplySettings, CheckSettings, Store, StoreUnchecked, Transact
  <2>2. StartPlain => Chosen(mainFile).fromEnv \in BOOLEAN
    BY DEF StartPlain, Chosen, NoText, Types
  <2> QED BY <2>1, <2>2 DEF Flags
<1>2. raw' \subseteq {"proxies", "limits"}
  <2>1. \A c : Broken(c) \subseteq {"proxies", "limits"}
    BY DEF Broken
  <2>2. raw' \in {raw, {}} \/ \E c : raw' = raw \cup Broken(c)
    BY DEF Next, vars, Start, StartRewriting, StartBootstrapping, StartPlain, StartRefused, Begin, SaveSubs, SaveMain,
           SaveToken, Crash, DeleteKey, AddKey, UpdateKey, DeleteAccount, Ban, LoggedIn, AddAccount,
           UpdateAccountProxy, AddProxy, DeleteProxy, ChangeSubs, UpdateBridge, EditBridge, UpdateConfig,
           BatchImport, ImportMerge, ImportReplace, ApplySettings, CheckSettings, Store, StoreUnchecked
  <2> QED BY <2>1, <2>2 DEF Flags
<1>3. beside' \in Nat
  <2>1. beside' \in {beside, cfg.apiPort, cfg'.apiPort}
    BY DEF Next, vars, Start, StartRewriting, StartBootstrapping, StartPlain, StartRefused, Begin, SaveSubs, WriteSubs,
           SubsWriteFails, SaveMain, WriteMain, SaveToken, Crash, DeleteKey, AddKey, UpdateKey, DeleteAccount, Ban,
           LoggedIn, AddAccount, UpdateAccountProxy, AddProxy, DeleteProxy, ChangeSubs, UpdateBridge, EditBridge,
           UpdateConfig, BatchImport, ImportMerge, ImportReplace, ApplySettings, CheckSettings, Store,
           StoreUnchecked, Transact
  <2>2. cfg.apiPort \in Nat /\ cfg'.apiPort \in Nat
    BY DEF Types, Settled, Configs
  <2> QED BY <2>1, <2>2 DEF Flags
<1> QED BY <1>1, <1>2, <1>3 DEF Flags

\* What a start would load is complete, and not older, where the invariant holds.
LEMMA Conclusions ==
  ASSUME IInv, Flags
  PROVE  FilesFollow
<1>1. ConfigTypeOK
  BY DEF IInv, Types, MainUpToDate, Flags, ConfigTypeOK, ReadOnly, Follows
<1>2. /\ Chosen(mainFile) # NoText => Chosen(mainFile).cfg \in Settled
      /\ Follows /\ Readable(mainFile) =>
              /\ Chosen(mainFile) # NoText /\ Chosen(mainFile).cfg.subs = mainFile.embedded
              /\ Core(Chosen(mainFile).cfg) = mainFile.core
  BY ChosenFacts DEF IInv, Types
<1>3. Chosen(mainFile) # NoText =>
        /\ Reload = WithSubs(Chosen(mainFile).cfg, subsFile)
        /\ Core(Reload) = Core(Chosen(mainFile).cfg)
        /\ Readable(subsFile) => Reload.subs = subsFile.subs
        /\ ~Readable(subsFile) => Reload.subs = Chosen(mainFile).cfg.subs
  BY <1>2, WithSubsFacts DEF Reload, IInv, Types
<1>4. Chosen(mainFile) # NoText => Reload # NoText
  <2>1. NoText \notin Settled
    BY DEF NoText, Settled, Configs
  <2> QED BY <1>2, <1>3, <2>1, WithSubsFacts DEF IInv, Types
<1>5. SavedIsComplete
  <2> SUFFICES ASSUME status = "up", last = "ok"
               PROVE  /\ "main" \notin blind => Reload # NoText /\ Core(Reload) = Core(cfg)
                      /\ blind = {} => Reload.subs = cfg.subs
    BY DEF SavedIsComplete
  <2>1. Follows /\ dirty = {} /\ ~migrate
    BY DEF IInv, Types, SaveSteps
  <2> QED BY <1>3, <1>4, <2>1 DEF IInv, MainUpToDate, SubsUpToDate
<1>6. AckedSurvives
  <2> SUFFICES ASSUME status # "refused", Readable(mainFile), Follows
               PROVE  /\ Core(Reload) \in {Core(c) : c \in tried \cup {acked}}
                      /\ subsFile # Torn /\ "subs" \notin blind /\ (subsFile = Absent => "embedded" \notin blind) =>
                           Reload.subs \in {c.subs : c \in tried \cup {acked}}
    <3>1. Reload # NoText /\ Readable(mainFile) /\ ~(setup.env = "valid" /\ ~setup.writeback) => Follows
      BY DEF IInv, Types, Follows, Reload, Chosen
    <3> QED BY <3>1 DEF AckedSurvives
  <2>1. /\ CoreKnown(mainFile.core)
        /\ Readable(subsFile) => SubsKnown(subsFile.subs)
        /\ subsFile = Absent /\ blind \cap {"subs", "embedded"} = {} => SubsKnown(mainFile.embedded)
    BY <1>2 DEF IInv, Types, NothingOlder
  <2>2. Core(mainFile.core) = mainFile.core
    BY FileFacts, SubsOnly, {} \in SUBSET Subs DEF IInv, Types
  <2>3. Core(Reload) \in {Core(c) : c \in tried \cup {acked}}
    BY <1>2, <1>3, <2>1, <2>2 DEF CoreKnown, Versions
  <2>4. ASSUME subsFile # Torn, "subs" \notin blind, subsFile = Absent => "embedded" \notin blind
        PROVE  SubsKnown(Reload.subs)
    <3>1. Readable(subsFile) \/ subsFile = Absent
      BY <2>4, FileFacts DEF IInv, Types
    <3> QED BY <1>2, <1>3, <2>1, <2>4, <3>1, FileKinds
  <2> QED BY <2>3, <2>4 DEF SubsKnown, Versions
<1> QED BY <1>1, <1>5, <1>6 DEF FilesFollow

\* Whatever is written, fails or crashes between the two files, a save that was answered is
\* complete and a file that can be read is not older than it (saveLocked, store.go).
THEOREM SavedConfigurationSurvives == Spec => []FilesFollow
<1>1. Init => IInv /\ CheckedFit /\ Flags
  BY InitInv, CheckedInit, FlagsInit
<1>2. IInv /\ CheckedFit /\ Flags /\ [Next]_vars => (IInv /\ CheckedFit /\ Flags)'
  BY NextInv, FlagsNext DEF IInv
<1>3. IInv /\ CheckedFit /\ Flags => FilesFollow
  BY Conclusions
<1> QED BY <1>1, <1>2, <1>3, PTL DEF Spec

-----------------------------------------------------------------------------
(* The store writes nothing a start refuses. *)

\* What the program is given, in the environment and on the disk, a start accepts, also
\* where the second file comes to stand beside the environment or the legacy file.
ValidInputs ==
  /\ Valid(EnvConfig) /\ Valid(LegacyConfig)
  /\ \A d \in Disks :
       /\ Valid(WithSubs(EnvConfig, d.subs)) /\ Valid(WithSubs(LegacyConfig, d.subs))
       /\ Readable(d.main) => Valid(Decoded(d.main)) /\ Valid(WithSubs(Decoded(d.main), d.subs))

\* Memory and config.json pass the checks, but for what an unchecked handler stored; and
\* the second file gives out no port that the API has where the file was last relied on.
Sound ==
  /\ status = "up" => Passes(cfg, raw) /\ ValidPorts(cfg)
  /\ Follows /\ Readable(mainFile) =>
       Passes(mainFile.core, raw) /\ FreePorts(mainFile.core.apiPort, mainFile.embedded)
  /\ Readable(subsFile) => FreePorts(beside, subsFile.subs)

LEMMA SamePasses ==
  ASSUME NEW c \in Settled, NEW d \in Settled, Core(c) = Core(d), NEW r
  PROVE  (Passes(c, r) <=> Passes(d, r)) /\ c.apiPort = d.apiPort
<1>1. \A e \in Settled : /\ e.accounts = Core(e).accounts /\ e.proxies = Core(e).proxies
                         /\ e.limits = Core(e).limits /\ e.apiPort = Core(e).apiPort
  BY DEF Settled, Configs, Core
<1>2. c.accounts = d.accounts /\ c.proxies = d.proxies /\ c.limits = d.limits /\ c.apiPort = d.apiPort
  BY <1>1
<1> QED BY <1>2 DEF Passes, ValidProxies

LEMMA PassesFacts ==
  ASSUME NEW c, NEW r
  PROVE  /\ Valid(c) => Passes(c, r) /\ ValidPorts(c)
         /\ Passes(c, {}) /\ ValidPorts(c) => Valid(c)
         /\ Passes(c, r \cup Broken(c))
         /\ \A q : Passes(c, r) => Passes(c, r \cup q)
BY DEF Passes, Valid, Broken

LEMMA EmptyValid == Valid(Empty)
BY DEF Empty, Valid, ValidProxies, ValidLimits, ValidPorts, FreePorts

\* What a start loads is sound where the text of its file is.
LEMMA ChosenSound ==
  ASSUME ValidInputs, Types, NEW m \in Files, Chosen(m) # NoText,
         Follows /\ Readable(m) => Passes(m.core, raw) /\ FreePorts(m.core.apiPort, m.embedded)
  PROVE  Passes(Chosen(m).cfg, raw) /\ ValidPorts(Chosen(m).cfg)
<1>1. Chosen(m).cfg \in Settled
  BY ChosenFacts DEF Types
<1>2. CASE Follows /\ Readable(m)
  <2>1. /\ Core(Chosen(m).cfg) = m.core /\ Chosen(m).cfg.subs = m.embedded
        /\ m.core \in Settled /\ Core(m.core) = m.core
    BY <1>2, ChosenFacts, FileFacts, SubsOnly, {} \in SUBSET Subs DEF Types
  <2>2. (Passes(Chosen(m).cfg, raw) <=> Passes(m.core, raw)) /\ Chosen(m).cfg.apiPort = m.core.apiPort
    BY <1>1, <2>1, SamePasses
  <2> QED BY <1>2, <2>1, <2>2 DEF ValidPorts
<1>3. CASE ~(Follows /\ Readable(m))
  <2>1. Chosen(m).cfg \in {EnvConfig, LegacyConfig, Empty}
    BY <1>3 DEF Chosen, Follows, Types, NoText
  <2>2. Valid(Chosen(m).cfg)
    BY <2>1, EmptyValid DEF ValidInputs
  <2> QED BY <2>2, PassesFacts
<1> QED BY <1>2, <1>3

LEMMA InitSound == ValidInputs /\ Init => Sound
<1> SUFFICES ASSUME ValidInputs, Init PROVE Sound
  OBVIOUS
<1>1. Types /\ mainFile \in Files /\ subsFile \in SubsFiles
  BY InitInv DEF IInv, Types
<1>2. PICK d \in Disks : mainFile = d.main /\ subsFile = d.subs
  BY DEF Init
<1>3. Readable(mainFile) => Passes(mainFile.core, raw) /\ FreePorts(mainFile.core.apiPort, mainFile.embedded)
  <2> SUFFICES ASSUME Readable(mainFile)
               PROVE  Passes(mainFile.core, raw) /\ FreePorts(mainFile.core.apiPort, mainFile.embedded)
    OBVIOUS
  <2>1. mainFile.core \in Settled /\ mainFile.embedded \in SUBSET Subs
    BY <1>1, FileFacts
  <2>2. /\ Decoded(mainFile) \in Settled /\ Decoded(mainFile).subs = mainFile.embedded
        /\ Core(Decoded(mainFile)) = Core(mainFile.core)
    BY <2>1, SubsOnly DEF Decoded
  <2>3. Valid(Decoded(mainFile))
    BY <1>2 DEF ValidInputs
  <2>4. Passes(Decoded(mainFile), raw) /\ ValidPorts(Decoded(mainFile))
    BY <2>3, PassesFacts
  <2>5. /\ Passes(Decoded(mainFile), raw) <=> Passes(mainFile.core, raw)
        /\ Decoded(mainFile).apiPort = mainFile.core.apiPort
    BY <2>1, <2>2, SamePasses
  <2> QED BY <2>2, <2>4, <2>5 DEF ValidPorts
<1>4. ASSUME Readable(subsFile) PROVE FreePorts(beside, subsFile.subs)
  <2>1. CASE Chosen(mainFile) = NoText
    BY <2>1 DEF Init, Empty, FreePorts
  <2>2. CASE Chosen(mainFile) # NoText
    <3> DEFINE c == Chosen(mainFile).cfg
    <3>1. c \in Settled /\ acked = WithSubs(c, subsFile) /\ acked.subs = subsFile.subs
      BY <1>1, <1>4, <2>2, ChosenFacts, WithSubsFacts DEF Init, Types
    <3>2. c \in {EnvConfig, LegacyConfig, Empty} \/ (Readable(mainFile) /\ c = Decoded(mainFile))
      <4>1. setup.env \in {"unset", "valid", "invalid"}
        BY <1>1 DEF Types
      <4>2. CASE setup.env = "unset"
        BY <2>2, <4>2 DEF Chosen
      <4>3. CASE setup.env # "unset"
        BY <2>2, <4>1, <4>3 DEF Chosen
      <4> QED BY <4>2, <4>3
    <3>3. CASE c = Empty
      <4>1. acked.apiPort = 0
        BY <1>1, <3>1, <3>3, WithSubsFacts, SamePasses DEF Empty
      <4> QED BY <4>1 DEF Init, FreePorts
    <3>4. CASE c # Empty
      <4>1. Valid(acked)
        BY <1>2, <3>1, <3>2, <3>4 DEF ValidInputs
      <4> QED BY <3>1, <4>1 DEF Init, Valid, ValidPorts
    <3> QED BY <3>3, <3>4
  <2> QED BY <2>1, <2>2
<1> QED BY <1>3, <1>4 DEF Init, Sound

LEMMA BeginSound ==
  ASSUME Types, Sound, status = "down", NEW text, NEW env, NEW m, NEW s \in SubsFiles, Begin(text, env, m, s),
         text.cfg \in Settled,
         Follows /\ Readable(m) => /\ m.core \in Settled /\ m.core = Core(text.cfg)
                                   /\ Passes(m.core, raw) /\ FreePorts(m.core.apiPort, m.embedded),
         Valid(WithSubs(text.cfg, s)) \/ s = subsFile
  PROVE  Sound'
<1> DEFINE c == WithSubs(text.cfg, s)
<1>1. (Follows <=> Follows') /\ mainFile' = m /\ subsFile' = s
  BY DEF Begin, Follows
<1>2. c \in Settled /\ Core(c) = Core(text.cfg) /\ (Readable(s) => c.subs = s.subs)
  BY WithSubsFacts
<1>3. CASE Valid(c)
  <2>1. cfg' = c /\ raw' = {} /\ beside' = c.apiPort
    BY <1>3 DEF Begin
  <2>2. Passes(c, {}) /\ ValidPorts(c)
    BY <1>3, PassesFacts
  <2>3. ASSUME Follows, Readable(m) PROVE Passes(m.core, {})
    <3>1. Core(m.core) = Core(c)
      BY <1>2, <2>3, SubsOnly, {} \in SUBSET Subs
    <3> QED BY <1>2, <2>2, <2>3, <3>1, SamePasses
  <2>4. Readable(s) => FreePorts(c.apiPort, s.subs)
    BY <1>2, <2>2 DEF ValidPorts
  <2> HIDE DEF c
  <2> QED BY <1>1, <2>1, <2>2, <2>3, <2>4 DEF Sound
<1>4. CASE ~Valid(c)
  <2>1. status' = "refused" /\ UNCHANGED <<raw, beside>> /\ s = subsFile
    BY <1>4 DEF Begin
  <2> QED BY <1>1, <2>1 DEF Sound
<1> QED BY <1>3, <1>4

LEMMA StartSound == ValidInputs /\ Types /\ Sound /\ Start => Sound'
<1> SUFFICES ASSUME ValidInputs, Types, Sound, Start PROVE Sound'
  OBVIOUS
<1>1. mainFile \in Files /\ subsFile \in SubsFiles
  BY DEF Types
<1>2. /\ Chosen(mainFile) # NoText => Chosen(mainFile).cfg \in Settled
      /\ Follows /\ Readable(mainFile) => Core(Chosen(mainFile).cfg) = mainFile.core
  BY <1>1, ChosenFacts DEF Types
<1>3. Readable(mainFile) => mainFile.core \in Settled /\ mainFile.core = Core(mainFile.core)
  BY <1>1, FileFacts, SubsOnly, {} \in SUBSET Subs
<1>4. \A p : FreePorts(p, {})
  BY DEF FreePorts
<1>5. CASE StartRewriting
  <2>1. /\ status = "down" /\ Readable(mainFile) /\ Chosen(mainFile) # NoText
        /\ \E m \in {Text(mainFile.core), mainFile, Torn} : Begin(Chosen(mainFile), FALSE, m, subsFile)
    BY <1>5 DEF StartRewriting
  <2>2. PICK m \in {Text(mainFile.core), mainFile, Torn} : Begin(Chosen(mainFile), FALSE, m, subsFile)
    BY <2>1
  <2>3. Readable(m) => m.core = mainFile.core /\ (m.embedded = {} \/ m = mainFile)
    BY <1>3, <2>1, TextFacts, FileKinds
  <2>4. Follows /\ Readable(m) => /\ m.core \in Settled /\ m.core = Core(Chosen(mainFile).cfg)
                                  /\ Passes(m.core, raw) /\ FreePorts(m.core.apiPort, m.embedded)
    BY <1>2, <1>3, <1>4, <2>1, <2>3 DEF Sound
  <2> QED BY <1>1, <1>2, <2>1, <2>2, <2>4, BeginSound
<1>6. CASE StartBootstrapping
  <2>1. /\ status = "down" /\ setup.env = "valid" /\ mainFile = Absent
        /\ \E env \in BOOLEAN, m \in {Text(EnvConfig), Absent, Torn}, s \in {SubsText(EnvConfig), subsFile, Torn} :
             Begin(Chosen(mainFile), env, m, s)
    BY <1>6 DEF StartBootstrapping
  <2>2. PICK env \in BOOLEAN, m \in {Text(EnvConfig), Absent, Torn}, s \in {SubsText(EnvConfig), subsFile, Torn} :
             Begin(Chosen(mainFile), env, m, s)
    BY <2>1
  <2>3. Chosen(mainFile).cfg = EnvConfig /\ EnvConfig \in Settled
    BY <2>1, FileKinds, ConfigAssumption DEF Chosen
  <2>4. s \in SubsFiles /\ (Readable(m) => m.core = Core(EnvConfig) /\ m.embedded = {})
    BY <1>1, <2>3, TextFacts, SubsTextFacts, FileKinds
  <2>5. Core(EnvConfig) \in Settled /\ Passes(Core(EnvConfig), raw)
    <3>1. Core(EnvConfig) \in Settled /\ Core(Core(EnvConfig)) = Core(EnvConfig)
      BY <2>3, SubsOnly, {} \in SUBSET Subs
    <3>2. Passes(EnvConfig, raw)
      BY PassesFacts DEF ValidInputs
    <3> QED BY <2>3, <3>1, <3>2, SamePasses
  <2>6. Valid(WithSubs(EnvConfig, s)) \/ s = subsFile
    <3>1. CASE ~Readable(s)
      BY <3>1 DEF WithSubs, ValidInputs
    <3>2. CASE Readable(s) /\ s # subsFile
      <4>1. s = SubsText(EnvConfig) /\ Readable(SubsText(EnvConfig))
        BY <3>2, FileKinds
      <4>2. s.subs = EnvConfig.subs
        BY <2>3, <4>1, SubsTextFacts, FileKinds
      <4>3. WithSubs(EnvConfig, s) = EnvConfig
        BY <2>3, <3>2, <4>2 DEF WithSubs, Settled, Configs
      <4> QED BY <4>3 DEF ValidInputs
    <3> QED BY <3>1, <3>2
  <2> QED BY <1>4, <2>1, <2>2, <2>3, <2>4, <2>5, <2>6, BeginSound
<1>7. CASE StartPlain
  <2>1. /\ status = "down" /\ Chosen(mainFile) # NoText
        /\ Begin(Chosen(mainFile), Chosen(mainFile).fromEnv, mainFile, subsFile)
    BY <1>7 DEF StartPlain
  <2>2. Follows /\ Readable(mainFile) =>
          Passes(mainFile.core, raw) /\ FreePorts(mainFile.core.apiPort, mainFile.embedded)
    BY DEF Sound
  <2> QED BY <1>1, <1>2, <1>3, <2>1, <2>2, BeginSound
<1>8. CASE StartRefused
  BY <1>8 DEF StartRefused, disk, Sound, Follows
<1> QED BY <1>5, <1>6, <1>7, <1>8 DEF Start

\* Only a save writes the files, with what memory holds: the second one while its entries
\* are those of memory, whose ports keep clear of the API's.
LEMMA SoundNext == ValidInputs /\ IInv /\ CheckedFit /\ Sound /\ [Next]_vars => Sound'
<1> SUFFICES ASSUME ValidInputs, IInv, CheckedFit, Sound, [Next]_vars PROVE Sound'
  OBVIOUS
<1>1. Types /\ cfg \in Settled /\ cfg \in Configs
  BY DEF IInv, Types, Settled
<1>2. /\ Readable(Text(cfg)) /\ Text(cfg).core = Core(cfg) /\ Text(cfg).embedded = {}
      /\ Core(cfg) \in Settled /\ Core(Core(cfg)) = Core(cfg)
      /\ \A p : FreePorts(p, {})
  BY <1>1, TextFacts, SubsOnly, {} \in SUBSET Subs DEF FreePorts
<1>3. status = "up" => Passes(Core(cfg), raw)
  BY <1>1, <1>2, SamePasses DEF Sound
<1>4. status = "up" /\ Readable(SubsText(cfg)) => FreePorts(cfg.apiPort, SubsText(cfg).subs)
  BY <1>1, SubsTextFacts, FileKinds DEF Sound, ValidPorts
<1>5. status = "up" /\ pc = "main" /\ Readable(subsFile) => FreePorts(cfg.apiPort, subsFile.subs)
  <2> SUFFICES ASSUME status = "up", pc = "main", Readable(subsFile)
               PROVE  FreePorts(cfg.apiPort, subsFile.subs)
    OBVIOUS
  <2>1. Follows /\ "subs" \notin dirty
    BY DEF IInv, Types, SaveSteps
  <2>2. subsFile.subs = cfg.subs
    BY <2>1 DEF IInv, SubsUpToDate
  <2> QED BY <2>2 DEF Sound, ValidPorts
<1>6. CASE Start
  BY <1>1, <1>6, StartSound
<1>7. CASE SaveSubs
  <2>1. /\ status = "up" /\ UNCHANGED <<setup, mainFile, status, cfg, raw>>
        /\ \/ UNCHANGED <<subsFile, beside>>
           \/ subsFile' = SubsText(cfg) /\ beside' = cfg.apiPort
           \/ subsFile' = Torn
    BY <1>7 DEF SaveSubs, WriteSubs, SubsWriteFails
  <2> QED BY <1>4, <2>1, FileKinds DEF Sound, Follows
<1>8. CASE SaveMain
  <2>1. /\ status = "up" /\ pc = "main" /\ UNCHANGED <<setup, subsFile, status, cfg, raw>>
        /\ \/ mainFile' \in {mainFile, Torn} /\ UNCHANGED beside
           \/ mainFile' = Text(cfg) /\ beside' = cfg.apiPort
    BY <1>8 DEF SaveMain, WriteMain
  <2> QED BY <1>2, <1>3, <1>5, <2>1, FileKinds DEF Sound, Follows
<1>9. CASE Crash
  <2>1. /\ status = "up" /\ status' = "down" /\ UNCHANGED <<setup, raw>>
        /\ \/ mainFile' \in {mainFile, Torn} /\ subsFile' \in {subsFile, Torn} /\ UNCHANGED beside
           \/ pc = "main" /\ mainFile' = Text(cfg) /\ beside' = cfg.apiPort /\ UNCHANGED subsFile
           \/ subsFile' = SubsText(cfg) /\ beside' = cfg.apiPort /\ UNCHANGED mainFile
    BY <1>9 DEF Crash, disk
  <2> QED BY <1>2, <1>3, <1>4, <1>5, <2>1, FileKinds DEF Sound, Follows
<1>10. CASE SaveToken
  BY <1>10 DEF SaveToken, disk, memory, Sound, Follows
<1>11. CASE \E asked \in Requested : CheckSettings(asked)
  BY <1>11 DEF CheckSettings, disk, memory, Sound, Follows
<1>12. CASE \E next : Fine(next)
  <2>1. PICK next : Fine(next)
    BY <1>12
  <2>2. /\ next \in Configs /\ status = "up" /\ cfg' = Normalize(Reconcile(next, cfg))
        /\ UNCHANGED <<setup, mainFile, subsFile, status, beside>>
        /\ ValidPorts(cfg) => ValidPorts(next)
        /\ \/ raw' = raw /\ (Passes(cfg, raw) => Passes(next, raw))
           \/ raw' = raw \cup Broken(next)
    BY <2>1 DEF Fine, Transact, Ready, disk
  <2>3. /\ cfg'.accounts = next.accounts /\ cfg'.proxies = next.proxies /\ cfg'.limits = next.limits
        /\ cfg'.apiPort = next.apiPort /\ cfg'.subs = next.subs
    BY <1>1, <2>2, NormalFacts
  <2>4. \A r : Passes(next, r) => Passes(cfg', r)
    BY <2>3 DEF Passes, ValidProxies
  <2>5. Passes(next, raw')
    BY <2>2, PassesFacts DEF Sound
  <2>6. ValidPorts(cfg')
    BY <2>2, <2>3 DEF Sound, ValidPorts
  <2>7. ASSUME Follows, Readable(mainFile) PROVE Passes(mainFile.core, raw')
    BY <2>2, <2>7, PassesFacts DEF Sound
  <2> QED BY <2>2, <2>4, <2>5, <2>6, <2>7 DEF Sound, Follows, ValidPorts
<1>13. CASE UNCHANGED vars
  BY <1>13 DEF vars, disk, memory, Sound, Follows
<1> QED BY <1>1, <1>6, <1>7, <1>8, <1>9, <1>10, <1>11, <1>12, <1>13, Steps

\* A restart of a store whose inputs a start accepts is accepted again, whichever of the
\* two files the last save reached, but for what a handler without the check stored and for
\* ports beside an API port that they were not saved with (ValidateConfig, store.go).
THEOREM RestartIsAccepted == ValidInputs => (Spec => []StartsAgain)
<1> SUFFICES ASSUME ValidInputs PROVE Spec => []StartsAgain
  OBVIOUS
<1>1. Init => IInv /\ CheckedFit /\ Sound
  BY InitInv, CheckedInit, InitSound
<1>2. IInv /\ CheckedFit /\ Sound /\ [Next]_vars => (IInv /\ CheckedFit /\ Sound)'
  BY NextInv, SoundNext
<1>3. IInv /\ Sound => StartsAgain
  <2> SUFFICES ASSUME IInv, Sound, Reload # NoText
               PROVE  Passes(Reload, raw) /\ (Reload.apiPort = beside => ValidPorts(Reload))
    BY DEF StartsAgain
  <2> DEFINE c == Chosen(mainFile).cfg
  <2>1. Types /\ mainFile \in Files /\ subsFile \in SubsFiles
    BY DEF IInv, Types
  <2>2. Chosen(mainFile) # NoText /\ Reload = WithSubs(c, subsFile) /\ c \in Settled
    BY <2>1, ChosenFacts DEF Reload, Types
  <2>3. Passes(c, raw) /\ ValidPorts(c)
    BY <2>1, <2>2, ChosenSound DEF Sound
  <2>4. /\ Reload \in Settled /\ Core(Reload) = Core(c)
        /\ Readable(subsFile) => Reload.subs = subsFile.subs
        /\ ~Readable(subsFile) => Reload = c
    BY <2>1, <2>2, WithSubsFacts
  <2>5. Passes(Reload, raw)
    BY <2>2, <2>3, <2>4, SamePasses
  <2>6. Readable(subsFile) /\ Reload.apiPort = beside => ValidPorts(Reload)
    BY <2>4 DEF Sound, ValidPorts
  <2> QED BY <2>3, <2>4, <2>5, <2>6
<1> QED BY <1>1, <1>2, <1>3, PTL DEF Spec

-----------------------------------------------------------------------------
(* What was put out of use stays so. *)

\* A transaction's configuration is what memory holds after it.
LEMMA FineAccounts ==
  ASSUME Types, NEW next, Fine(next)
  PROVE  cfg'.accounts = next.accounts
<1>1. next \in Configs /\ cfg \in Configs /\ cfg' = Normalize(Reconcile(next, cfg))
  BY DEF Fine, Transact, Types, Settled
<1> QED BY <1>1, NormalFacts

\* A ban is lifted by a login, or with the whole list of accounts (SetAccountBanned).
LEMMA BansKept ==
  ASSUME IInv, CheckedFit, [Next]_vars,
         NEW a \in DOMAIN cfg.accounts \cap DOMAIN cfg'.accounts,
         cfg.accounts[a].banned, ~cfg'.accounts[a].banned
  PROVE  LoggedIn(a) \/ UpdateConfig \/ \E in \in Imports : ImportReplace(in)
<1>1. Types
  BY DEF IInv
<1>2. ASSUME NEW next, Fine(next), KeepsBans(next) PROVE FALSE
  BY <1>1, <1>2, FineAccounts DEF KeepsBans
<1>3. ~(\E k \in Keys : DeleteKey(k) \/ \E tools \in BOOLEAN : AddKey(k, tools) \/ UpdateKey(k, tools))
  <2>1. ASSUME NEW k \in Keys, DeleteKey(k)
        PROVE  FALSE
    BY <1>1, <1>2, <2>1, KeyEdits, FALSE \in BOOLEAN
  <2>2. ASSUME NEW k \in Keys, NEW tools \in BOOLEAN, AddKey(k, tools) \/ UpdateKey(k, tools)
        PROVE  FALSE
    BY <1>1, <1>2, <2>2, KeyEdits
  <2> QED BY <2>1, <2>2
<1>4. ASSUME NEW b \in Accounts, LoggedIn(b) PROVE b = a
  <2>1. PICK next : /\ Fine(next)
                    /\ \A c \in DOMAIN cfg.accounts \ {b} :
                         c \in DOMAIN next.accounts /\ cfg.accounts[c].banned => next.accounts[c].banned
    BY <1>1, <1>4, LoginEdit
  <2> QED BY <1>1, <2>1, FineAccounts
<1>5. ~(\E b \in Accounts : \/ DeleteAccount(b) \/ Ban(b)
                            \/ \E p \in Proxies \cup {None} : AddAccount(b, p) \/ UpdateAccountProxy(b, p))
  <2>1. ASSUME NEW b \in Accounts, NEW p \in Proxies \cup {None},
               DeleteAccount(b) \/ AddAccount(b, p) \/ UpdateAccountProxy(b, p) \/ Ban(b)
        PROVE  FALSE
    BY <1>1, <1>2, <2>1, AccountEdits
  <2> QED BY <2>1, None \in Proxies \cup {None}
<1>6. ~(\E p \in Proxies : AddProxy(p) \/ DeleteProxy(p)) 
      /\ ~(\E s \in SUBSET Subs : ChangeSubs(s) \/ \E p \in ApiPorts : UpdateBridge(p, s))
  BY <1>1, <1>2, ProxyEdits, BridgeEdits
<1>7. ~(\E in \in Imports : BatchImport(in) \/ ImportMerge(in)) /\ ~(\E call \in checked : ApplySettings(call))
  BY <1>1, <1>2, MergeEdits, SettingsEdit
<1>8. cfg' # cfg /\ DOMAIN cfg'.accounts # {} /\ status = "up"
  <2>1. DOMAIN Empty.accounts = {}
    BY DEF Empty
  <2>2. cfg # Empty
    BY <2>1
  <2> QED BY <1>1, <2>2 DEF Types
<1>9. ~Start /\ ~SaveSubs /\ ~SaveMain /\ ~SaveToken /\ ~Crash /\ ~(\E asked \in Requested : CheckSettings(asked))
      /\ ~UNCHANGED vars
  <2>1. ~Crash
    BY <1>8 DEF Crash, Empty
  <2> QED BY <1>8, <2>1
        DEF Start, StartRewriting, StartBootstrapping, StartPlain, StartRefused, SaveSubs, SaveMain, SaveToken,
            CheckSettings, memory, vars
<1> QED BY <1>3, <1>4, <1>5, <1>6, <1>7, <1>9 DEF Next

\* A deleted key is in neither list (ReconcileCredentials).
LEMMA KeyGone ==
  ASSUME Types, NEW k \in Keys, DeleteKey(k)
  PROVE  k \notin cfg'.keys \cup DOMAIN cfg'.api
<1> DEFINE api == [j \in DOMAIN cfg.api \ {k} |-> cfg.api[j]]
           next == [cfg EXCEPT !.api = api]
<1>1. cfg' = Normalize(Reconcile(next, cfg))
  BY DEF DeleteKey, Store, Transact
<1>2. next.keys = cfg.keys /\ next.api = api /\ DOMAIN api = DOMAIN cfg.api \ {k}
  BY Parts
<1>3. Reconcile(next, cfg) = [next EXCEPT !.api = api, !.keys = DOMAIN api]
  BY <1>2 DEF Reconcile
<1>4. next \in [keys : SUBSET Keys, api : ApiKeys, accounts : AccountSets, proxies : SUBSET Proxies,
                limits : Limits, apiPort : Nat, subs : SUBSET Subs]
  <2>1. api \in [DOMAIN cfg.api \ {k} -> BOOLEAN]
    BY Parts
  <2>2. api \in ApiKeys
    BY <2>1, Parts, PartialIntro DEF ApiKeys
  <2> QED BY <2>2, Parts
<1> HIDE DEF next, api
<1>5. Reconcile(next, cfg).api = api /\ Reconcile(next, cfg).keys = DOMAIN api
  BY <1>3, <1>4
<1>6. cfg'.keys = DOMAIN api /\ DOMAIN cfg'.api = DOMAIN api
  BY <1>1, <1>3, <1>4, <1>5 DEF Normalize
<1> QED BY <1>2, <1>6

\* An edit that is about something else brings neither a banned account nor a deleted key back.
THEOREM EditsAreNarrow == Spec => EditsHold
<1>1. Init => IInv /\ CheckedFit
  BY InitInv, CheckedInit
<1>2. IInv /\ CheckedFit /\ [Next]_vars => (IInv /\ CheckedFit)'
  BY NextInv
<1>3. IInv /\ CheckedFit /\ [Next]_vars =>
        [\A a \in DOMAIN cfg.accounts \cap DOMAIN cfg'.accounts :
           cfg.accounts[a].banned /\ ~cfg'.accounts[a].banned =>
             LoggedIn(a) \/ UpdateConfig \/ \E in \in Imports : ImportReplace(in)]_vars
  BY BansKept
<1>4. IInv /\ [Next]_vars => [\A k \in Keys : DeleteKey(k) => k \notin cfg'.keys \cup DOMAIN cfg'.api]_vars
  BY KeyGone DEF IInv
<1> QED BY <1>1, <1>2, <1>3, <1>4, PTL DEF Spec, EditsHold, BanHolds, DeletedKeyIsGone
=============================================================================
