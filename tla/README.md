# A TLA+ model of ds2api

ds2api is a gateway: it serves the OpenAI, Claude, Gemini and Ollama chat APIs
and answers them with the web chat of an upstream, using a pool of upstream
accounts that an administrator maintains. This directory models the parts of it
in which goroutines, processes, failures and cut-up streams meet: who may use
which account and when, what a client is told of an answer, what survives in the
history and in the configuration, and through which node an account leaves. TLC
checks the models on small instances; TLAPS proves the theorems for every value
of the constants.

Contents: [1 Inventory](#1-inventory), [2 Modules](#2-modules),
[3 Runs](#3-what-the-runs-show), [4 Proofs](#4-what-is-proved),
[5 Disagreements](#5-where-the-code-and-its-documentation-disagree),
[6 Left out](#6-what-is-not-modelled), [7 Plan](#7-plan).

## 1 Inventory

### 1.1 How a request runs

    client --> httpapi handler --> auth.Resolver.Determine --> account.Pool.AcquireWait
                  |                        |   login when the account has no token
                  |                        v
                  |               deepseek/client: CreateSession, GetPow, completion
                  |                        |   may refresh the token, mute, ban or
                  |                        |   cool down the account, SwitchAccount
                  v                        v
        completionruntime (retries) --> stream engine / sse --> toolstream, assistantturn
                  |                                                 |
                  v                                                 v
        responsehistory --> chathistory.Store              formatted events to the client
                  |
              deferred Resolver.Release --> account.Pool.Release

On Vercel the stream is driven by a Node function instead, which holds a lease of
the Go side for its account and parses the stream with a second implementation
of the parser and of the sieve. The admin API, the elastic pool, the mihomo
manager and the upstream client all change `config.Store` and then rebuild the
pool (`Pool.Reset`), while requests are running.

### 1.2 Components

| Component | State it keeps | Operations | Hard behaviour | What makes it correct | Module |
|---|---|---|---|---|---|
| `internal/account` pool | rotation queue, slots in use per account, FIFO of waiter channels, three limits; one mutex, except for one limit | `Acquire`, `AcquireWait`, `Release`, `Reset`, `ApplyRuntimeLimits`, `Status` | waiters against releases, cancellations, rebuilds; a rebuild forgets running requests | no slot beyond the limits, none leaked or freed twice, FIFO order, no lost wake-ups | `AccountPool` |
| `internal/account` elastic pool | `Disabled` flags and quotas in the configuration | `ReconcileElasticPool`, called from eight transactions | expiries and edits no reconcile follows | of each type the first N accounts that are not muted are enabled, and stay within the quota between reconciles | `ElasticPool` |
| `internal/auth` resolver | one `RequestAuth` per request, token refresh times | `Determine`, `RefreshToken`, `SwitchAccount`, `SetAccountMutedUntil`, `SetAccountBanned`, `Release` | failures between taking a slot and giving it back | one slot per running request, pinned accounts, termination | `AuthResolver` |
| Vercel stream leases | table of leases with expiry, each holding a `RequestAuth` | prepare, pow, switch, release, sweep | a function that dies or repeats itself; expiry during a call; calls that overlap | each lease's slot is given back exactly once | `StreamLease` |
| `internal/chathistory` | index and entries in memory, a file each on disk, pending changes | `Start`, `Update`, `Delete`, `Clear`, `SetLimit`, load, migrate, save | crashes and failing writes inside a save; clock | acknowledged entries survive; revisions are fresh | `ChatHistory` |
| `internal/responsehistory` | one session per request | start, throttled progress, terminal updates | entry evicted or deleted while its request runs | an entry tells how its request ended | `HistorySession` |
| `internal/config` store | the configuration, its two files, dirty bits, a pending migration | load, `Update`, save, the admin transactions | non-atomic writes, a crash between two files, settings checked on a snapshot | what was answered is what a start loads; what is written can be loaded | `ConfigStore` |
| `internal/deepseek/client`, `internal/completionruntime` | one request's sessions, files, message ids, retry counters, accounts tried | session, proof of work, upload and poll, segments, completion, stop, continue, retry, switch | every call may fail, mute, ban or time out, and be retried on another account | messages refer to what is whole and ready, of the account that posts them; bounded attempts | `Completion` |
| `internal/stream`, `internal/sse` | scanner, pump, engine; buffers, a flush timer, idle ticks | parse, gather, flush, end | timers, lines, end and disconnect at once | nothing read is lost; the stream and its goroutines end | `StreamPump`, `SseParser` |
| `internal/toolstream`, `internal/toolcall` | sieve buffer of one answer, code spans and fences | splitting text from call markup, parsing, repair | markup cut anywhere | no text lost or doubled, calls told once | `ToolSieve`, `ToolMarkup` |
| `internal/assistantturn` | accumulated text, reasoning, errors | snapshot, validation, retry decision, outcome | the same turn is built in two ways | both agree | `AnswerTurn` |
| `httpapi/openai`, `claude`, `gemini`, `ollama` | stream runtimes of one request | the public API | order of events, deferred failures, retries | one terminal event, blocks in order, reason fits the calls | `ChatStream`, `ResponsesStream`, `ClaudeStream`, `GeminiStream`, `SurfaceHandlers`, `AnswerStream` |
| Node function (`internal/js`) | its own parser, sieve, retry loop | stream an answer with a lease | written twice | says the same as Go | `NodeParser`, `NodeSieve`, `VercelStream` |
| `internal/mihomo` | bindings, ports and subscriptions in the configuration, health, fail streaks; one child process | bind, assign, subscribe, probe, fail over, apply | watcher, traffic reports, administrator at once; processes that die | accounts leave dead nodes; one child, with the latest configuration | `NodeBinding`, `BridgeProcess` |
| `httpapi/admin` | sessions in signed tokens | accounts, settings, import and export, proxies, histories, version, Vercel sync | edits while everything runs | see the stores they edit | in those modules |
| `internal/promptcompat`, `prompt`, `translatorcliproxy`, `claudeconv`, `format` | none | request normalisation, response formats | none but data | format correctness | none |
| `internal/devcapture`, `rawsample` | ring of captures, sample files | record, list | bounded buffers | bounds | none |
| `internal/webui`, `webui`, `server`, `version`, `app`, `api`, `cmd`, `scripts`, `testsuite`, `util`, `textclean`, `deepseek/transport`, `protocol` | routes, static files, connections | serving and wiring | none | none of their own | none |

### 1.3 Interaction by shared state

* The pool reads accounts from the store at every attempt, outside any
  transaction: between two attempts accounts may be muted, removed or retyped.
* `Pool.Reset` reads the store without the pool's lock, writes one limit
  without it, and installs the rest under it.
* A `RequestAuth` is used by one goroutine, except when it is in a Vercel
  lease: then the handlers of prepare, pow, switch and release and every sweep
  may work on it at the same time.
* The upstream client switches the account of a request beneath the runtime,
  which notices by comparing account names.
* The mihomo manager plans on a snapshot of the configuration and commits in a
  transaction later; so do several admin handlers.
* The elastic pool's result, `Disabled`, is persisted and read by the pool as
  part of `IsSchedulable`, and by the automatic binding of nodes.

The hazards that follow from this are listed at their lines in `PROJECT.json`.

## 2 Modules

| Family | Modules, each extending those before it unless said |
|---|---|
| Accounts | `SlotPool` (the promise), `AccountPool`, `MCAccountPool`; `ElasticPool`, `AuthResolver` and `StreamLease` by themselves |
| Upstream | `Completion` by itself; `SseParser`, `NodeParser`, `StreamPump`, `MCStreamPump` |
| Answers | `ToolMarkup`, `ToolSieve`, `AnswerTurn`; on it `ChatStream`, `ResponsesStream`, `ClaudeStream`, `GeminiStream`, `SurfaceHandlers`; `NodeSieve`, `VercelStream`; `HistorySession`; all of them composed in `AnswerStream`, `MCAnswerStream` |
| Stores | `ChatHistory`, `ConfigStore` |
| Nodes | `NodeBinding`, `BridgeProcess` |
| Proofs | `SequenceLemmas`; on it `AccountPoolProofs` (`AccountPool` and `ElasticPool`), `StreamProofs` (`StreamLease` and `StreamPump`), `MihomoProofs` (`NodeBinding` and `BridgeProcess`) and `CompletionProofs`; `RequestProofs` (`AuthResolver` and `AnswerStream`); `ChatHistoryProofs`, `ConfigStoreProofs`; each extends the modules it is about |

`Loops` has the two loops over lists that several models share (`Among`, what of a
list is in a set; `Joined`, lists one behind the other). They and the loops of the
modules with theorems are recursive functions (`f[i]` is what the loop has after `i`
turns), which the provers can follow; folds would say the same.

An operator whose comment says "Mutant" is not part of a model: it is a
plausible mistake in the definition that follows it, kept to show that the
properties would notice. Most properties of a run are conjunctions of named
parts; there is a mutant for each part.

### 2.1 AccountPool

One action for each piece of code that runs under `p.mu`, and for each step
outside it. `pc[r]` says where a request goroutine is: `"trying"` is the top of
the loop of `AcquireWait`, `"parked"` its `select`, `"holding"` the time between
`Acquire` and `Release`. A waiter channel is represented by its request; a closed
channel puts it into `woken`. `Grant` takes the first account in rotation that is
schedulable, matches the pool type and is not excluded, and moves it to the back;
`Park` and `Refuse` are the two outcomes of `canQueueLocked`; `Wake` and
`Abandon` the two branches of the `select`, both of which are possible when the
channel is closed and the context is done. A rebuild is `ResetScan` (sort the
store's accounts), `ResetPer` (write the limit, unlocked), `ResetRecommended`,
`ReadMaxQueue`, `ReadGlobal` (one read of the store each) and `ResetInstall` (under the
lock); `applyRuntimeSettings` is `SettingsCount`, `SettingsPer`, the same two reads and
`SettingsApply`. `StoreChange` lets the store move to any state of `Configs` between
any two of them. A setting that is not made is `Unset`, so that an explicit zero is
a setting (`OrDefault`). `SwitchBegin`, `SwitchTake` and `SwitchFails` are
`Resolver.SwitchAccount` on a running request, and `ReleaseAgain` the second release after
a switch that failed: `named` is the account the request still names, and the slot
counted down may be somebody else's. `forgotten` is a history variable: how many live leases of an
account a `Reset` has wiped or a second release has taken the slot of. `Promise` maps the pool to `SlotPool`; `KeepsPromise` says
that every step is one of `SlotPool` as long as nothing is forgotten.

### 2.2 ElasticPool

Each action is one `Store.Update` transaction. `Reconcile` runs the loops of
`elastic.go` as recursive functions over the accounts in file order; the property compares it
with a definition without loops. Deadlines are Booleans: `muted` and `cooling`
hold the accounts whose deadline lies ahead, and expire by themselves. `Login` is what
`Client.Login` may record of an account beside its token. `edited` and `recovered` are
history: what has happened since the last reconcile that no reconcile followed.

### 2.3 AuthResolver

`"acquiring"` is the loop of `acquireManagedRequestAuth`, `"ensuring"` the login
in it, `"switching"` and `"reensuring"` the same of `SwitchAccount`, `"using"`
the time the request runs upstream. `owns` is a history variable: the slot a
request has really taken and not given back, as opposed to `account`, the one
its `RequestAuth` names. After a failed switch they differ. `TestAccount` is an
administrator's test of an account, which stores tokens without holding a slot.

### 2.4 StreamLease

`call[s]` is the Go handler that runs for a stream, `switch[s]` the progress of
`SwitchAccount` in it, `fn[s]` what the Node function is doing: it prepares, runs,
asks for a proof of work or for another account, and at its end returns the lease
once no call of its own is under way, or at once if the call broke off. Every
action that enters the table takes the expired leases out first, as the code
does; their accounts are released outside the lock, so `ReleasePopped` is an
action of its own. `Report` is what a function that asks for another account tells of
the one it had (muted, banned), with the `Pool.Reset` that follows; which accounts are
schedulable and whether the global limit is reached is left open, so that a switch may
fail while an account is free. A function may vanish, its calls may break while their handlers
go on (`broken`), and leases expire at any moment (`late`). `overrun` is a history
variable: the streams whose lease left the table while a call was working on it.

### 2.5 Completion

`plan` is the list of client operations that are still to be made, in the order in
which the runtime makes them (`StartPlan`, `SwitchPlan`, ...), and each try of an
HTTP call is one step whose outcome the upstream chooses: success, a rejected
token, a failure that is tried again, a mute, a ban, a captcha. `who` has both
accounts of a `RequestAuth`: the one it names and the one whose token it carries,
which differ after a failed switch. `ReuploadPlan` are the calls a switch adds for a
context file, at another place in the stream path than in the other. `sent` are the messages posted, with their
session, parent, file and part of the prompt, so that the properties can be
stated about what the upstream was given; `epoch` counts the times the runtime
began anew on another account. A mute is told by the body of a completion, and
the retry, the continuation and the switch follow `stream_retry.go`,
`nonstream.go`, `client_continue.go` and `segments.go` statement by statement.
`ObserveBody` reads a body line by line into a `continueState`; `Said` is what the
same body says read as a whole, which the property compares with it. `astray` is a history
variable: since the last beginning the code has left what it made on another account
(`Leaves`: an operation switches after the session or the file was made; `Rewinds`: a retry
after a captcha goes back to the first payload; `OlderParent`: a stream names an id of the
session before). When the request is over `AutoDelete` reads the mode from the settings and
removes nothing, the session the handler knows of, or all of the account.

### 2.6 StreamPump, SseParser, NodeParser

Three goroutines of one stream: the scanner (`ScanLine`, `ScanEnd`), the pump
(`PumpLine`, `PumpTimer`, `Send`, ...) and the engine (`Parsed`, `UpstreamDone`,
`EngineCancel`, `Tick`), connected by bounded channels. A send on a full channel
blocks: `pump.send` is what it has not got rid of. A text is a sequence of tokens,
a line a record with its path and value; `SseParser` says what it contributes and
how it changes the type of what follows. `Collect` is the consumer of requests
that do not stream and the reference for the pump. `NodeParser` has the places
where the JavaScript parser goes about it in another way; `SameInNode` compares them on
all lines of the instance, among them those that they are known to read apart
(`Retypes`, `SaysTwice`, `CutsEarly`, hints): with such a line in the stream the two still
end the answer at the same line, and it is said which tokens may be in one answer only.

### 2.7 Answers

`ToolMarkup` finds blocks of call markup in a text, with the repairs of the
parser; `ToolSieve` is the state machine of `internal/toolstream`, `NodeSieve` its
JavaScript twin. `AnswerTurn` accumulates an answer and judges the finished turn.
The four surfaces and the Node function are runtimes: records with operations for
a piece of the answer, the end and an error, and a list `sent` of events.
A whole answer shows the markers of sources as links, a stream hides them
(`Markers`, of two sources, of one of which the address is known).
`AnswerStream` drives any of them: preparation (each surface's steps in its
order, with their refusals), results from the upstream, ends, errors and
disconnects at any moment, deferred failures, retries and switches, streamed or
whole, beside an administrator who deletes the entry of the request or switches
the history off. `OnRetryFailure` is what each surface sends when a retry or a switch
cannot begin. `HistorySession` is that entry.

### 2.8 NodeBinding

The configuration `cfg` (ports, managed proxies, bindings, subscriptions, flags of
accounts; `left` is history, the nodes that went from their subscription since they were
last assigned), the health of nodes, real failures reported by requests, the watcher's
plan between its snapshot and its transaction, and what is really up. The
administrator adds, refreshes and deletes subscriptions, binds and unbinds,
assigns all, changes settings and toggles accounts; requests report results;
the watcher sweeps, plans and commits.

### 2.9 BridgeProcess

Calls of `Apply` queue (`waiting`) and take turns (`job`), which passes through the
steps of `doApply`; a caller may stop waiting. `alive` are the child processes
there really are, also those of an earlier daemon; `handle`, `running`, `apiSecret`
what the manager believes. `Change` saves and calls `Apply`, as the operations of the
bridge do; `SilentChange` saves only, as the handlers of proxies, of accounts and of the
whole configuration do. Exits are noted by a goroutine of their own (`NoteExit`), at any
step of an `Apply`, and with `auto_bind` the watcher calls `SelfHeal`. `due` and `early` are
for the properties: the configuration the child should run, and whether its exit was noted
just before the manager noted that it runs. A start and a new daemon
choose a secret nobody has, as `randomAPISecret` does for all practical purposes;
`MaxSecret` says how many there are to choose from.

### 2.10 ChatHistory

An operation changes memory and starts a save; `RemoveDetail`, `WriteDetail` and
`WriteIndex` are the file operations of the save, each atomic
(`writeFileAtomic` renames), in the order of the code. `SaveFails` ends a save at
any of them. `Stop` is a crash at any moment; `Bootstrap`, `LoadLegacy`,
`LoadSplit` and `LoadFails` are the branches of `loadLocked`. Entries are a
creation time (in milliseconds, two instants each) and a revision. `owed`, `lost` and
`reused` are history: whether an index knows the revision given last, whether a stop came
before one did, and whether a revision was given twice for it.

### 2.11 ConfigStore

`mainFile` and `subsFile` are the two files, each absent, torn or readable (the code
writes them with `os.WriteFile`, which truncates first); `Chosen` is the choice a
start makes among them, the environment and the legacy path; `Reload` is what a
start would load now. A transaction changes `cfg`, sets dirty bits and starts a
save (`pc`), of which every write may fail or be cut off by a crash. An entry of the
second file (`Subs`) stands for a subscription or a port given to a node (`PortOf`); the
API's port, `apiPort`, is in the first, and `ValidPorts` relates the two, as
`ValidateMihomoConfig` does. `raw` names the parts of which a handler stored what it had
not checked, `blind` the differences between memory and files that no dirty bit tells of,
and `beside` the API port that the files were last written or accepted with, which is
where the properties make their exceptions.
`acked` and `tried` are history: the last configuration that was answered as saved,
and those that were attempted after it. `Decoded` is what a start makes of a main file,
the subscriptions it embeds included; `Outdated` tells when those are not what the
other file says, which puts `"embedded"` into `blind`: should the other file be lost
before the main file is rewritten, the embedded ones come back. `Accepted` is
the check of a settings request by itself, `LimitsToCheck` the one over a snapshot.

## 3 What the runs show

Every run finishes within four minutes on two workers.

| Run | Instance | Checks |
|---|---|---|
| `pool_safety` | 2 accounts, 3 requests of which one may disconnect and switch its account, 1 administrator that rebuilds or changes settings, 2 store states (an account removed, a queue of no places) | `Inv` (types; every lease is counted or was forgotten by a rebuild or a second release; channels and waiters agree), `FifoWakeups`, `KeepsPromise` (a refinement of `SlotPool`) |
| `pool_liveness` | the same requests, 2 store states with the same accounts and different limits; nobody disconnects or switches | whoever waits has somebody who will wake him (`NoStrandedWaiters`), and is woken (`EveryWaiterIsNotified`) |
| `elastic_algorithm` | 3 accounts in any order, 2 pool types, every edit | `KeepsQuota`: the loops compute the declarative result after every transaction that reconciles; between them a type nobody edits stays within its quota, short of it only by mutes that expired; flags are set on existing accounts only |
| `auth_requests` | 2 accounts, 2 requests, pinned or not, one slot each, rebuilds | `Inv` (no slot without an owner, pins hold), `EnsureEnds` |
| `history_faults` | 3 entries, limits 0 to 2, 4 revisions | `Durable` (nothing acknowledged is lost, a save that succeeds is complete), `NewestKept`, `RevisionFresh` (no revision twice in the life of the directory, unless the last one was lost) |
| `lease_slots` | 2 streams, 3 accounts with one slot | `SlotsAttended` (every slot has an owner who will give it back, unless its lease was overrun), `CallsEndFirst`, `NoResurrection` |
| `stream_pump` | 3 lines of 9 kinds, channels of one, any timing | `AnswerArrives` (no text lost, doubled, swapped or left waiting; the end sees all of it), `ThinkingHidden`, `SameInNode` (three of the kinds are read apart by the two parsers), `StreamEnds` (also for the goroutines) |
| `answer_events` | 3 pieces of an answer out of 6, 5 surfaces, 5 kinds of request streamed and whole, 1 retry, 1 switch; history off for one kind, entry deleted or history switched off for two | `EventsInOrder` (one terminal event, blocks, finish reason), `CallsTold`, `TextAsParsed`, `SameWithoutStream`, `RetryOnlyUnshown`, `HistoryTold` |
| `completion_calls` | 3 accounts, 3 segments, 2 tries, 2 retries, 2 rounds of continuation | `MessagesWhole` (parents add up to the prompt; sessions and files are of this beginning; files are ready), `PostedByOwner` (session, file and parent of a message, a retry's too, belong to the account that posts it, unless astray), `InBounds`, `MutedRests`, `ContinuesUnfinished`, `RequestEnds` (with the session of the answer removed when single sessions are) |
| `node_bindings` | 2 accounts, 2 nodes in 2 subscriptions, 2 API ports, 4 stored configurations | `BindingsSound` (any account can be bound to any node; a bound account dials its node, unless that node went), `CoolingRests`, `DeadNodeIsLeft`, `BindingsFollow` |
| `bridge_process` | 1 administrator besides start and watcher, 2 configurations, 2 changes, 2 faults (a crash of the child, a thing gone missing, an end of the daemon) | `ChildKnown` (one child at most, probes carry its secret), `LatestApplied` (the child runs what an operation of the bridge saved last, or the last `Apply` found), `BridgeComesUp` (unless its exit was overlooked) |
| `config_store` | one of each entity, two in the second file, of which one is a port that the API may have too, 5 first disks, 7 setups of path and environment | `FilesFollow` (files complete after an answered save, never older than one), `StartsAgain` (a start accepts what is written, but for unchecked parts and ports beside another API port), `EditsHold` |

Sizes on two workers: `stream_pump` 2 million distinct states in two minutes,
`answer_events` 160,000 in one minute (its states are large), `completion_calls`
710,000 in one, `lease_slots` 5.7 million in two and a half and
`config_store` 2.6 million in one and a half, `pool_safety` 4.1 million in two, `elastic_algorithm`
260,000 in two (its symmetry is dear), `history_faults` 6.7 million in two,
`bridge_process` 2.7 million in one and a half; the others are smaller.

**Bounds.** Two accounts and three requests are the smallest instance in which a
waiter can be overtaken, a wake-up can go to the wrong waiter, and a slot freed
by mistake can be taken by a third. Three accounts are the smallest instance of
the elastic pool in which a quota of two leaves a reserve, and of the leases in
which a switch can fail once and succeed. Three entries with a limit of two
evict; `MaxRevision` (4) is enough for a failed save, a crash, a restart and
further operations. In `ChatHistory` the clock may be anywhere at every operation
(`MaxRevision` bounds it); in `StreamLease` the name of a stream that was overrun is not used
again. Three lines (`MaxLines`) are one to open a buffer, one to gather into it and
one to end or change type; channels hold one (`BufferSize`) so that every send can block,
and `MinChars` 3 lies between one piece and two. Three results (`MaxResults`) cut
a call in two and put prose around it; a retry and a switch (`MaxRetries`,
`MaxSwitches`) are each possible once. In `Completion` two tries (three in the code)
tell the last from the others, `MaxSegments` 3 has a first, a middle and a last
segment, two retries (`RetryMax`) tell the first from one that repeats a repeated payload,
two lines of a body (`MaxLines`) contradict each other or repeat, and `MaxWork` (3) keeps
segments and accounts from being many at once.
`FailThreshold` 2 tells one failure from enough. In `NodeBinding` `MaxEdits` and
`MaxOutages` are 1 per behaviour, and longer histories are entered through `Starts`:
the configurations that earlier edits leave behind. `BindingAssumption` allows sixteen
nodes, as many as the window in `ValidateMihomoConfig` is sure to see (section 5). In `ConfigStore` three
transactions (`MaxCommits`) are one to owe a file, one to fail and one to be
acknowledged, with one fault and one crash; two settings calls may overlap. Two
entries of the second file tell an outdated list from an empty one, and of the two
ports of the API one is free. In
`BridgeProcess` `MaxSecret` 6 leaves one to choose in every reachable state, and two
`Faults` are a crash and one more thing that goes wrong.

**Fairness.** `AccountPool`: weak fairness of a request's attempt, of its wake-up
and of its release, one condition per request: a goroutine that is runnable, and
not blocked on a lock somebody holds for ever, is run by Go's scheduler, and
handlers defer `Release`. `AuthResolver`: weak fairness of logins, of the wait for
an account and of the attempts of a switch, which are HTTP calls with timeouts or
run under the pool's lock. `StreamPump`: goroutines that can go on do so, tickers
tick, a handler that is done returns and its body is closed; the fairness of the
pump is stated on the variables its steps change, which says the same and is
quicker to check. Nothing is assumed of the upstream or of the client.
`Completion`: weak fairness of the whole, a sequential request whose HTTP calls
have timeouts. `NodeBinding`: the watcher's goroutine goes on (that it does not stay at
its commit for ever is the weak fairness of that step), marking and cooldowns
end; the watcher's tick has strong fairness, because its `select` chooses at random
between the ticker and a signal, so that signals do not pass it over for ever.
`BridgeProcess`: weak fairness of the running `Apply` with its queue, of the watcher's
self-healing and of the goroutine that notes an exit. The 60 seconds between two
self-heals are in that fairness only. The other
specifications are safety only.

**Deadlock** is not checked where the system may rest: a finished stream or answer,
a switched-off bridge, a store that refused to start, revisions or lease names
used up.

**Symmetry** is used for requests, accounts, entries and streams, in runs
without liveness properties only, and never for an identifier the instance
singles out.

## 4 What is proved

The theorems hold for every value of the constants that satisfies the assumption of
the module (`ConstantsAssumption` and `ConfigsAssumption` of `AccountPool`,
`ElasticAssumption`, `ResolverAssumption`, `LeaseAssumption`, `PumpAssumption`,
`CompletionAssumption`, `HistoryAssumption`, `ConfigAssumption`, `BridgeAssumption`,
`BindingAssumption` and `StartsAssumption` of `NodeBinding`): sets of identifiers of
any size (finite where something is counted), limits that are numbers, and "none" values
that are none of the others. `PumpAssumption` asks of the lines no more than their shape
(`LineType`): any text, of any length, in any path. `StartsAssumption` says that the
configurations `NodeBinding` starts from are ones the program wrote (`Sound`), which
what it writes then is again; `FreshIsSound` shows that a new configuration is. TLC
evaluates each assumption in the run of its module. Where a property of a run is the
conjunction of named parts, the theorem is about the whole conjunction. Each proof has
one lemma for each action, and the theorem puts them together.

* `AccountPoolProofs`: `PoolIsConsistent`, `Spec => []Inv`, and `AccountingIsExact`.
  The parts of `Inv` are inductive only together: `Release` needs the accounting
  to know that a slot the counter lacks was forgotten by a rebuild, the
  accounting needs the type invariant's link between `lease` and `pc`, and the
  FIFO of waiters needs that no parked request is in it twice. `SequenceLemmas`
  has the facts about sequences they rest on.
  `WaitersAreServedInOrder` (the action property `FifoWakeups`) follows from the same
  invariant: every step of the queue is a tail, an append, a removal or a
  clearing, each of which keeps the order of what stays (`KeepsOrder`).
  `PoolKeepsPromise` is the refinement the run checks. The invariant added is that, with
  nothing forgotten, there are as many slots as holders, so that the limits, which the
  code compares with its counters, bound the leases.
  `NobodyIsStranded`: if no client disconnects (`MayCancel = {}`) and the states of the store differ in
  tokens and settings only, a non-empty FIFO implies a slot that is taken or a request
  about to try that can be served. The invariant added is that every rotation,
  installed or being built, has the accounts of the store, and that a parked request
  can be served. Both assumptions are needed: see the lost wake-up in section 5.
  `ElasticPoolKeepsQuota`: for any accounts, types, quotas and edits the loops of
  `elastic.go` end with the first accounts of each type that are not muted enabled, within
  its quota, and no others; until the next reconcile a type that is not edited keeps to its
  quota; and no flag is left on an account that is gone. The loops are followed account by
  account, and `EarlyFillQuota` counts what they enable.
* `RequestProofs`, the account: `ResolverIsConsistent`, `ResolverKeepsPin`. The inductive `Inv` adds to `NoSlotLeak` that a request
  owns at most the slot of the account it names, and that only a request without
  a pin switches.
* `RequestProofs`, the answer: `AnswerIsRecorded` (`HistoryTold`), for any requests, any
  results of the stream and any limits. `HistoryInv` adds, phase by phase, what the session
  of the history is (`HistoryReady`): before its last step of preparation a handler has
  no entry; when it asks the upstream the session is enabled exactly if the history is on;
  the Vercel function has none. Which event ended the answer is read off the last one of
  `sent` (`Left`, `Concluded`); that the events before it are in order is not needed.
* `StreamProofs`, the leases: `LeasesAreAttended`, `CallsEndBeforeLease`, `LeasesStayAway`.
  That a slot is attended after a call has ended needs that the lease the call worked on
  is still in the table unless it was overrun (`LeaseUnderCall`), that the release
  gives back the slot the stream has (`OwnsNamed`), and that a function does not end
  its lease beside a call it awaits (`AwaitsItsCalls`). That the pool counts no slot of
  nobody is a statement about cardinalities, kept apart (`NoPhantomSlot`).
* `StreamProofs`, the pump: `GatheringIsInvisible` (`AnswerArrives`) and
  `ReasoningStaysHidden` (`ThinkingHidden`), for any lines, channel sizes, thresholds and
  timing: what the handler is given, together with what is in the channel, in the hand of
  the pump and in its buffers, is what reading the same lines one after the other gives.
  `PumpInv` is `PumpShapes` and `Held` (types; everything under way may be shown), `Timed`
  (whatever is buffered has a timer running), `Drained` (the pump ends when the lines do),
  `Agrees` and `Reports` (the engine calls an answer ended that is). `Agrees` is needed
  because the property is silent once a line has stopped the answer: from then on what is
  under way is the answer, a result that stops, and perhaps results behind it that the
  engine will not take (`Kept`, `Cut`). Under it lies that parsing a line changes the two
  sides alike, by induction over the loops of the parser.
* `CompletionProofs`: `CompletionIsBounded`, `MessagesAreWhole`, `OwnersPost`,
  `MutedAccountsRest`, `UnfinishedIsContinued`.
  Whether a message refers to what is there depends on the place of the request in its
  plan: `OnPlan` says that `plan` is what remains of the one its leg began with, `Made`
  and `Linked` what the operations already done have left for those that remain.
  That it belongs to the account that posts it (`OwnInv`) needs that whatever this beginning
  has made is the token's (`Holders`), that its messages are in its session (`Here`), and that
  what a retry repeats is of it (`Repeated`), which hold from the step that makes them on.
  The number of completions is bounded because each is one that the first start, a
  retry or a new account has paid for (`CallsCounted`), and accounts are used up
  (`Accounts`). A muted account rests because accounts are tried in one order
  (`MutedBehind`). An answer is continued only when it is unfinished
  (`ContinuesUnfinished`) because, line by line and patch by patch, a `continueState`
  gathers no more than the body says (`Tells`), and every body finds it fresh
  (`ContFresh`).
* `ChatHistoryProofs`: `HistoryIsDurable`, `RevisionsAreFresh`, `NewestIsKept`, with
  crashes and failing writes or without. The invariant adds that whatever is neither
  marked dirty nor still to be written is on disk as it is in memory (`PendingIsAll`),
  also in the middle of a save; that memory, and once nothing is owed the index, know
  the highest revision unless one was lost (`Given`); and that memory is never older than the index on disk (`Forward`).
* `ConfigStoreProofs`: `SavedConfigurationSurvives`, `RestartIsAccepted`,
  `EditsAreNarrow`. The invariant says of each dirty bit what its file holds while the
  bit is clear, in terms of what a start would load (`MainUpToDate`, `SubsUpToDate`),
  and of each readable file that it holds nothing older than what was last told to be
  saved (`NothingOlder`, `PendingKnown` while a migration is pending).
  `RestartIsAccepted` has the hypothesis `ValidInputs`: the configuration in the
  environment, the legacy file and the files found on the disk at first are ones a start
  accepts, also where the second file found stands beside the environment or the legacy
  file. The code does not make them, and what it refuses at the first start it refuses
  again; the run's inputs satisfy it. The invariant (`Sound`) is that memory and each text
  pass the checks but for the unchecked parts, and that the second file gives out no port
  that the API had when the files were last written; that holds between the two writes
  because the second file is then what memory holds.
* `MihomoProofs`, the nodes: `BindingsStaySound` (`BindingsSound`) and `CooldownIsKept`
  (`CoolingRests`), for any accounts, nodes, subscriptions and number of edits. The
  invariant (`BindingInv`) is that the configuration is `Sound`, which each transaction
  keeps through the loops that bind or move accounts, `gcLocked` and `validateMutation`,
  with the types of the watcher's plan and of the administrator's list. That a port can
  always be allocated is a pigeonhole (`PortIsFree`); that failover leaves cooling
  accounts alone needs that an account the plan would move is not cooling down when the
  plan is committed (`WatchOK`).
* `MihomoProofs`, the child: `BridgeKnowsItsChild`, `BridgeAppliesTheLatest`. The
  invariant follows a restart through its steps (`RestartSteps`), ties the child to the
  file by its secret (`ChildLinks`), and says that what waits or runs will apply the
  configuration that is due (`UpToDate`): only calls for the button give up their place
  without bringing anything new.

The library's induction theorems take a predicate, which these provers cannot
instantiate. `SequenceLemmas` has induction for sets of numbers instead (`Induction`, from
the well-foundedness of `<`): that recursive functions exist (`Recursion`), what each turn
of a loop keeps (`LoopType`), that two loops end alike (`LoopsEnd`), and what `Among` and
`Joined` do to longer lists.

Model-checked only:

* liveness (`EveryWaiterIsNotified`, `EnsureEnds`, `StreamEnds`, `RequestEnds`,
  `DeadNodeIsLeft`, `BindingsFollow`, `BridgeComesUp`), which needs `ENABLED` and
  fairness;
* `SameInNode`: the two parsers agree on six of the nine kinds of lines of the instance,
  and of the other three it is said how far they part (section 5);
* `AnswerStream` (`EventsInOrder`, `CallsTold`, `TextAsParsed`, `SameWithoutStream`,
  `RetryOnlyUnshown`): what the surfaces send rests on the parser of call markup and on
  the two sieves, loops in loops over texts, of which no theorem says what they make.

## 5 Where the code and its documentation disagree

Met while modelling; the models do what the code does, and the properties make
the exception they name.

**Accounts.** `AcquireWait` (`pool_acquire.go:45`) prefers neither branch of its
`select`: if a client leaves at the moment its channel is closed, the freed slot
is announced to nobody. `applyElasticState` (`elastic.go:74`) disregards `Banned`,
and cooldowns: a banned account keeps its place in the quota and is even enabled again
by the reconcile in the very transaction that bans it (`auth/request.go:333-338`,
`client_auth.go:195-200`), and no standby takes the place of one that cools down,
although `client_auth.go:282-283` and `locales/en.json:176` say so. `KeepsQuota` is about
mutes, the one flag the code looks at. After a failed
`SwitchAccount` (`auth/request.go:374`) the request keeps the name of an account
it has released, runs on it and releases it again, against the per-account limit
of `README.MD:380`; later mutes and cooldowns are recorded for the wrong account.
`Pool.Reset` forgets running requests, so that an account may serve twice its
limit until they end; so may one whose slot another request's second release counted
down (`forgotten` measures both).

**History.** `saveLocked` (`chathistory/store.go:514`) removes files before it
rewrites the index that names them: a crash between the two leaves an index that
cannot be loaded any more (`AckedSurvive` leaves out what was being deleted or evicted).
`loadLocked` takes the revision from the index (`store.go:454`), not from the detail files: after
a stop in the middle of a save, or after one that failed, and with a clock that was set
back, an entry is given again a revision, and an ETag, that was given before
(`RevisionFresh` excepts it by `lost`). Claude and Gemini leave an entry "streaming" after a
failed retry, Responses after a disconnect (`HistoryTold` excepts these).

**Leases.** A switch that outlives its lease takes a slot into no lease
(`vercel_stream.go:250`), although `http_internal.js:200` trusts the expiry to
prevent permanent leaks; the last expired lease is swept only when another lease
call arrives.

**Completion.** Both the stream path (`chat_stream_runtime.go:283`) and the whole
answer (`nonstream.go:200`, which rebuilds the turn without its error) retry and
switch accounts for an error the upstream reported, although
`assistantturn/turn_test.go:172-176` says not to. The drain goroutine of
`client_stop_stream.go` closes its channel on any read error (200-209), so that a segment
whose stream broke is taken as committed, against the comments at 26-31 and 237-240
(`ChainWhole` excepts such a parent). A retry after a captcha goes to another
session (`stream_retry.go:189`), against `docs/prompt-compatibility.md:118`.
`GetPow` and, behind a file, `CreateSession` may switch the account after a session or a file
was made, which then is used with the new account's token. A stream's runtime keeps the last
id of the session before, and the first retry on another account may name it as its parent
(`PostedByOwner` excepts these, `astray`). The sessions of abandoned beginnings are never
removed, and in mode `single` the one removed after a switch that failed is asked for with
the token of another account. File ids are kept by content, not by account, and are not
uploaded again after a switch.

**Streams.** At the end of a stream the pump drops gathered reasoning
(`sse/stream.go:203`), against `docs/DeepSeekSSE行为结构说明-2026-04-05.md:56`; of text
nothing is lost. The Node parser differs from the Go one for a fragment appended
without content, for an object value on some paths, for the place where a leaked
marker is cut, and for error lines of the kind "hint", which it ignores
(`SameInNode` has lines of all of these but the last in its instance, for which it claims only what
still holds, and compares up to the first hint).

**Answers.** With the search on, a stream of the OpenAI surfaces and of Gemini hides a piece
that begins with `[citation:`, with all the prose or markup that follows in it
(`stream_accumulator.go:92-95`), while a whole answer and Claude's stream show it, though
`docs/prompt-compatibility.md:120-121` speaks of the markers only: text is missing, and if
nothing is left the answer counts as empty or its reasoning is searched for calls
(`SameWithoutStream` and `CallsTold` let the answer be told with such a piece or without it).
A newline that arrives as a chunk of its own is not noted by the
sieve (`tool_sieve_state.go:51`), so that fenced markup may be run as a call,
against `docs/toolcall-semantics.md:65`. The Node sieve searches trimmed text with
indexes of the untrimmed (`parse_payload.js:649`), which shows markup after a
leading newline. Items of a Responses stream may live twice
(`responses_stream_runtime_toolcalls.go:91`). Claude without tools shows markup as
text yet ends with `tool_use`. A malformed call is shown as prose but stripped
from the turn, which may be retried after text was shown; a required call is
retried after text was shown (`RetryOnlyUnshown` excepts it). The Node function
does not check a second account for a mute, and ends without a terminal event
when a call of its own throws.

**Nodes.** `gcLocked` (`binding.go:46`) collects the port of a node that vanished but
keeps proxy and bindings, against the comment of `RefreshSubscription`: the
account dials a port nobody listens on, or later another node's (`DialsItsNode` excepts
it by `left`). Deleting a subscription unbinds the accounts of nodes with a port only.
Once more than sixteen ports were given out and most of them given back, the window in
`ValidateMihomoConfig` (`config/mihomo.go:266`) lets an administrator move the API to the
port of a node beyond it, and a later binding, with which it grows, may be refused for
that. The plan of
`reconcileBindings` overrides an unbind or bind that fell between its snapshot
and its transaction. An exit of the child that is noted between `waitReady` and
`running = true` (`manager.go:309-313`), or between the test of `running` and the same
assignment when nothing has changed (`manager.go:262-275`), leaves the bridge down while
believed up: every later `Apply` finds the file unchanged and skips, against the comment
of `trySelfHeal` (`autoassign.go:372-373`) that it comes up again (`BridgeComesUp` excepts
it by `early`). A failed `Apply` leaves the old child serving, and nobody repeats it, against
`autoassign.go:280-281`. Giving an account another proxy, deleting a proxy or an account,
and replacing the configuration (`handler_proxies.go:131-218`,
`handler_accounts_crud.go:186-193`, `handler_config_write.go:75`,
`handler_config_import.go:147`) change what `BuildRuntimeYAML` would write and call no
`Apply`: the child keeps the former exits until somebody else does (`LatestApplied` is
about `due`). An orphan child of a daemon that
died makes every later preflight fail.

**Configuration.** The two files are written with `os.WriteFile`; a torn main file
refuses the next start, a torn subscriptions file loses them with a warning.
Rewriting an old file for its test results (`store.go:151`) drops embedded
subscriptions from it without marking the other file dirty; so does the legacy
container path. While such a file waits to be rewritten the other may have been
saved and lost again: then the embedded subscriptions, older than those last
saved, come back (`store.go:323`; `AckedSurvives` excepts it by `blind`). Settings are checked on a snapshot and merged later
(`handler_settings_write.go:26`), and `updateConfig` and `batchImport` do not check
proxies: either may persist what the next start refuses, against the comment of
`validateMutation` (`binding.go:31`). So may a save that moves the API's port and gives the
port it had to a node: the ports are in the file that is written first, and after a crash
or a failed write they stand beside the old API port, as they may beside the configuration
of the environment (`StartsAgain` excepts these by `raw` and by `beside`). `updateConfig` wipes the flags of accounts,
bans included, although `auth/request.go:318` says that only a login lifts one,
and writes back passwords from a snapshot. A save that fails keeps its change in
memory although the handler answered an error.

## 6 What is not modelled

* Data without state: prompt building, request normalisation, response formats,
  translators, wire formats, share links, YAML, the values of call arguments and
  their schemas, citation links, version checks, the web UI.
* The upstream: an operation of it succeeds or fails in the ways the code tells
  apart.
* `AuthResolver` and `StreamLease` use the pool's per-account counters;
  `AccountPool` has the limits and the queue. Which of two tokens an account has is
  not told apart, so that two logins at once, and a late `MarkTokenInvalid`, are not.
* `Completion`: the other side of a session (who else uses the account); the second context
  file, of tools, which is uploaded and polled like the first.
* `NodeBinding`: failing saves of the configuration (`ConfigStore` has them); the plan
  reads its snapshot and the health in one step; the order of latencies is fixed;
  `auto` stands for enabled and `auto_bind` together; the base port is fixed; an
  administrator's edit by hand of a managed proxy.
* `BridgeProcess`: ports and the path of the binary are fixed, killing a child
  succeeds within its three seconds.
* `StreamLease`: the next call of a stream comes after its broken handler's end; only
  the release overlaps.
* `ConfigStore`: tokens, passwords, names, indexes (rebuilt in every transaction),
  read-only Vercel mode, `Replace` and `Save` (used by tests), node filters, the base port,
  what the bridge's transactions do to proxies and accounts (`NodeBinding` has it), the
  elastic reconcile inside transactions (`ElasticPool` has it). A start is atomic
  with the outcomes of its writes.
* Answers: token estimates, the addresses of citations and markers cut between two pieces, the text of errors; `CDATA`, comments and `~~~`
  fences, which are skipped like fenced code.
* Files of two processes on one directory, which the code does not support; direct
  tokens in the pool (such a request uses no account).
* Connections, TLS fingerprints and proxies of `deepseek/transport`; captures and raw
  samples; wiring and the server's routes: I/O without decisions the properties
  depend on.

## 7 Plan

1. Proofs: that the sieves and the parser of call markup keep to texts, and on it the order
   of the events of `AnswerStream`.
2. `AuthResolver` with generations of tokens, and composed with `AccountPool` instead
   of its counters.
3. `StoreChange` of `AccountPool` shown to be implemented by the transactions of
   `ConfigStore`.
4. The response store and the file store of the OpenAI handlers.
