----------------------------- MODULE BridgeProcess -----------------------------
(***************************************************************************)
(* internal/mihomo/manager.go: the mihomo child process that carries the   *)
(* bindings of NodeBinding.  The operations of the bridge save the         *)
(* configuration and call Apply (calls queue up), which writes runtime.yaml*)
(* and restarts the child unless nothing has changed; other handlers save  *)
(* and do not call it.  A goroutine waits for the child to exit, the       *)
(* watcher applies again when its control port does not answer, and the    *)
(* daemon itself may stop or die and start again.                          *)
(*                                                                         *)
(* A secret of the control port identifies the child that was started with *)
(* it; the ports and the path of the binary stay the same throughout.      *)
(***************************************************************************)
EXTENDS Naturals, FiniteSets

CONSTANTS
  Admins,     \* the calls of administrators, and of the watcher after it has moved a binding
  Confs,      \* what runtime.yaml may say (the active bindings)
  Changes,    \* how often the configuration is changed, or the button "apply" is pressed
  Faults,     \* how often a child exits by itself, something it needs goes missing, or the
              \* daemon stops or dies
  MaxSecret   \* how many secrets there are to choose from

ASSUME BridgeAssumption ==
  /\ Changes \in Nat /\ Faults \in Nat
  /\ MaxSecret \in Nat \ {0}
  /\ Admins \cap {"startup", "watcher", "button", "nobody"} = {}

VARIABLES
  want,       \* the saved configuration: enabled, auto_bind, and what runtime.yaml is to say
  trouble,    \* what is missing: the "binary", a writable "disk", a free "port"
  file,       \* runtime.yaml: its configuration and its secret
  alive,      \* the children that run, as the configuration and the secret they read
  exits,      \* the secrets of children whose exit has not been noted
  handle, apiSecret, running, failed,  \* fields of the Manager; failed: lastErr is set
  job,        \* the Apply that runs: its caller, its step, the snapshot it took
  waiting,    \* the calls of Apply that wait for it
  daemon,     \* "up", "stopping", "down"
  left,       \* how often the environment may still act
  due,        \* for the properties: the configuration as the last Apply found it, or as one
              \* that is to apply it has saved it
  early       \* for the properties: the exit of the child was noted while an Apply that had
              \* found it running was about to note that it runs

manager == <<handle, apiSecret, running, failed>>
child == <<file, alive, exits>>
ghosts == <<due, early>>
vars == <<want, trouble, file, alive, exits, handle, apiSecret, running, failed, job, waiting, daemon, left, ghosts>>

None == 0
Secrets == 1..MaxSecret
Wants == [on : BOOLEAN, auto : BOOLEAN, conf : Confs]
NoFile == [conf |-> None, secret |-> None]
NoJob == [who |-> "nobody", step |-> "none", conf |-> None, secret |-> None]
Callers == Admins \union {"startup", "watcher", "button"}
Steps == {"none", "disable", "compare", "skip", "write", "stop", "preflight", "start", "ready", "up"}

\* randomAPISecret: one that nobody has.
Fresh == Secrets \ ({apiSecret, file.secret, handle} \union exits \union {p.secret : p \in alive})
NewSecret == CHOOSE s \in Fresh : TRUE

\* BuildRuntimeYAML
RuntimeYAML(conf, secret) == [conf |-> conf, secret |-> secret]

Mine == {p \in alive : p.secret = handle}
Orphans == {p \in alive : p.secret \notin {handle, job.secret}}

\* apiReachable: a child that knows the secret answers.
Reachable == \E p \in alive : p.secret = apiSecret

Init ==
  /\ want \in Wants /\ due = want /\ early = FALSE /\ trouble = {}
  /\ file = NoFile /\ alive = {} /\ exits = {}
  /\ handle = None /\ apiSecret = 1 /\ running = FALSE /\ failed = FALSE
  /\ job = NoJob /\ waiting = IF want.on THEN {"startup"} ELSE {}
  /\ daemon = "up"
  /\ left = [changes |-> Changes, faults |-> Faults]
-----------------------------------------------------------------------------
(* The calls of Apply. *)

Idle(c) == c \notin waiting /\ job.who # c

\* A change is saved, then applied (UpdateSettings, bindings: applyBestEffort).
Change(c) ==
  /\ daemon = "up" /\ Idle(c) /\ left.changes > 0 /\ left' = [left EXCEPT !.changes = @ - 1]
  /\ want' \in Wants \ {want} /\ due' = want'
  /\ waiting' = waiting \union {c}
  /\ UNCHANGED <<trouble, child, manager, job, daemon, early>>

\* A change is saved by a handler that does not call Apply: an account is given another
\* proxy, a managed proxy or an account is deleted, the whole configuration is replaced.
SilentChange ==
  /\ daemon = "up" /\ left.changes > 0 /\ left' = [left EXCEPT !.changes = @ - 1]
  /\ want' \in Wants \ {want}
  /\ UNCHANGED <<trouble, child, manager, job, waiting, daemon, ghosts>>

\* The button "apply" (applyNow), whose client may leave while it waits.
ApplyNow ==
  /\ daemon = "up" /\ Idle("button") /\ left.changes > 0 /\ left' = [left EXCEPT !.changes = @ - 1]
  /\ waiting' = waiting \union {"button"}
  /\ UNCHANGED <<want, trouble, child, manager, job, daemon, ghosts>>
CancelWait ==
  /\ "button" \in waiting /\ job # NoJob /\ waiting' = waiting \ {"button"}
  /\ UNCHANGED <<want, trouble, child, manager, job, daemon, left, ghosts>>

\* trySelfHeal, on a tick of the watcher, which does nothing without auto_bind.
SelfHeal ==
  /\ daemon = "up" /\ Idle("watcher") /\ want.on /\ want.auto /\ ~Reachable
  /\ waiting' = waiting \union {"watcher"}
  /\ UNCHANGED <<want, trouble, child, manager, job, daemon, left, ghosts>>

\* Mutant: the call that has got its turn still stands in the queue.
EnterStillWaiting(c) ==
  /\ c \in waiting /\ job = NoJob
  /\ job' = [who |-> c, step |-> IF want.on THEN "compare" ELSE "disable", conf |-> want.conf, secret |-> None]
  /\ due' = want
  /\ UNCHANGED <<want, trouble, child, manager, waiting, daemon, left, early>>
\* Apply gets its turn and takes the snapshot.
Enter(c) ==
  /\ c \in waiting /\ job = NoJob
  /\ waiting' = waiting \ {c}
  /\ job' = [who |-> c, step |-> IF want.on THEN "compare" ELSE "disable", conf |-> want.conf, secret |-> None]
  /\ due' = want
  /\ UNCHANGED <<want, trouble, child, manager, daemon, left, early>>
-----------------------------------------------------------------------------
(* doApply, step by step. *)

At(step) == job.step = step /\ UNCHANGED <<want, trouble, waiting, daemon, left, due>>
Go(step) == job' = [job EXCEPT !.step = step]

\* setLastErr, and the ends of doApply.
Fail == job' = NoJob /\ failed' = TRUE /\ running' = FALSE /\ early' = FALSE
Succeed(run) == job' = NoJob /\ failed' = FALSE /\ running' = run

\* stopProcess: the child that is known is killed and has exited.
StopProcess == alive' = alive \ Mine /\ handle' = None

Disable ==
  /\ At("disable") /\ StopProcess /\ Succeed(FALSE) /\ early' = FALSE
  /\ UNCHANGED <<file, exits, apiSecret>>

\* Mutant: a child that runs is good enough.
UnchangedIfRunning == running
\* Nothing is done if the file would be the same and the process runs.
Unchanged == running /\ file = RuntimeYAML(job.conf, apiSecret)
Compare ==
  /\ At("compare") /\ UNCHANGED <<child, handle, apiSecret>>
  /\ IF "binary" \in trouble THEN Fail
     ELSE Go(IF Unchanged THEN "skip" ELSE "write") /\ UNCHANGED <<running, failed, early>>
Skip == At("skip") /\ Succeed(TRUE) /\ UNCHANGED <<child, handle, apiSecret, early>>

\* Mutant: the manager takes the new secret as soon as the file has it.
WriteCommits ==
  /\ At("write") /\ Fresh # {} /\ UNCHANGED <<alive, exits, handle, running, failed, early>>
  /\ file' = RuntimeYAML(job.conf, NewSecret) /\ apiSecret' = NewSecret
  /\ job' = [job EXCEPT !.step = "stop", !.secret = NewSecret]
Write ==
  /\ At("write") /\ UNCHANGED <<alive, exits, handle, apiSecret>>
  /\ IF "disk" \in trouble THEN Fail /\ UNCHANGED file
     ELSE /\ Fresh # {} /\ file' = RuntimeYAML(job.conf, NewSecret)
          /\ job' = [job EXCEPT !.step = "stop", !.secret = NewSecret]
          /\ UNCHANGED <<running, failed, early>>

StopOld ==
  /\ At("stop") /\ StopProcess /\ running' = FALSE /\ early' = FALSE /\ Go("preflight")
  /\ UNCHANGED <<file, exits, apiSecret, failed>>

\* Mutant: only the programs of others are looked for.
PortsFreeOfOthers == "port" \notin trouble
\* preflightPorts: a child that is left over holds the ports like any other program.
PortsFree == "port" \notin trouble /\ alive = {}
Preflight ==
  /\ At("preflight") /\ UNCHANGED <<child, handle, apiSecret>>
  /\ IF PortsFree THEN Go("start") /\ UNCHANGED <<running, failed, early>> ELSE Fail

\* setAPISecret, then startProcess.
Start ==
  /\ At("start") /\ apiSecret' = job.secret /\ UNCHANGED <<file, exits>>
  /\ IF "binary" \in trouble THEN Fail /\ UNCHANGED <<alive, handle>>
     ELSE /\ alive' = alive \union {file} /\ handle' = job.secret
          /\ Go("ready") /\ UNCHANGED <<running, failed, early>>

\* waitReady: only an exit makes it fail.
Ready ==
  /\ At("ready") /\ UNCHANGED <<child, handle, apiSecret>>
  /\ IF file \in alive THEN Go("up") /\ UNCHANGED <<running, failed, early>> ELSE Fail

Up == At("up") /\ Succeed(TRUE) /\ UNCHANGED <<child, handle, apiSecret, early>>

DoApply == Disable \/ Compare \/ Skip \/ Write \/ StopOld \/ Preflight \/ Start \/ Ready \/ Up
-----------------------------------------------------------------------------
(* The child, the machine and the daemon. *)

Crash ==
  /\ left.faults > 0 /\ left' = [left EXCEPT !.faults = @ - 1]
  /\ \E p \in alive : alive' = alive \ {p}
                      /\ exits' = IF p.secret = handle THEN exits \union {p.secret} ELSE exits
  /\ UNCHANGED <<want, trouble, file, manager, job, waiting, daemon, ghosts>>

\* Mutant: the exit is only logged.
NoteExitOnlyLogs(s) ==
  /\ daemon # "down" /\ s \in exits /\ exits' = exits \ {s}
  /\ IF handle = s THEN (failed' = TRUE \/ UNCHANGED failed) /\ early' = (early \/ job.step \in {"skip", "up"})
     ELSE UNCHANGED <<failed, early>>
  /\ UNCHANGED <<want, trouble, file, alive, handle, apiSecret, running, job, waiting, daemon, left, due>>
\* The goroutine that waits for the child; an exit with code 0 is no error.
NoteExit(s) ==
  /\ daemon # "down" /\ s \in exits /\ exits' = exits \ {s}
  /\ IF handle = s
     THEN running' = FALSE /\ (failed' = TRUE \/ UNCHANGED failed) /\ early' = (early \/ job.step \in {"skip", "up"})
     ELSE UNCHANGED <<running, failed, early>>
  /\ UNCHANGED <<want, trouble, file, alive, handle, apiSecret, job, waiting, daemon, left, due>>

Trouble(x) ==
  /\ left.faults > 0 /\ left' = [left EXCEPT !.faults = @ - 1]
  /\ x \notin trouble /\ (x = "port" => alive = {}) /\ trouble' = trouble \union {x}
  /\ UNCHANGED <<want, child, manager, job, waiting, daemon, ghosts>>
Mend(x) ==
  /\ x \in trouble /\ trouble' = trouble \ {x}
  /\ UNCHANGED <<want, child, manager, job, waiting, daemon, left, ghosts>>

\* Stop, at the end of a graceful shutdown; an Apply that runs is not waited for.
Stop ==
  /\ daemon = "up" /\ left.faults > 0 /\ daemon' = "stopping" /\ left' = [left EXCEPT !.faults = @ - 1]
  /\ StopProcess /\ running' = FALSE /\ early' = FALSE
  /\ UNCHANGED <<want, trouble, file, exits, apiSecret, failed, job, waiting, due>>

\* The daemon is gone: after Stop, or without it (os.Exit when the shutdown takes too
\* long, a kill).  Its children are not.
Gone ==
  /\ \/ daemon = "stopping" /\ UNCHANGED left
     \/ daemon = "up" /\ left.faults > 0 /\ left' = [left EXCEPT !.faults = @ - 1]
  /\ daemon' = "down" /\ job' = NoJob /\ waiting' = {} /\ exits' = {}
  /\ handle' = None /\ running' = FALSE /\ failed' = FALSE /\ early' = FALSE
  /\ UNCHANGED <<want, trouble, file, alive, apiSecret, due>>

\* NewManager and StartIfEnabled.
Boot ==
  /\ daemon = "down" /\ daemon' = "up"
  /\ Fresh # {} /\ apiSecret' = NewSecret /\ waiting' = IF want.on THEN {"startup"} ELSE {}
  /\ due' = want
  /\ UNCHANGED <<want, trouble, child, handle, running, failed, job, left, early>>

Next ==
  \/ \E c \in Admins : Change(c)
  \/ SilentChange \/ ApplyNow \/ CancelWait
  \/ \E c \in Callers : Enter(c)
  \/ SelfHeal \/ DoApply \/ Crash \/ Stop \/ Gone \/ Boot
  \/ \E s \in exits : NoteExit(s)
  \/ \E x \in {"binary", "disk", "port"} : Trouble(x) \/ Mend(x)

\* An Apply that has its turn goes on, one of the waiting ones gets the next turn, exits
\* are noted, and the watcher ticks.  Nothing is assumed of administrators and the machine.
Fairness ==
  /\ WF_vars(DoApply \/ \E c \in Callers : Enter(c)) /\ WF_vars(SelfHeal)
  /\ WF_vars(\E s \in exits : NoteExit(s))

Spec == Init /\ [][Next]_vars /\ Fairness
-----------------------------------------------------------------------------
(* Properties. *)

BridgeTypeOK ==
  /\ want \in Wants /\ due \in Wants /\ trouble \subseteq {"binary", "disk", "port"}
  /\ file \in [conf : Confs \union {None}, secret : Secrets \union {None}]
  /\ alive \subseteq [conf : Confs, secret : Secrets] /\ exits \subseteq Secrets
  /\ handle \in Secrets \union {None} /\ apiSecret \in Secrets
  /\ job.who \in Callers \union {"nobody"} /\ job.step \in Steps /\ (job.who = "nobody" <=> job.step = "none")
  /\ waiting \subseteq Callers /\ job.who \notin waiting

\* There are never two children, whoever applies when and whatever the daemon has left
\* over: they would fight for the ports, and accounts would leave by the wrong exit.
OneChild == Cardinality(alive) <= 1

\* The health probes carry the secret of the child that runs, also while a restart is
\* under way: a wrong one would make every node look dead.
ProbesAreHeard == \A p \in Mine : p.secret = apiSecret

\* When every call has returned, the last without an error, the child runs the
\* configuration that was saved last by an operation of the bridge or found by the last
\* Apply, and there is none if that is switched off.  (What the other handlers save waits
\* for the next call of Apply, whoever makes it.)
LatestApplied ==
  daemon = "up" /\ job = NoJob /\ waiting = {} /\ ~failed =>
    IF due.on THEN \A p \in Mine : p.conf = due.conf ELSE Mine = {}

\* With auto_bind the bridge comes up, and comes up again after its child has died, once
\* the machine has what it needs and no child of an earlier daemon holds the ports.  It may
\* keep an older configuration if the last Apply failed, which nobody repeats (against the
\* message "will retry next tick"), but tells so.  The one way it stays down: the child dies
\* while an Apply that has found it running is about to note that it runs (early).  Then the
\* manager takes a dead child for a running one, and every later Apply skips the restart.
Calm == daemon = "up" /\ trouble = {} /\ Orphans = {}
BridgeComesUp ==
  <>[]Calm => <>[](want.on /\ want.auto /\ ~early => \E p \in Mine : p.conf = due.conf \/ failed)

\* What the manager believes of its child is so: there is one at most, and it answers to the
\* secret the probes carry.
ChildKnown == BridgeTypeOK /\ OneChild /\ ProbesAreHeard
=============================================================================
