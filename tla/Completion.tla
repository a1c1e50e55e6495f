------------------------------ MODULE Completion ------------------------------
(***************************************************************************)
(* The upstream calls of one request: internal/completionruntime starts a  *)
(* completion (files, session, proof of work, prompt segments, the call),  *)
(* repeats it when the answer is empty and begins it anew on another       *)
(* account; internal/deepseek/client makes each call, refreshing the token *)
(* and switching the account under it.  Every try of an HTTP call is a     *)
(* step, and the upstream chooses how it ends.                             *)
(*                                                                         *)
(* What an answer shows the client is AnswerStream's matter, and how the   *)
(* pool lends accounts AuthResolver's.                                     *)
(***************************************************************************)
EXTENDS Naturals, Sequences, FiniteSets, SequencesExt, Loops

CONSTANTS
  Others,       \* the accounts a request may switch to, beside its first one
  MaxAttempts,  \* tries of a client operation (3 in the code)
  RetryMax,     \* DS2API_EMPTY_OUTPUT_RETRY_MAX_ATTEMPTS
  MaxSegments,  \* the most segments an expert prompt is split into
  MaxWork,      \* the most segments and other accounts together
  MaxPolls,     \* fileReadyPollAttempts
  MaxRounds,    \* defaultAutoContinueLimit
  MaxLines      \* the most lines of a body that matter here

ASSUME CompletionAssumption ==
  /\ Others \in Nat /\ RetryMax \in Nat /\ MaxRounds \in Nat
  /\ MaxAttempts \in Nat \ {0} /\ MaxSegments \in Nat \ {0} /\ MaxPolls \in Nat \ {0}
  /\ MaxWork \in Nat /\ MaxLines \in Nat

VARIABLES
  req,      \* the request: streamed? on a pool account, beside how many others? with a context
            \* file? segments of its prompt
  who,      \* RequestAuth: the account it names, whose token it holds (0: none), accounts left untried
  plan,     \* the client operations that are still to be made
  leg,      \* what they are for: "start", "retry", "switch", "captcha"
  epoch,    \* how often the runtime has begun anew on another account
  loop,     \* tries and refreshed of the operation under way
  upload,   \* the same of UploadFile, while it obtains its proof of work
  session,  \* the chat session: number, owner, epoch
  file,     \* the context file: owner, epoch, status
  chain,    \* parentMessageID and the next segment
  sent,     \* the messages posted, oldest first
  payload,  \* what a retry repeats
  first,    \* the payload of the start
  answer,   \* the answer being read: "stream", "nothing", "limited", "captcha", "error"
  cont,     \* continueState, and what the body just read has said itself
  seen,     \* the message with the last response_message_id the client's runtime has seen
  attempts, \* synthetic retries
  limited,  \* accountSwitchAttempted
  muted,    \* accounts the upstream has called muted
  result,   \* "", "answered" or "failed"
  removed,  \* what the deferred clean-up has deleted upstream
  astray    \* history: since the runtime last began anew the request has gone to another account, or
            \* back to another session, with what it had made (Leaves, Rewinds, OlderParent)

vars == <<req, who, plan, leg, epoch, loop, upload, session, file, chain, sent, payload, first,
          answer, cont, seen, attempts, limited, muted, result, removed, astray>>
loops == <<loop, upload>>
made == <<session, file, chain>>
posted == <<sent, payload, first, answer, muted>>
tries == <<attempts, limited, epoch>>
reading == <<cont, seen, removed>>
-----------------------------------------------------------------------------
(* The plans. *)

UploadPlan(r) == IF r.file THEN <<"pow", "upload", "wait">> ELSE <<>>
FirePlan(r) == [i \in 1..(2 * (r.segs - 1)) |-> IF i % 2 = 1 THEN "pow" ELSE "fire"]
StartPlan(r) == UploadPlan(r) \o <<"create">> \o FirePlan(r) \o <<"pow", "call">>

\* Mutant: the file of the old account is used on the new one.
SwitchPlanKeepsFile(r) == <<"create">> \o FirePlan(r) \o <<"pow", "call">>

\* On another account the files that were made of the context are uploaded once more
\* (ReuploadAppliedCurrentInputFile).
ReuploadPlan(r) == IF r.file THEN <<"pow", "upload", "wait">> ELSE <<>>

\* The stream path does it after the session and the proof of work.
SwitchPlan(r) ==
  IF r.stream /\ r.segs = 1 THEN <<"create", "pow">> \o ReuploadPlan(r) \o <<"call">>
  ELSE ReuploadPlan(r) \o <<"create">> \o FirePlan(r) \o <<"pow", "call">>

RetryPlan == <<"pow", "call">>

NoLoop == [tries |-> 0, refreshed |-> FALSE]
NoChain == [parent |-> 0, from |-> 1]
NoSession == [n |-> 0, of |-> 0, epoch |-> 0]
NoFile == [of |-> 0, epoch |-> 0, status |-> ""]
NoCont == [last |-> "", finished |-> FALSE, id |-> FALSE, rounds |-> 0, said |-> ""]
NotRemoved == [mode |-> "", session |-> 0]
NoPayload == [session |-> NoSession, file |-> NoFile, parent |-> 0, from |-> 1, to |-> 1]

Requests ==
  {r \in [stream : BOOLEAN, managed : BOOLEAN, others : 0..Others, file : BOOLEAN, segs : 1..MaxSegments] :
      /\ ~r.managed => r.others = 0
      /\ r.segs > 1 => ~r.file \* only the prompts of expert models are segmented, and these take no file
      /\ r.segs + r.others <= MaxWork}

Init ==
  /\ req \in Requests
  /\ who = [named |-> 1, token |-> 1, left |-> req.others]
  /\ plan = StartPlan(req) /\ leg = "start" /\ epoch = 0
  /\ loop = NoLoop /\ upload = NoLoop
  /\ session = NoSession /\ file = NoFile /\ chain = NoChain
  /\ sent = <<>> /\ payload = NoPayload /\ first = NoPayload /\ answer = "" /\ muted = {}
  /\ cont = NoCont /\ seen = 0 /\ attempts = 0 /\ limited = FALSE /\ result = "" /\ removed = NotRemoved
  /\ astray = FALSE
-----------------------------------------------------------------------------
(* Accounts and tokens. *)

\* SwitchAccount tries the accounts in turn: k of them cannot log in, then one can, or none is
\* free any more, and the request goes by the name of the last one with the token it had.
Switched(w) == {[named |-> w.named + k, token |-> w.named + k, left |-> w.left - k] : k \in 1..w.left}
Unswitched(w) == {[w EXCEPT !.named = @ + k, !.left = @ - k] : k \in 0..w.left}

\* An operation refreshes the token of an account once.
MayRefresh == req.managed /\ ~loop.refreshed

Tried(l) == [l EXCEPT !.tries = @ + 1]

\* RefreshToken succeeds; or the login fails, which leaves the token or clears it
\* (MarkTokenInvalid).
Refreshed == [who EXCEPT !.token = who.named]
Unrefreshed == {who, [who EXCEPT !.token = 0]}

\* After the upstream has turned a try down: the token is refreshed and the try is not
\* counted, or the account is switched, or the same is tried again.
AfterRejection(authLike) ==
  LET refresh == MayRefresh /\ authLike
  IN  (IF refresh THEN {<<Refreshed, [loop EXCEPT !.refreshed = TRUE]>>} ELSE {})
      \cup UNION {{<<s, [tries |-> loop.tries + 1, refreshed |-> FALSE]>> : s \in Switched(w)}
                  \cup {<<s, Tried(loop)>> : s \in Unswitched(w)} :
                  w \in IF refresh THEN Unrefreshed ELSE {who}}
-----------------------------------------------------------------------------
(* The client's operations. *)

Doing(op) == result = "" /\ Head(plan) = op
Fail == result' = "failed" /\ plan' = <<>>
Proceed == plan' = Tail(plan) /\ UNCHANGED result

\* An operation goes to another account although the session, or the file, of this beginning is
\* made: neither is made again for it.
InHand == \E x \in {session, file} : x.of # 0 /\ x.epoch = epoch
Leaves == InHand /\ who'.token \notin {0, who.token}

\* Mutant: one try too many.
TryAgainOver(l) ==
  IF l.tries <= MaxAttempts THEN loop' = l /\ UNCHANGED <<plan, result>>
  ELSE loop' = NoLoop /\ IF leg = "retry" THEN Proceed ELSE Fail

\* A try did not succeed.  Without a fresh proof of work a retry uses the one it has.
TryAgain(l) ==
  IF l.tries < MaxAttempts THEN loop' = l /\ UNCHANGED <<plan, result>>
  ELSE loop' = NoLoop /\ IF leg = "retry" THEN Proceed ELSE Fail

CreateSession ==
  /\ Doing("create")
  /\ \/ /\ who.token # 0 /\ Proceed /\ loop' = NoLoop
        /\ session' = [n |-> session.n + 1, of |-> who.token, epoch |-> epoch]
        /\ chain' = NoChain
        /\ UNCHANGED who
     \/ /\ \/ TryAgain(Tried(loop)) /\ UNCHANGED who                       \* request error
           \/ Fail /\ loop' = NoLoop /\ UNCHANGED who                      \* blocked
           \/ \E s \in Switched(who) : who' = s /\ TryAgain([tries |-> loop.tries + 1, refreshed |-> FALSE])
           \/ Fail /\ loop' = NoLoop /\ who' \in Unswitched(who)           \* captcha, nobody to switch to
           \/ \E authLike \in BOOLEAN : \E o \in AfterRejection(authLike) : who' = o[1] /\ TryAgain(o[2])
        /\ UNCHANGED <<session, chain>>
  /\ astray' = (astray \/ Leaves)
  /\ UNCHANGED <<req, leg, upload, file, posted, tries, reading>>

\* A request error, a block, a challenge that is not solved; a captcha, after which the account
\* is cooled down and switched if possible; a rejection.
GetPow ==
  /\ Doing("pow")
  /\ \/ who.token # 0 /\ Proceed /\ loop' = NoLoop /\ UNCHANGED who
     \/ TryAgain(Tried(loop)) /\ UNCHANGED who
     \/ \E authLike \in BOOLEAN : \E o \in AfterRejection(authLike) : who' = o[1] /\ TryAgain(o[2])
  /\ astray' = (astray \/ Leaves)
  /\ UNCHANGED <<req, leg, upload, made, posted, tries, reading>>

\* Mutant: the tries of an upload are not counted.
UploadAgainUncounted(l) ==
  /\ loop' = NoLoop /\ upload' = [l EXCEPT !.tries = upload.tries]
  /\ plan' = <<"pow">> \o plan /\ UNCHANGED result

\* UploadFile goes round with a proof of work of its own; a refresh counts as a try here.
UploadAgain(l) ==
  /\ loop' = NoLoop
  /\ IF l.tries < MaxAttempts
     THEN upload' = l /\ plan' = <<"pow">> \o plan /\ UNCHANGED result
     ELSE upload' = NoLoop /\ Fail

\* extractUploadFileResult: an answer without a status means "uploaded".
UploadedStatus == {"uploaded", "processed"}

UploadFile ==
  /\ Doing("upload")
  /\ \/ /\ who.token # 0 /\ Proceed /\ upload' = NoLoop
        /\ \E status \in UploadedStatus : file' = [of |-> who.token, epoch |-> epoch, status |-> status]
        /\ UNCHANGED <<who, loop>>
     \/ /\ \/ Fail /\ upload' = NoLoop /\ UNCHANGED <<who, loop>>          \* request error, no file id
           \/ UploadAgain(Tried(upload)) /\ UNCHANGED who                  \* unreadable answer, blocked
           \/ /\ req.managed /\ ~upload.refreshed
              /\ who' = Refreshed /\ UploadAgain([tries |-> upload.tries + 1, refreshed |-> TRUE])
           \/ \E s \in Switched(who) :
                who' = s /\ UploadAgain([tries |-> upload.tries + 1, refreshed |-> FALSE])
           \/ \E s \in Unswitched(who) : who' = s /\ UploadAgain(Tried(upload))
        /\ UNCHANGED file
  /\ astray' = (astray \/ Leaves)
  /\ UNCHANGED <<req, leg, session, chain, posted, tries, reading>>

\* FetchUploadedFile: the file's status, or nothing when the request fails or does not name it.
FetchUploadedFile == {"", "uploaded", "processed"}

\* mergeUploadFileResults
MergeStatus(status, fetched) == IF fetched = "" THEN status ELSE fetched

\* isReadyUploadFileStatus
IsReady(status) == status = "processed"

\* Mutant: after the last poll the file is taken as it is.
PollAgainEnds(l) == IF l.tries < MaxPolls THEN loop' = l /\ UNCHANGED <<plan, result>> ELSE Proceed /\ loop' = NoLoop

\* The file is asked for again, unless the polls or their time are used up.
PollAgain(l) ==
  \/ l.tries < MaxPolls /\ loop' = l /\ UNCHANGED <<plan, result>>
  \/ Fail /\ loop' = NoLoop

\* waitForUploadedFile
WaitForFile ==
  /\ Doing("wait")
  /\ IF IsReady(file.status) THEN Proceed /\ loop' = NoLoop /\ UNCHANGED file
     ELSE \E fetched \in FetchUploadedFile :
            /\ file' = [file EXCEPT !.status = MergeStatus(@, fetched)]
            /\ IF IsReady(file'.status) THEN Proceed /\ loop' = NoLoop ELSE PollAgain(Tried(loop))
  /\ UNCHANGED <<req, who, leg, upload, session, chain, posted, tries, reading, astray>>
-----------------------------------------------------------------------------
(* Messages. *)

Message(p, settled) ==
  [token |-> who.token, session |-> p.session, file |-> p.file, parent |-> p.parent, from |-> p.from,
   to |-> p.to, leg |-> leg, epoch |-> epoch, settled |-> settled]

Prompt(from, to) ==
  [session |-> session, file |-> file, parent |-> chain.parent, from |-> from, to |-> to]

\* The rest of the prompt goes in one message, after the last segment known to be committed.
FireFailed == plan' = <<"pow", "call">> /\ UNCHANGED chain

\* A 200 answer is an event stream, a notice that the account is muted, or another JSON value.
Answers200 == {"sse", "muted", "json"}

\* detectMutedCompletion
DetectMuted(body) == body = "muted"

\* How a segment's stream goes on after its message id: whether content is seen, how stopping
\* it is answered, and whether the stream is closed, ends, breaks or is silent until the time
\* is up.  A close that arrives while the stop is under way is missed: "silent".
Drains ==
  [content : BOOLEAN, stop : {"ok", "refused"}, end : {"closed", "ended", "broken", "silent"}]

\* Mutant: the time-out after the stop is not looked at.
ConfirmedByTimeout(d) == IF d.content THEN d.stop = "ok" ELSE d.end \in {"ended", "broken"}

\* The segment counts as committed.  A stream that breaks is taken for one read to its end.
Confirmed(d) ==
  IF d.content THEN d.stop = "ok" /\ d.end # "silent" ELSE d.end \in {"ended", "broken"}

\* What the upstream has let know about a message.
Settled(d) == CASE d.end = "broken" -> "broken" [] d.end = "silent" -> "unknown" [] OTHER -> "committed"

\* FireCompletionAndStop, from fireSegmentPayloads.
FireSegment ==
  /\ Doing("fire")
  /\ LET p == Prompt(chain.from, chain.from) IN
     \/ \* Not sent, refused, or an answer without a message id.
        /\ sent' = Append(sent, Message(p, "unknown"))
        /\ FireFailed /\ UNCHANGED <<result, muted>>
     \/ \E body \in Answers200, d \in Drains :
          /\ who.token # 0
          /\ IF DetectMuted(body)
             THEN Fail /\ muted' = muted \cup {who.token} /\ UNCHANGED <<sent, chain>>
             ELSE /\ body = "sse" /\ sent' = Append(sent, Message(p, Settled(d))) /\ UNCHANGED muted
                  /\ IF Confirmed(d)
                     THEN chain' = [parent |-> Len(sent) + 1, from |-> chain.from + 1] /\ Proceed
                     ELSE FireFailed /\ UNCHANGED result
  /\ UNCHANGED <<req, who, leg, loops, session, file, payload, first, answer, tries, reading, astray>>

Anew(name) ==
  /\ leg' = name /\ epoch' = epoch + 1 /\ plan' = SwitchPlan(req) /\ UNCHANGED result

\* canRetryOnAlternateAccount: a limit is a reason to switch once, an account that is muted or
\* has nothing to say always.
SwitchFor(reason, name) ==
  /\ limited' = (limited \/ (reason = "limited" /\ req.managed))
  /\ IF reason = "limited" /\ limited THEN Fail /\ UNCHANGED <<who, leg, epoch>>
     ELSE \/ \E s \in Switched(who) : who' = s /\ Anew(name)
          \/ Fail /\ who' \in Unswitched(who) /\ UNCHANGED <<leg, epoch>>

\* Mutant: the muted account is given another message.
AfterMuteRetries == plan' = <<"call">> /\ UNCHANGED <<who, leg, epoch, limited, result>>

\* Only a stream's retry looks for another account when this one turns out to be muted.
AfterMute ==
  IF req.stream /\ leg = "retry" THEN SwitchFor("muted", "switch")
  ELSE Fail /\ UNCHANGED <<who, leg, epoch, limited>>

\* collectAttempt reads an answer other than 200 for what it is, a stream as one that is empty.
CollectAttempt(status) == IF req.stream THEN "nothing" ELSE status

\* An answer other than 200.  A stream that has not begun is refused; one whose retry failed
\* ends, or is begun anew when it was a captcha; one begun anew reads it as an empty answer.
AfterStatus(status) ==
  CASE ~req.stream \/ leg \in {"switch", "captcha"} ->
         /\ answer' = CollectAttempt(status)
         /\ plan' = <<"collect">> /\ UNCHANGED <<who, leg, epoch, limited, result>>
    [] req.stream /\ leg = "retry" /\ status = "captcha" ->
         SwitchFor("limited", "captcha") /\ UNCHANGED answer
    [] OTHER -> Fail /\ UNCHANGED <<who, leg, epoch, limited, answer>>

\* Mutant: every branch goes back to the first payload.
KeptFirst(p) == IF leg \in {"captcha", "switch"} THEN first ELSE p

\* What a later retry repeats: the stream's captcha branch goes back to the first payload.
Kept(p) == IF leg = "captcha" THEN first ELSE p
Rewinds == leg = "captcha"

Called(p) == payload' = Kept(p) /\ first' = IF leg = "start" THEN p ELSE first

CallCompletion ==
  /\ Doing("call")
  /\ LET p == IF leg = "retry" THEN payload ELSE Prompt(chain.from, req.segs) IN
     \/ /\ Fail /\ UNCHANGED <<posted, who, leg, epoch, limited, cont>> \* request error, blocked
     \/ \E status \in {"limited", "captcha", "error"} :
          /\ sent' = Append(sent, Message(p, "committed")) /\ Called(p)
          /\ AfterStatus(status) /\ UNCHANGED <<muted, cont>>
     \/ \E body \in Answers200 :
          /\ who.token # 0
          /\ IF DetectMuted(body)
             THEN /\ muted' = muted \cup {who.token} /\ AfterMute
                  /\ sent' = Append(sent, Message(p, "unknown")) /\ UNCHANGED <<payload, first, answer, cont>>
             ELSE /\ sent' = Append(sent, Message(p, "committed")) /\ Called(p)
                  /\ answer' = (IF body = "sse" THEN "stream" ELSE "nothing")
                  /\ cont' = NoCont /\ plan' = <<IF body = "sse" THEN "read" ELSE "collect">>
                  /\ UNCHANGED <<who, leg, epoch, limited, result, muted>>
  /\ astray' = (epoch' = epoch /\ (astray \/ Rewinds))
  /\ UNCHANGED <<req, loops, made, seen, attempts, removed>>
-----------------------------------------------------------------------------
(* The answer. *)

\* A line of an answer: does it name the message, its patches of the status and of the
\* auto_continue flag (one, or a batch), and the response object it holds.
NoObject == [id |-> FALSE, status |-> "", auto |-> FALSE]
Patch(field, value) == [id |-> FALSE, patches |-> <<[p |-> field, v |-> value]>>, object |-> NoObject]

Lines ==
  {[id |-> TRUE, patches |-> <<>>, object |-> NoObject],
   Patch("status", "FINISHED"), Patch("status", "INCOMPLETE"), Patch("auto_continue", "true"),
   Patch("auto_continue", "false"),
   [id |-> FALSE, object |-> NoObject,
    patches |-> <<[p |-> "auto_continue", v |-> "true"], [p |-> "status", v |-> "WIP"]>>]}
  \cup {[id |-> FALSE, patches |-> <<>>, object |-> o] :
          o \in [id : {TRUE}, status : {"WIP", "FINISHED"}, auto : BOOLEAN]}

\* The lines of a body that matter here.
Bodies == UNION {[1..n -> Lines] : n \in 0..MaxLines}

\* Mutant: the end of the answer is not remembered.
SetStatusOnly(c, status) == IF status = "" THEN c ELSE [c EXCEPT !.last = status]

\* continueState.setStatus
SetStatus(c, status) ==
  IF status = "" THEN c
  ELSE [c EXCEPT !.last = status, !.finished = @ \/ status \in {"FINISHED", "CONTENT_FILTER"}]

AutoContinue(c, auto) == IF auto THEN [c EXCEPT !.last = "AUTO_CONTINUE"] ELSE c

\* observeDirectPatch, and each patch of observeBatchPatches
ObservePatch(c, patch) ==
  CASE patch.p = "status" -> SetStatus(c, patch.v)
    [] patch.p = "auto_continue" -> AutoContinue(c, patch.v = "true")

\* observeBatchPatches
ObservePatches(c, patches) ==
  LET observed[i \in 0..Len(patches)] == IF i = 0 THEN c ELSE ObservePatch(observed[i - 1], patches[i])
  IN  observed[Len(patches)]

\* observeResponseObject
ObserveObject(c, o) == AutoContinue(SetStatus([c EXCEPT !.id = @ \/ o.id], o.status), o.auto)

\* continueState.observe
Observe(c, line) == ObserveObject(ObservePatches([c EXCEPT !.id = @ \/ line.id], line.patches), line.object)

\* The body is read line by line.
ObserveBody(c, body) ==
  LET observed[i \in 0..Len(body)] == IF i = 0 THEN c ELSE Observe(observed[i - 1], body[i])
  IN  observed[Len(body)]

\* continueState.shouldContinue
ShouldContinue(c) == ~c.finished /\ c.id /\ c.last \in {"INCOMPLETE", "AUTO_CONTINUE"}

\* continueState.prepareForNextRound
PrepareForNextRound(c) == [c EXCEPT !.last = "", !.finished = FALSE]

\* callContinue: the next body, or none.
CallContinue(c) == cont' = [PrepareForNextRound(c) EXCEPT !.rounds = @ + 1] /\ UNCHANGED plan

EndAnswer(c) == cont' = [NoCont EXCEPT !.id = c.id] /\ plan' = <<"collect">>

\* What a body says of itself when it is read as a whole: finished once and for all,
\* unfinished in the end, or neither.
OfPatches(patches) ==
  [i \in DOMAIN patches |-> IF patches[i].v = "true" THEN "INCOMPLETE" ELSE patches[i].v]
OfLine(l) == OfPatches(l.patches) \o <<l.object.status, IF l.object.auto THEN "INCOMPLETE" ELSE "">>
Telling == {"WIP", "FINISHED", "INCOMPLETE"}
Told(body) == Among(Joined([i \in DOMAIN body |-> OfLine(body[i])]), Telling)
Verdict(told) ==
  CASE "FINISHED" \in Range(told) -> "finished"
    [] told # <<>> /\ Last(told) = "INCOMPLETE" -> "unfinished"
    [] OTHER -> ""
Said == [body \in Bodies |-> Verdict(Told(body))]

\* streamBodyWithContinueState and pumpAutoContinue: a body ends, or breaks; if the upstream
\* has called the answer unfinished another one is asked for.
ReadBody ==
  /\ Doing("read")
  /\ \E body \in Bodies :
       LET c == [ObserveBody(cont, body) EXCEPT !.said = Said[body]] IN
       \/ ShouldContinue(c) /\ c.rounds < MaxRounds /\ CallContinue(c)
       \/ EndAnswer(c)
  /\ seen' = IF cont'.id THEN Len(sent) ELSE seen
  /\ UNCHANGED <<req, who, leg, loops, made, posted, tries, result, removed, astray>>

\* Mutant: one retry too many.
RetryLeftOver == attempts <= RetryMax

RetryLeft == attempts < RetryMax

\* retryParentMessageID.  A stream's runtime knows the last id it has ever seen.
Parent ==
  LET observed == IF req.stream THEN seen ELSE IF cont.id THEN Len(sent) ELSE 0
  IN  IF observed > 0 THEN observed ELSE payload.parent

\* A stream's runtime may know no id of this beginning, but one of the session before.
OlderParent == plan' = RetryPlan /\ payload'.parent # 0 /\ sent[payload'.parent].epoch # epoch

\* The answer is empty: ask again on the same account, then on another one, then give up.
Empty(reason) ==
  IF RetryLeft
  THEN /\ attempts' = attempts + 1
       /\ leg' = "retry" /\ plan' = RetryPlan /\ payload' = [payload EXCEPT !.parent = Parent]
       /\ UNCHANGED <<who, epoch, limited, result>>
  ELSE SwitchFor(reason, "switch") /\ UNCHANGED <<attempts, payload>>

Collect ==
  /\ Doing("collect")
  /\ CASE answer = "error" -> Fail /\ UNCHANGED <<who, leg, epoch, limited, attempts, payload>>
       [] answer \in {"limited", "captcha"} -> SwitchFor("limited", "switch") /\ UNCHANGED <<attempts, payload>>
       [] answer = "nothing" -> Empty("unavailable")
       [] OTHER ->
            \/ /\ result' = "answered" /\ plan' = <<>>    \* content, calls, or an answer filtered away
               /\ UNCHANGED <<who, leg, epoch, limited, attempts, payload>>
            \/ Empty("limited")                           \* thinking without an answer
            \/ Empty("unavailable")
  /\ astray' = (epoch' = epoch /\ (astray \/ OlderParent))
  /\ UNCHANGED <<req, loops, made, sent, first, answer, muted, reading>>

\* Mutant: the handler is not told of the session of a switch.
FirstSession == IF sent # <<>> THEN sent[1].session.n ELSE session.n

\* The session the handler knows of: the one of the last call that was answered, or of the start.
KnownSession ==
  LET calls == SelectSeq(sent, LAMBDA m : m.settled = "committed" /\ m.to = req.segs /\ m.leg # "retry")
  IN  IF calls # <<>> THEN Last(calls).session.n ELSE IF leg = "start" THEN session.n ELSE 0

\* One session, whose name must be known (DeleteSessionForToken), all of the account, or none,
\* which the other surfaces do always.
Modes == {"none", "single", "all"}
Deletion(mode) ==
  [mode |-> IF who.token = 0 THEN "none" ELSE mode, session |-> IF mode = "single" THEN KnownSession ELSE 0]

\* autoDeleteRemoteSession, deferred by Chat Completions: its mode is read from the settings when
\* the request is over, and a deletion that fails is not repeated.
AutoDelete ==
  /\ result # "" /\ removed = NotRemoved
  /\ \E mode \in Modes : removed' = Deletion(mode)
  /\ UNCHANGED <<req, who, plan, leg, loops, made, posted, tries, cont, seen, result, astray>>

Next ==
  \/ CreateSession \/ GetPow \/ UploadFile \/ WaitForFile \/ FireSegment \/ CallCompletion
  \/ ReadBody \/ Collect \/ AutoDelete
  \/ removed # NotRemoved /\ UNCHANGED vars

\* Every HTTP call ends, by its timeout if nothing else.
Spec == Init /\ [][Next]_vars /\ WF_vars(Next)
-----------------------------------------------------------------------------
Owners == 1..(Others + 1)

\* The type invariant; nobody but a pool account's request goes by another name.
CompletionTypeOK ==
  /\ req \in Requests
  /\ who.named \in Owners /\ who.token \in Owners \cup {0} /\ who.left + who.named <= Others + 1
  /\ who.named > 1 => req.managed
  /\ Range(plan) \subseteq {"upload", "wait", "create", "pow", "fire", "call", "read", "collect"}
  /\ (plan = <<>>) = (result # "")
  /\ loop.tries \in 0..((IF plan # <<>> /\ Head(plan) = "wait" THEN MaxPolls ELSE MaxAttempts) - 1)
  /\ upload.tries \in 0..(MaxAttempts - 1)
  /\ attempts \in Nat /\ epoch \in 0..Others
  /\ chain.from \in 1..req.segs

\* The chain of parents the upstream is given adds up to the prompt: every message that opens a
\* conversation or continues one begins where its parent left off, a message of the same session
\* that is known to be committed, and the call's message ends where the prompt ends.  Of a message
\* whose stream broke this is not known, but its drain goroutine ends as if it had been read to the
\* end, against client_stop_stream.go:237-240: such a parent is excepted.
ChainWhole ==
  \A i \in 1..Len(sent) :
    LET m == sent[i] IN
    m.leg # "retry" =>
      /\ IF m.parent = 0 THEN m.from = 1
         ELSE LET p == sent[m.parent]
              IN  p.settled # "unknown" /\ p.to + 1 = m.from /\ p.session = m.session /\ p.leg # "retry"
      /\ m.to \in {m.from, req.segs}

\* A completion that is begun anew on another account uses nothing made before: its session is
\* new and its context file was uploaded again (docs/prompt-compatibility.md, fresh retry).
SwitchedFresh ==
  \A i \in 1..Len(sent) :
    LET m == sent[i] IN
    m.leg # "retry" =>
      /\ m.session.epoch = m.epoch
      /\ m.parent # 0 => sent[m.parent].epoch = m.epoch
      /\ req.file => m.file.epoch = m.epoch

\* The context file a message refers to was processed before the message was posted.
FilesReady == \A i \in 1..Len(sent) : sent[i].file # NoFile => IsReady(sent[i].file.status)

\* An account that was found muted is given no further message of the request.
MutedRests ==
  [][Len(sent') > Len(sent) => Last(sent').token \notin muted]_vars

\* The answer is continued only when the body that has just ended called it unfinished, and
\* nowhere finished.
ContinuesUnfinished == [][cont'.rounds > cont.rounds => cont'.said = "unfinished"]_vars

\* However the accounts are switched, a request asks for an answer a bounded number of times.
CallsBounded ==
  Cardinality({i \in 1..Len(sent) : sent[i].to = req.segs}) <= 1 + RetryMax + Others

\* When single sessions are removed, that of an answered request is the one that gave the answer,
\* and the token is its account's.
CleanedUp ==
  result = "answered" /\ removed.mode = "single" /\ ~astray =>
    removed.session = session.n /\ who.token = session.of

\* Every request ends, and cleans up the session behind it.
RequestEnds == <>(result # "" /\ removed # NotRemoved /\ CleanedUp)

\* However the calls of a request fail, it posts a bounded number of messages.
InBounds == CompletionTypeOK /\ CallsBounded

\* What a message refers to is whole and made for it: its parents add up to the prompt, its session
\* and its file are of this beginning, and the file is ready.  The first two are about the messages
\* that put the prompt; whom a retry answers is PostedByOwner's matter.
MessagesWhole == ChainWhole /\ SwitchedFresh /\ FilesReady

\* A message, of a retry too, is posted with the token of the account that made its session and its
\* file, and its parent is a message of this session.  Excepted is what the code leaves on another
\* account (astray): GetPow, UploadFile or CreateSession switches it after the session or the file
\* was made, a retry after a captcha goes back to the first session, or names an id of it.
PostedByOwner ==
  [][Len(sent') > Len(sent) /\ ~astray /\ who.token # 0 =>
       LET m == Last(sent') IN
       /\ m.session.of = m.token
       /\ m.file # NoFile => m.file.of = m.token
       /\ m.parent # 0 => sent[m.parent].session = m.session]_vars
=============================================================================
