----------------------------- MODULE AnswerStream -----------------------------
(***************************************************************************)
(* An answer from the first line of the upstream to the last event of the  *)
(* client, streamed or whole, on the four surfaces and on Vercel: the attempts *)
(* that completionruntime/stream_retry.go drives through its hooks (the    *)
(* Node function drives its own), the runtime of the surface, and the      *)
(* entry of the request in the chat history, which the administrator may   *)
(* delete or switch off meanwhile.                                         *)
(***************************************************************************)
EXTENDS ChatStream, ResponsesStream, ClaudeStream, SurfaceHandlers, VercelStream, HistorySession, TLC

CONSTANTS
  Asked,      \* records: the `surface', of "chat", "responses", "claude", "gemini", "vercel"; what
              \* is asked for, `opts' (see AnswerTurn); on a pool account, `managed'; the history: `on', and is it `meddled' with?
  Results,    \* what the stream may bring: records of `parts' and `detect'
  MaxResults, \* how many results the attempts of a request may bring altogether
  MaxRetries, \* the synthetic retries after an empty answer
  MaxSwitches \* the other accounts there are to switch to

Surfaces == {"chat", "responses", "claude", "gemini", "vercel"}
Options == [stream : BOOLEAN, thinking : BOOLEAN, search : BOOLEAN, tools : BOOLEAN, required : BOOLEAN]
Parts == [type : {"text", "thinking"}, text : Seq(STRING)]

ASSUME AnswerAssumption ==
  /\ Asked \subseteq [surface : Surfaces, opts : Options, managed : BOOLEAN, on : BOOLEAN, meddled : BOOLEAN]
  /\ Results \subseteq [parts : Seq(Parts), detect : Seq(Parts)]
  /\ MaxResults \in Nat /\ MaxRetries \in Nat /\ MaxSwitches \in Nat

VARIABLES
  surface, opts,
  step,       \* how many of its steps the handler has taken
  phase,      \* "preparing", "start", "streaming", "deferred", "ended"
  how,        \* how the request ended: "", "terminal", "retry_failed", "cancelled", "refused", "rejected", "discarded", "thrown"
  rt,         \* the runtime of the surface
  managed,    \* does the request run on a pool account, not on the caller's own token?
  attempts,   \* the synthetic retries so far
  switches,   \* how often the account has been switched
  limited,    \* has it been switched once after a 429? (accountSwitchAttempted)
  results,    \* how many results have come
  shown,      \* had the client been shown an answer when an attempt was begun anew?
  history     \* the entry of the request in the chat history

answerVars == <<surface, opts, step, phase, how, rt, managed, attempts, switches, limited, results, shown, history>>
request == <<surface, opts, managed, step>>
tries == <<attempts, switches, limited>>
-----------------------------------------------------------------------------
(* One request. *)

NewRuntime(sf, o) ==
  IF ~o.stream THEN WholeNew
  ELSE CASE sf = "chat" -> ChatNew [] sf = "responses" -> ResponsesNew
         [] sf = "claude" -> ClaudeNew [] sf = "gemini" -> GeminiNew [] sf = "vercel" -> VercelNew

\* OpenAI's surfaces look for calls whether the client has tools or not; the others, and
\* the Node function, do not ask whether a call was required.
Effective(sf, o) ==
  [o EXCEPT !.tools = @ \/ sf \in {"chat", "responses", "vercel"}, !.required = @ /\ sf \in {"chat", "responses"}]

AnswerInit ==
  /\ \E r \in Asked :
       /\ surface = r.surface /\ opts = Effective(r.surface, r.opts) /\ managed = r.managed
       /\ surface = "vercel" => opts.stream
       /\ history = [NoSession EXCEPT !.on = r.on /\ r.surface # "vercel"]
  /\ step = 0 /\ phase = IF Steps(surface) = <<>> THEN "start" ELSE "preparing"
  /\ how = "" /\ attempts = 0 /\ switches = 0 /\ limited = FALSE /\ results = 0 /\ shown = FALSE
  /\ rt = NewRuntime(surface, opts)

\* The handler prepares the request.  Its entry in the history is made last.
Prepare ==
  /\ phase = "preparing" /\ step' = step + 1
  /\ IF step' = Len(Steps(surface)) THEN phase' = "start" /\ history' = HistoryStart(history)
     ELSE UNCHANGED <<phase, history>>
  /\ UNCHANGED <<surface, opts, managed, how, rt, tries, results, shown>>

\* A JSON error instead of an answer.
Answer(err) == rt' = [rt EXCEPT !.sent = <<[e |-> "error", status |-> err.status, code |-> err.code]>>]
RefuseRequest ==
  /\ phase = "preparing" /\ phase' = "ended" /\ how' = "refused"
  /\ \E status \in Steps(surface)[step + 1].refusals : Answer(OutputError(status, "refused"))
  /\ UNCHANGED <<request, tries, results, shown, history>>

\* The upstream answered, with a stream or with an error that is passed on as it is.
Begin ==
  /\ phase = "start" /\ phase' = "streaming" /\ surface # "vercel"
  /\ UNCHANGED <<request, how, rt, tries, results, shown, history>>

\* On Vercel the first body is looked at: a notice about the account switches it, once.  A
\* JSON body of another kind has been read to its end, and reading it as a stream throws.
VercelBegin(body) ==
  /\ surface = "vercel" /\ phase = "start"
  /\ AccountNotice(body) => managed /\ switches < MaxSwitches
  /\ phase' = IF body = "json" THEN "ended" ELSE "streaming"
  /\ how' = IF body = "json" THEN "thrown" ELSE how
  /\ switches' = IF AccountNotice(body) THEN switches + 1 ELSE switches
  /\ UNCHANGED <<request, rt, attempts, limited, results, shown, history>>

\* The upstream cannot be asked.  A direct token it does not know may not be a token at all:
\* the request is struck out of the history.
Reject ==
  /\ phase = "start" /\ phase' = "ended"
  /\ \/ how' = "rejected" /\ history' = HistoryError(history)
     \/ ~managed /\ how' = "discarded" /\ history' = HistoryDiscard(history)
  /\ Answer(OutputError(401, "error"))
  /\ UNCHANGED <<request, tries, results, shown>>

Parsed(r) ==
  IF ~opts.stream THEN WholeParsed(rt, r)
  ELSE CASE surface = "chat" -> ChatParsed(rt, r, opts) [] surface = "responses" -> ResponsesParsed(rt, r, opts)
         [] surface = "claude" -> ClaudeParsed(rt, r, opts) [] surface = "gemini" -> GeminiParsed(rt, r, opts)
         [] surface = "vercel" -> VercelParsed(rt, r, opts)

Result(r) ==
  /\ phase = "streaming" /\ results < MaxResults
  /\ results' = results + 1 /\ rt' = Parsed(r)
  /\ history' \in HistoryProgress(history)
  /\ UNCHANGED <<request, phase, how, tries, shown>>

\* The failure of a try that may be followed by another, on this account or on another
\* one, is not told to the client yet.
Defers ==
  IF surface = "vercel" THEN VercelDefers(rt, attempts < MaxRetries, limited) ELSE attempts < MaxRetries \/ managed

Terminal(ev) == ev.e \in {"error", "finish", "message_stop", "whole"}

\* What an attempt leaves: the runtime, and the status of a terminal it has written.
Left(s, before) ==
  LET told == Len(s.sent) > Len(before.sent) /\ Terminal(Last(s.sent))
  IN  [rt |-> s,
       status |-> CASE ~told -> "none"
                    [] told /\ Last(s.sent).e = "error" -> "error"
                    [] OTHER -> "success"]

Finalized(s, bad, defer) ==
  LET filtered == bad = "filter"
  IN  CASE ~opts.stream -> WholeFinalize(WholeStop(s, bad), surface, defer /\ attempts < MaxRetries, defer /\ managed, opts)
        [] opts.stream /\ surface = "chat" ->
             ChatFinalize(ChatStop(s, bad), ChatFiltered(s, bad), defer /\ ~ChatFiltered(s, bad), opts)
        [] opts.stream /\ surface = "responses" -> ResponsesFinalize(ResponsesStop(s, bad), filtered, defer /\ ~filtered, opts)
        [] opts.stream /\ surface = "gemini" -> GeminiFinalize(GeminiStop(s, bad), defer, opts)
        [] opts.stream /\ surface = "vercel" -> VercelEnd(s, bad, defer)
        [] OTHER -> IF bad \in {"error", "broken"} THEN ClaudeBroken(s) ELSE ClaudeFinalize(s, defer, opts)

\* Mutant: the loop finalizes a stream that has its terminal event already.
ConcludedAgain(l) ==
  /\ rt' = IF l.status = "none" THEN l.rt ELSE ChatFailed(l.rt, NoError)
  /\ phase' = IF l.status = "none" THEN "deferred" ELSE "ended"
  /\ how' = IF l.status = "none" THEN how ELSE "terminal"
  /\ history' = HistoryEnd(history, l.status)

\* What an attempt left: a terminal event, or a failure that is deferred.
Concluded(l) ==
  /\ rt' = l.rt
  /\ phase' = IF l.status = "none" THEN "deferred" ELSE "ended"
  /\ how' = IF l.status = "none" THEN how ELSE "terminal"
  /\ history' = HistoryEnd(history, l.status)

\* The stream of an attempt ends: at its end, with the upstream's closing line, a content
\* filter, an error, or broken off.  If its failure was deferred and there is no other
\* account, the failure is told after all.
Ends ==
  CASE phase = "streaming" -> {[bad |-> bad, defer |-> Defers] : bad \in {"", "filter", "error", "broken"}}
    [] phase = "deferred" /\ attempts = MaxRetries -> {[bad |-> "", defer |-> FALSE]}
    [] OTHER -> {}
EndAttempt ==
  /\ \E e \in Ends : \E l \in {Left(Finalized(rt, e.bad, e.defer), rt)} : Concluded(l)
  /\ UNCHANGED <<request, tries, results, shown>>

\* The client leaves.  Claude's and Gemini's runtimes are not told, nor is who collects a
\* whole answer: for them it is the end of the stream (EndAttempt).
Cancel ==
  /\ phase = "streaming" /\ opts.stream /\ surface \in {"chat", "responses", "vercel"}
  /\ phase' = "ended" /\ how' = "cancelled"
  /\ history' = IF surface = "chat" THEN HistoryStopped(history) ELSE history
  /\ UNCHANGED <<request, rt, tries, results, shown>>

\* What the client has been shown of the answer: its text, and its calls.
VisibleText(s) ==
  FoldAlong(LAMBDA x, ev : x \o (CASE ev.e = "content" -> ev.x
                                 [] ev.e = "delta" /\ ev.kind \in {"text", "message"} -> ev.x
                                 [] ev.e = "chunk" -> FlattenSeq([i \in DOMAIN ev.parts |->
                                      IF ev.parts[i].call \/ ev.parts[i].thought THEN <<>> ELSE ev.parts[i].x])
                                 [] OTHER -> <<>>), <<>>, s.sent)
VisibleCalls(s) ==
  FoldAlong(LAMBDA x, ev : x \o (CASE ev.e = "calls" -> ev.x
                                 [] ev.e = "delta" /\ ev.kind = "tool_use" -> ev.x
                                 [] ev.e = "item_done" /\ ev.kind = "call" -> ev.x
                                 [] ev.e = "chunk" -> FlattenSeq([i \in DOMAIN ev.parts |->
                                      IF ev.parts[i].call THEN ev.parts[i].x ELSE <<>>])
                                 [] OTHER -> <<>>), <<>>, s.sent)
Shown(s) == ~Blank(StripLeakedBlocks(VisibleText(s))) \/ VisibleCalls(s) # <<>>

Restart(n, sw) ==
  /\ phase = "deferred" /\ phase' = "streaming"
  /\ attempts' = attempts + n /\ switches' = switches + sw /\ shown' = (shown \/ Shown(rt))
  /\ rt' = CASE ~opts.stream -> IF sw = 0 THEN WholeAgain(rt) ELSE WholeNew
              [] opts.stream /\ surface # "vercel" -> rt
              [] surface = "vercel" /\ sw = 0 -> VercelAgain(rt)
              [] OTHER -> VercelAgain(VercelSwitched(rt))
  /\ UNCHANGED <<request, how, results, history>>

\* canRetryOnAlternateAccount: after a 429 once, after the other failures that are the
\* account's as long as there is an account.
SwitchesAfter(err) ==
  /\ managed /\ switches < MaxSwitches /\ surface # "vercel"
  /\ \/ err.code \in {"account_muted", "upstream_unavailable"} /\ UNCHANGED limited
     \/ err.code \notin {"account_muted", "upstream_unavailable"} /\ err.status = 429 /\ ~limited /\ limited' = TRUE
Deferred == IF rt.error = NoError THEN OutputError(429, "") ELSE rt.error

\* An empty answer is asked for again, on the same account ...
Retry == attempts < MaxRetries /\ Restart(1, 0) /\ UNCHANGED limited
\* Mutant: a switch of account counts as a retry.
SwitchEarly == attempts = MaxRetries /\ SwitchesAfter(Deferred) /\ Restart(1, 1)
\* ... then on other ones; and on another one at once if the retry tells that this
\* account has to solve a captcha, or is muted, which a whole answer takes for a failure.
SwitchAccount == attempts = MaxRetries /\ SwitchesAfter(Deferred) /\ Restart(0, 1)
\* The Node function goes by the failure of the attempt before: unavailable twice disables
\* the account, anything else switches once.
VercelSwitch ==
  /\ surface = "vercel" /\ managed /\ switches < MaxSwitches /\ attempts = MaxRetries /\ Restart(0, 1)
  /\ IF rt.stale THEN UNCHANGED limited ELSE ~limited /\ limited' = TRUE
\* The response to a whole answer is no stream: a captcha, whatever its status, is taken for
\* a 429, and the answer is begun anew on another account at once.
NoStream == ~opts.stream /\ phase = "streaming" /\ rt.acc = NoText
SwitchAtOnce ==
  /\ NoStream /\ SwitchesAfter(OutputError(429, "captcha_required"))
  /\ switches' = switches + 1 /\ rt' = WholeNew
  /\ UNCHANGED <<request, phase, how, attempts, results, shown, history>>
SwitchInRetry ==
  /\ attempts < MaxRetries /\ Restart(1, 1)
  /\ \E err \in {OutputError(429, "captcha_required")}
                  \union (IF opts.stream THEN {OutputError(403, "account_muted")} ELSE {}) : SwitchesAfter(err)

\* The retry, or the start on another account, fails (OnRetryFailure), or a whole answer is
\* answered with an error: Claude and Gemini do not record it when they stream.
OnRetryFailure(err) ==
  CASE ~opts.stream -> WholeError(rt, err)
    [] opts.stream /\ surface = "chat" -> ChatFailed(rt, err) [] surface = "responses" -> ResponsesFailed(rt, err)
    [] surface = "vercel" -> VercelFinish(IF attempts < MaxRetries THEN rt ELSE VercelSwitched(rt), FALSE, FALSE)
    [] surface = "claude" -> ClaudeError(rt, err) [] surface = "gemini" -> GeminiError(rt, err)
RetryFails ==
  /\ phase' = "ended" /\ how' = "retry_failed"
  /\ NoStream \/ (phase = "deferred" /\ (attempts < MaxRetries \/ (managed /\ switches < MaxSwitches)))
  /\ rt' = OnRetryFailure(OutputError(500, "retry"))
  /\ history' = IF ~opts.stream \/ surface \in {"chat", "responses"} THEN HistoryError(history) ELSE history
  /\ UNCHANGED <<request, tries, results, shown>>

\* A request of the Node function to the server or to the upstream fails: nothing catches
\* the exception, which ends the answer as it is.
VercelThrows ==
  /\ surface = "vercel" /\ phase # "ended" /\ phase' = "ended" /\ how' = "thrown"
  /\ UNCHANGED <<request, rt, tries, results, shown, history>>

\* The administrator deletes the entry, or switches the history off, once.
Interfere ==
  /\ phase \in {"streaming", "deferred"} /\ history.on /\ history.present
  /\ \E r \in Asked : r.meddled /\ r.surface = surface /\ r.managed = managed /\ Effective(surface, r.opts) = opts
  /\ \/ history' = [history EXCEPT !.present = FALSE]
     \/ history' = [history EXCEPT !.on = FALSE]
  /\ UNCHANGED <<request, phase, how, rt, tries, results, shown>>

AnswerNext ==
  \/ Prepare \/ RefuseRequest \/ Begin \/ Reject \/ Cancel \/ Retry \/ SwitchAccount \/ SwitchAtOnce \/ SwitchInRetry \/ VercelSwitch
  \/ EndAttempt \/ RetryFails \/ VercelThrows \/ Interfere
  \/ \E r \in Results : Result(r)
  \/ \E body \in FirstBodies : VercelBegin(body)

AnswerSpec == AnswerInit /\ [][AnswerNext]_answerVars
-----------------------------------------------------------------------------
(* Properties. *)

AnswerTypeOK ==
  /\ surface \in {r.surface : r \in Asked} /\ phase \in {"preparing", "start", "streaming", "deferred", "ended"}
  /\ step \in 0..Len(Steps(surface)) /\ (phase = "preparing" => step < Len(Steps(surface)))
  /\ how \in {"", "terminal", "retry_failed", "cancelled", "refused", "rejected", "discarded", "thrown"} /\ (phase = "ended" <=> how # "")
  /\ attempts \in 0..MaxRetries /\ switches \in 0..MaxSwitches /\ (limited => switches > 0) /\ results \in 0..MaxResults
  /\ history.status \in {"none", "streaming", "success", "error", "stopped"}

\* A streamed answer that ended well.
Finished == phase = "ended" /\ how = "terminal" /\ Last(rt.sent).e \in {"finish", "message_stop"}

\* A client is told exactly once how its answer ended, and nothing after that, however
\* the attempts, their deferred failures and the switch of account follow each other.
OneTerminal ==
  LET ends == {i \in DOMAIN rt.sent : Terminal(rt.sent[i])}
  IN  IF how \notin {"", "cancelled", "thrown"} THEN ends = {Len(rt.sent)} ELSE ends = {}

\* What a stream may take for the whole answer.  Where the search is on, Claude's stream
\* excepted, a piece that begins with the marker of a source is hidden with all that follows
\* in it, prose or markup: such an answer is heard with the piece or without it.
HidesPiece == opts.search /\ surface # "claude" /\ "[cite]" \in ToSet(rt.acc.rawText)
Heard == {rt.acc} \union IF HidesPiece THEN {[rt.acc EXCEPT !.rawText = rt.acc.text]} ELSE {}

\* The calls that have been streamed piece by piece, on any surface, are the calls that a
\* parse of the whole answer finds: none twice, none forgotten.  (An attempt that began
\* anew after text had been shown mixes two answers in one text, see RetryOnlyUnshown.)
CallsAsParsed ==
  Finished /\ opts.tools /\ ~shown =>
    IF surface = "vercel" THEN VisibleCalls(rt) = NodeParse(rt.output)
    ELSE \E acc \in Heard : VisibleCalls(rt) = DetectCalls(acc.rawText, acc.text, acc.rawThinking, acc.detect)

\* The reason a stream gives for its end names tool calls just when it carried some.
FinishTellsCalls ==
  Finished /\ opts.tools /\ surface # "gemini" =>
    LET reasons == {rt.sent[i].reason : i \in {j \in DOMAIN rt.sent : rt.sent[j].e \in {"finish", "message_delta"}}}
    IN  (reasons \intersect {"tool_calls", "tool_use"} # {}) <=> VisibleCalls(rt) # <<>>

\* The sieve holds text back and lets it go again, but an answer without a call reaches
\* the client as it is kept for the history and the usage: nothing is lost or doubled.
TextAsParsed ==
  Finished /\ opts.tools /\ VisibleCalls(rt) = <<>> =>
    VisibleText(rt) = IF surface = "vercel" THEN rt.output ELSE CleanVisibleOutput(rt.acc.text, opts)

\* A call that the client is given is not shown to it as prose as well: what it sees of the
\* text holds no call, wherever the stream was cut.
CallsNotShown == Finished /\ opts.tools /\ ~shown /\ surface # "vercel" => ParseToolCalls(VisibleText(rt)) = <<>>

\* An answer is asked for anew only while the client has seen neither text nor calls,
\* unless a call was required: then it may have seen text.
RetryOnlyUnshown == ~shown \/ opts.required

\* Claude's content blocks: nothing is added to a block that is not open, and the message
\* stops with every block stopped.
OpenBlocks(n) ==
  LET at(e) == {rt.sent[j].i : j \in {k \in 1..n : rt.sent[k].e = e}} IN at("start") \ at("stop")
BlocksInOrder ==
  surface = "claude" =>
    /\ \A n \in DOMAIN rt.sent : rt.sent[n].e \in {"delta", "stop"} => rt.sent[n].i \in OpenBlocks(n - 1)
    /\ Finished => OpenBlocks(Len(rt.sent)) = {}

\* When a request is over its entry tells how, even if it was deleted meanwhile; only a
\* store that is off ends the record.  A request that was refused, or struck out, has no
\* entry.  Left out are the two ends that no hook records: a
\* failed retry on Claude and Gemini, and a client that leaves a Responses stream.
HistoryTold ==
  LET told == CASE how = "cancelled" -> "stopped"
                [] how = "terminal" -> IF Last(rt.sent).e = "error" THEN "error" ELSE "success"
                [] OTHER -> "error"
  IN  /\ history.disabled => ~history.on \/ step < Len(Steps(surface))
      /\ \/ phase # "ended" \/ history.disabled
         \/ how \in {"refused", "discarded"} /\ ~history.present
         \/ how = "retry_failed" /\ opts.stream /\ surface \in {"claude", "gemini"}
         \/ how = "cancelled" /\ surface = "responses"
         \/ history.present /\ history.status = told

\* A client that streams is given what it would have been given in one piece: the same
\* calls, and if there are none the same text, of which a stream hides the markers of sources
\* that a whole answer shows as links.
Unmarked(t) == Without(t, Markers \union {"[link]"})
SameWithoutStream ==
  LET same(whole) == VisibleCalls(rt) = whole.calls /\ (whole.calls = <<>> => VisibleText(rt) = Unmarked(whole.text))
  IN  Finished /\ opts.tools /\ ~shown /\ surface # "vercel" =>
        \E acc \in Heard : same(WholeBody(surface, CollectedTurn(acc, FALSE, FALSE, [opts EXCEPT !.stream = FALSE]), opts))

\* The events of a stream make an answer that a client of that API can follow to its end:
\* one terminal event, which tells of the calls there were, and no open block.
EventsInOrder == AnswerTypeOK /\ OneTerminal /\ BlocksInOrder /\ FinishTellsCalls

\* Every call of the answer is told once, as a call: never as prose, or as prose besides.
CallsTold == CallsAsParsed /\ CallsNotShown
=============================================================================
