------------------------------ MODULE VercelStream ------------------------------
(***************************************************************************)
(* internal/js/chat-stream/vercel_stream_impl.js: the chat completions     *)
(* that the Node function streams on Vercel, with a lease from the Go      *)
(* server.  It has the runtime of ChatStream and its retries in one        *)
(* function, and differs from it where the code does: the answer is kept   *)
(* as it comes, reasoning is not searched for calls, a required call is    *)
(* not asked for, and only markers of sources are cleaned out of the text, *)
(* by the parser already.                                                  *)
(***************************************************************************)
EXTENDS AnswerTurn, NodeSieve

\* `output' and `thinking' are outputText and thinkingText, `calls' is toolCallsEmitted
\* (toolCallsDoneEmitted goes with it), `error' is lastEmptyDetail and `stale' what the
\* loop read of it before the attempt (isUpstreamUnavailable).
VercelNew == [output |-> <<>>, thinking |-> <<>>, sieve |-> NewNodeSieve, calls |-> FALSE,
              error |-> NoError, stale |-> FALSE, sent |-> <<>>]

\* detectMutedOrBannedResponse: what the first answer of the upstream is: a stream, one of
\* the two notices about the account, or another JSON body.
FirstBodies == {"sse", "banned", "muted", "json"}
AccountNotice(body) == body \in {"banned", "muted"}

\* trimContinuationOverlap in dedupe.js: unlike the one in Go it drops a snapshot that
\* repeats the whole text.
NodeTrimOverlap(old, new) ==
  CASE Len(new) < MinSnapshot \/ old = <<>> -> new
    [] Len(new) >= MinSnapshot /\ old # <<>> /\ IsPrefix(old, new) -> SubSeq(new, Len(old) + 1, Len(new))
    [] Len(new) >= MinSnapshot /\ IsPrefix(new, old) -> <<>>
    [] OTHER -> new

VercelSend(s, ev) == [s EXCEPT !.sent = Append(@, ev)]

\* An event of the sieve; the text after a call is not passed on.
VercelEvent(s, ev) ==
  CASE ev.calls # <<>> -> [VercelSend(s, [e |-> "calls", x |-> ev.calls]) EXCEPT !.calls = TRUE]
    [] ev.calls = <<>> /\ s.calls -> s
    [] OTHER -> VercelSend(s, [e |-> "content", x |-> ev.text])
VercelEvents(s, sv) == FoldAlong(VercelEvent, [s EXCEPT !.sieve = sv.state], sv.events)

\* The body of the loop over parsed.parts.
VercelPart(s, p, o) ==
  Using(NodeTrimOverlap(IF p.type = "thinking" THEN s.thinking ELSE s.output, Without(p.text, Markers)), LAMBDA x :
    CASE p.type = "thinking" ->
           IF ~o.thinking \/ x = <<>> THEN s
           ELSE VercelSend([s EXCEPT !.thinking = @ \o x], [e |-> "reasoning", x |-> x])
      [] p.type # "thinking" /\ (x = <<>> \/ (o.search /\ IsCitation(x))) -> s
      [] OTHER -> VercelEvents([s EXCEPT !.output = @ \o x], NodeChunk(s.sieve, x)))

VercelParsed(s, r, o) == FoldAlong(LAMBDA t, p : VercelPart(t, p, o), s, r.parts)

\* upstreamEmptyOutputDetail
VercelEmptyDetail(filter, thinking) ==
  CASE filter -> OutputError(400, "content_filter")
    [] ~filter /\ thinking # <<>> -> OutputError(429, "upstream_empty_output")
    [] OTHER -> OutputError(503, "upstream_unavailable")

\* finish: `filter' says that the reason is the content filter, `defer' that an empty
\* answer is not told yet.
VercelReason(has, filter) == IF has THEN "tool_calls" ELSE IF filter THEN "content_filter" ELSE "stop"
VercelLast(c, has, filter, defer, err) ==
  CASE ~has /\ Blank(c.output) /\ defer /\ ~filter -> [c EXCEPT !.error = err]
    [] ~has /\ Blank(c.output) /\ (~defer \/ filter) ->
         VercelSend(c, [e |-> "error", status |-> err.status, code |-> err.code])
    [] OTHER -> VercelSend(c, [e |-> "finish", reason |-> VercelReason(has, filter)])
VercelFlushed(s, found) ==
  IF found # <<>> /\ ~s.calls THEN [VercelSend(s, [e |-> "calls", x |-> found]) EXCEPT !.calls = TRUE]
  ELSE VercelEvents(s, NodeFlush(s.sieve))
VercelFinish(s, filter, defer) ==
  Using(NodeParse(s.output), LAMBDA found : Using(VercelFlushed(s, found), LAMBDA c :
    VercelLast(c, found # <<>> \/ c.calls, filter, defer, VercelEmptyDetail(filter, s.thinking))))

\* How the end of an attempt is finished: a line with an error counts as filtered; a
\* stream that breaks off, or whose continuation fails, is not asked for again.
VercelEnd(s, bad, defer) ==
  LET filter == bad = "error" \/ (bad = "filter" /\ Blank(s.output))
  IN  VercelFinish(s, filter, defer /\ bad = "")

\* An attempt may be deferred while there is another try; `limited': the account has been
\* switched after a rate limit.
VercelDefers(s, triesLeft, limited) == triesLeft \/ ~limited \/ s.stale

\* The head of the loop, before the next attempt.
VercelAgain(s) == [s EXCEPT !.stale = s.error.code = "upstream_unavailable"]

\* Another account forgets what the old one said; the sieve stays.
VercelSwitched(s) ==
  [s EXCEPT !.output = <<>>, !.thinking = <<>>, !.error = IF s.stale THEN NoError ELSE @]
=============================================================================
