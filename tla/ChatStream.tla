------------------------------ MODULE ChatStream ------------------------------
(***************************************************************************)
(* internal/httpapi/openai/chat/chat_stream_runtime.go: an answer as the   *)
(* chunks of chat completions.  After a tool call the rest of the text is  *)
(* not passed on.  Deltas that follow each other are joined before they    *)
(* are sent; here each is one of its own.                                  *)
(***************************************************************************)
EXTENDS AnswerTurn

ChatNew == [acc |-> NoText, sieve |-> NewSieve, calls |-> FALSE, upstream |-> FALSE, error |-> NoError, sent |-> <<>>]

ChatSend(s, ev) == [s EXCEPT !.sent = Append(@, ev)]
ReasoningDelta(x) == [e |-> "reasoning", x |-> x]
ContentDelta(x) == [e |-> "content", x |-> x]
CallsDelta(cs) == [e |-> "calls", x |-> cs]

\* Mutant: calls are sent and not remembered.
ChatCallsUnmarked(s, cs) == ChatSend(s, CallsDelta(cs))
ChatCalls(s, cs) == [ChatSend(s, CallsDelta(cs)) EXCEPT !.calls = TRUE]

\* One event of the sieve.
ChatEvent(s, ev, o) ==
  LET x == CleanVisibleOutput(ev.text, o)
  IN  CASE ev.calls # <<>> -> ChatCalls(s, ev.calls)
        [] ev.calls = <<>> /\ (s.calls \/ x = <<>> \/ (o.search /\ IsCitation(x))) -> s
        [] OTHER -> ChatSend(s, ContentDelta(x))

ChatEvents(s, sv, o) == FoldAlong(LAMBDA u, ev : ChatEvent(u, ev, o), [s EXCEPT !.sieve = sv.state], sv.events)

\* A part whose text, `d', has been added to what there is.
ChatAdded(t, p, d, o) ==
  CASE p.type = "thinking" -> IF d.vis = <<>> THEN t ELSE ChatSend(t, ReasoningDelta(d.vis))
    [] p.type # "thinking" /\ (d.raw = <<>> \/ d.cite) -> t
    [] OTHER -> ChatEvents(t, ProcessChunk(t.sieve, d.raw), o)
ChatPart(s, p, o) == Using(ApplyPart(s.acc, p, o), LAMBDA d : ChatAdded([s EXCEPT !.acc = d.acc], p, d, o))

ChatParsed(s, r, o) ==
  FoldAlong(LAMBDA t, p : ChatPart(t, p, o), [s EXCEPT !.acc = ApplyDetection(@, r)], r.parts)

\* What stops the stream: a filter counts only while nothing has been answered.
ChatStop(s, bad) == [s EXCEPT !.upstream = @ \/ bad = "error"]
ChatFiltered(s, bad) == bad = "filter" /\ Blank(s.acc.text)

ChatFailed(s, err) == ChatSend([s EXCEPT !.error = err], [e |-> "error", status |-> err.status, code |-> err.code])

ChatLast(c, result, defer) ==
  CASE result.error # NoError /\ defer -> [c EXCEPT !.error = result.error]
    [] result.error # NoError /\ ~defer -> ChatFailed(c, result.error)
    [] OTHER -> ChatSend([c EXCEPT !.error = NoError], [e |-> "finish", reason |-> result.finish])

\* Calls that only the whole text tells are sent instead of what the sieve holds.
ChatFlushed(s, turn, o) ==
  IF turn.calls # <<>> /\ ~s.calls THEN ChatCalls(s, turn.calls) ELSE ChatEvents(s, FlushSieve(s.sieve), o)
ChatFinalize(s, filter, defer, o) ==
  Using(BuildTurn(s.acc, filter, s.upstream, s.calls, <<>>, o), LAMBDA turn :
    Using(ChatFlushed(s, turn, o), LAMBDA c : ChatLast(c, FinalizeTurn(turn, c.calls), defer)))
=============================================================================
