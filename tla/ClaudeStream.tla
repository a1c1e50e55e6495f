----------------------------- MODULE ClaudeStream -----------------------------
(***************************************************************************)
(* internal/httpapi/claude/stream_runtime_*.go: an answer as the events of *)
(* the Claude API.  Text, reasoning and each tool call is a content block  *)
(* of its own, started, filled and stopped, and numbered in order.         *)
(*                                                                         *)
(* A runtime is a record, its operations give the next one; `sent' are the *)
(* events the client has been sent.                                        *)
(***************************************************************************)
EXTENDS AnswerTurn

ClaudeNew ==
  [acc |-> NoText, sieve |-> NewSieve, calls |-> FALSE, next |-> 0, thinkingAt |-> -1, textAt |-> -1,
   textEmitted |-> FALSE, ended |-> FALSE, upstream |-> FALSE, error |-> NoError,
   sent |-> <<[e |-> "message_start"]>>]

Emit(s, ev) == [s EXCEPT !.sent = Append(@, ev)]
BlockStart(i, kind) == [e |-> "start", i |-> i, kind |-> kind]
BlockDelta(i, kind, x) == [e |-> "delta", i |-> i, kind |-> kind, x |-> x]
BlockStop(i) == [e |-> "stop", i |-> i]
ClaudeError(s, err) == Emit(s, [e |-> "error", status |-> err.status, code |-> err.code])

CloseThinkingBlock(s) ==
  IF s.thinkingAt < 0 THEN s ELSE [Emit(s, BlockStop(s.thinkingAt)) EXCEPT !.thinkingAt = -1]
\* Mutant: a text block that is stopped stays the open one.
CloseTextBlockOnly(s) == IF s.textAt < 0 THEN s ELSE Emit(s, BlockStop(s.textAt))
CloseTextBlock(s) ==
  IF s.textAt < 0 THEN s ELSE [Emit(s, BlockStop(s.textAt)) EXCEPT !.textAt = -1]

\* A delta of the open block of its kind; a block is started if none is open.
ThinkingDelta(s, x) ==
  LET t == IF s.thinkingAt >= 0 THEN s
           ELSE [Emit(s, BlockStart(s.next, "thinking")) EXCEPT !.thinkingAt = s.next, !.next = @ + 1]
  IN  Emit(t, BlockDelta(t.thinkingAt, "thinking", x))
TextDelta(s, x) ==
  LET t == IF s.textAt >= 0 THEN s
           ELSE [Emit(s, BlockStart(s.next, "text")) EXCEPT !.textAt = s.next, !.next = @ + 1]
  IN  [Emit(t, BlockDelta(t.textAt, "text", x)) EXCEPT !.textEmitted = TRUE]

ToolUseBlock(s, call) ==
  [s EXCEPT !.next = @ + 1,
            !.sent = @ \o <<BlockStart(s.next, "tool_use"), BlockDelta(s.next, "tool_use", <<call>>), BlockStop(s.next)>>]
ToolUseBlocks(s, calls) == FoldAlong(ToolUseBlock, s, calls)

\* One event of the sieve.  Reasoning is closed before text while the answer runs
\* (`live'), not when the sieve is flushed.
SieveEvent(s, ev, live, o) ==
  LET x == StripReferenceMarkers(ev.text, o)
  IN  CASE ev.calls # <<>> -> ToolUseBlocks([CloseTextBlock(s) EXCEPT !.calls = TRUE], ev.calls)
        [] ev.calls = <<>> /\ (x = <<>> \/ (o.search /\ IsCitation(x))) -> s
        [] OTHER -> TextDelta(IF live THEN CloseThinkingBlock(s) ELSE s, x)

ClaudeThinkingPart(s, raw, cleaned, o) ==
  LET vis == TrimContinuationOverlap(s.acc.thinking, cleaned)
      t   == [s EXCEPT !.acc.rawThinking = @ \o raw]
  IN  IF cleaned = <<>> \/ ~o.thinking \/ vis = <<>> THEN t
      ELSE ThinkingDelta(CloseTextBlock([t EXCEPT !.acc.thinking = @ \o vis]), vis)

\* What the sieve makes of the text, while the answer runs (`live') or at its end.
ClaudeEvents(s, sv, live, o) == FoldAlong(LAMBDA v, ev : SieveEvent(v, ev, live, o), [s EXCEPT !.sieve = sv.state], sv.events)

ClaudeTextPart(s, raw, cleaned, o) ==
  LET t  == [s EXCEPT !.acc.rawText = @ \o raw]
      u  == [t EXCEPT !.acc.text = @ \o cleaned]
  IN  CASE cleaned = <<>> \/ (o.search /\ IsCitation(cleaned)) -> t
        [] cleaned # <<>> /\ ~o.tools -> TextDelta(CloseThinkingBlock(u), cleaned)
        [] OTHER -> ClaudeEvents(u, ProcessChunk(s.sieve, raw), TRUE, o)

ClaudePart(s, p, o) ==
  Using(TrimContinuationOverlap(IF p.type = "thinking" THEN s.acc.rawThinking ELSE s.acc.rawText, p.text), LAMBDA raw :
    CASE raw = <<>> -> s
      [] raw # <<>> /\ p.type = "thinking" -> ClaudeThinkingPart(s, raw, StripReferenceMarkers(raw, o), o)
      [] OTHER -> ClaudeTextPart(s, raw, StripReferenceMarkers(raw, o), o))

\* onParsed for a result that does not stop the stream.
ClaudeParsed(s, r, o) ==
  FoldAlong(LAMBDA t, p : ClaudePart(t, p, o), [s EXCEPT !.acc = ApplyDetection(@, r)], r.parts)

\* Both ends of an attempt that write an error whatever has been sent: the upstream
\* reported one, or its stream broke.  No block is closed.
ClaudeBroken(s) == ClaudeError(s, OutputError(500, "internal_error"))

\* What the end adds that was not streamed: calls that only the whole text tells, or an
\* answer of which nothing was.
ClaudeLate(d, turn, o) ==
  CASE ~o.tools \/ d.calls -> d
    [] o.tools /\ ~d.calls /\ turn.calls # <<>> -> ToolUseBlocks(d, turn.calls)
    [] OTHER -> IF turn.text = <<>> \/ d.textEmitted THEN d ELSE CloseTextBlock(TextDelta(d, turn.text))

\* finalize, with the open text block closed (c): `defer' asks to leave a failure to the
\* next attempt.
ClaudeLast(c, turn, result, defer, o) ==
  LET d == CloseThinkingBlock([c EXCEPT !.ended = TRUE])
      reason == IF result.hasCalls THEN "tool_use" ELSE "end_turn"
  IN  CASE result.error # NoError /\ defer -> [c EXCEPT !.error = result.error]
        [] result.error # NoError /\ ~defer -> ClaudeError(d, result.error)
        [] OTHER -> Emit(Emit(ClaudeLate(d, turn, o), [e |-> "message_delta", reason |-> reason]), [e |-> "message_stop"])
ClaudeFinalize(s, defer, o) ==
  IF s.ended THEN s
  ELSE Using(CloseTextBlock(IF o.tools THEN ClaudeEvents(s, FlushSieve(s.sieve), FALSE, o) ELSE s), LAMBDA c :
         Using(BuildTurn(c.acc, FALSE, FALSE, c.calls, <<>>, o), LAMBDA turn :
           ClaudeLast(c, turn, FinalizeTurn(turn, c.calls), defer, o)))
=============================================================================
