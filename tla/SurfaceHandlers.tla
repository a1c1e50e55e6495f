---------------------------- MODULE SurfaceHandlers ----------------------------
(***************************************************************************)
(* The handlers of the four surfaces around an answer: what each does with *)
(* a request before it asks the upstream, and the body it makes of an      *)
(* answer that is not streamed (completionruntime/nonstream.go).           *)
(***************************************************************************)
EXTENDS GeminiStream

\* A step, and the statuses with which it may refuse the request.
Step(name, refusals) == [name |-> name, refusals |-> refusals]
InputFile == Step("input_file", {401, 500, 502})

\* OpenAI's surfaces take an account before they read the body, and upload the files that
\* are part of it; Claude's and Gemini's read and understand the request first.
ChatSteps ==
  <<Step("account", {401, 429}), Step("body", {400, 413}), Step("inline_files", {400, 500}),
    Step("expert_text", {400, 413}), Step("normalize", {400}), InputFile>>
ResponsesSteps ==
  <<Step("account", {401, 429}), Step("owner", {401}), Step("body", {400, 413}), Step("inline_files", {400, 500}),
    Step("expert_text", {400, 413}), Step("normalize", {400}), InputFile>>
ClaudeSteps == <<Step("body", {400, 413}), Step("normalize", {400}), Step("account", {401}), InputFile>>
GeminiSteps == <<Step("body", {400, 413}), Step("normalize", {400}), Step("account", {401}), InputFile>>

Steps(sf) ==
  CASE sf = "chat" -> ChatSteps [] sf = "responses" -> ResponsesSteps [] sf = "claude" -> ClaudeSteps
    [] sf = "gemini" -> GeminiSteps [] sf = "vercel" -> <<>> \* the server prepares the request for Node
-----------------------------------------------------------------------------
(* A whole answer. *)

\* `kept' is the reasoning of the attempts before, on the same account.
WholeNew == [acc |-> NoText, kept |-> NoText, filter |-> FALSE, upstream |-> FALSE, error |-> NoError, sent |-> <<>>]

\* sse.CollectStream: nothing is cleaned yet.
CollectPart(a, p) ==
  IF p.type = "thinking" THEN [a EXCEPT !.rawThinking = @ \o TrimContinuationOverlap(@, p.text)]
  ELSE [a EXCEPT !.rawText = @ \o TrimContinuationOverlap(@, p.text)]
WholeParsed(s, r) == [s EXCEPT !.acc = FoldAlong(CollectPart, ApplyDetection(@, r), r.parts)]

WholeStop(s, bad) == [s EXCEPT !.filter = @ \/ bad = "filter", !.upstream = @ \/ bad = "error"]

\* The answer with the reasoning of all its attempts.
Gathered(s) ==
  [s.acc EXCEPT !.rawThinking = s.kept.rawThinking \o TrimContinuationOverlap(s.kept.rawThinking, @),
                !.detect = s.kept.detect \o TrimContinuationOverlap(s.kept.detect, @)]

\* The turn is built a second time with the reasoning of all attempts, and without the
\* error the upstream reported.
WholeTurn(s, o) == CollectedTurn(Gathered(s), s.filter, FALSE, o)

WholeAgain(s) == [WholeNew EXCEPT !.kept = Gathered(s)]

Body(turn, text, reason) == [e |-> "whole", text |-> text, calls |-> turn.calls, reason |-> reason]
Either(turn, called, plain) == IF turn.calls = <<>> THEN plain ELSE called

\* An answer that calls tools has no text.
ChatBody(turn) == Body(turn, Either(turn, <<>>, turn.text), Either(turn, "tool_calls", "stop"))
ResponsesBody(turn) ==
  Body(turn, Either(turn, <<>>, IF Blank(turn.text) /\ ~Blank(turn.thinking) THEN turn.thinking ELSE turn.text), "completed")
ClaudeBody(turn, o) ==
  LET said == IF turn.text = <<>> /\ o.thinking THEN turn.thinking ELSE turn.text
  IN  Body(turn, Either(turn, <<>>, IF said = <<>> THEN <<"sorry">> ELSE said), Either(turn, "tool_use", "end_turn"))
GeminiBody(turn) ==
  LET said(text, p) == IF p.call \/ p.thought THEN text ELSE text \o p.x
  IN  Body(turn, FoldAlong(said, <<>>, TurnParts(turn)), "STOP")

WholeBody(sf, turn, o) ==
  CASE sf = "chat" -> ChatBody(turn) [] sf = "responses" -> ResponsesBody(turn)
    [] sf = "claude" -> ClaudeBody(turn, o) [] sf = "gemini" -> GeminiBody(turn)

WholeError(s, err) == [s EXCEPT !.error = err, !.sent = <<[e |-> "error", status |-> err.status, code |-> err.code]>>]

\* An attempt has been read: `again' tells if it may be repeated, `elsewhere' if another
\* account may be asked.
WholeFinalize(s, sf, again, elsewhere, o) ==
  LET later(turn) == \/ again /\ ShouldRetryEmptyOutput(turn)
                     \/ ~again /\ elsewhere /\ (turn.error.status = 429 \/ turn.error.code = "upstream_unavailable")
  IN  Using(WholeTurn(s, o), LAMBDA turn :
        CASE later(turn) -> [s EXCEPT !.error = turn.error]
          [] ~later(turn) /\ turn.error # NoError -> WholeError(s, turn.error)
          [] OTHER -> [s EXCEPT !.error = NoError, !.sent = <<WholeBody(sf, turn, o)>>])
=============================================================================
