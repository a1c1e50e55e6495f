----------------------------- MODULE GeminiStream -----------------------------
(***************************************************************************)
(* internal/httpapi/gemini/handler_stream_runtime.go: an answer as the     *)
(* chunks of the Gemini API.  With tools nothing is sent before the end,   *)
(* when the whole turn is.                                                 *)
(***************************************************************************)
EXTENDS AnswerTurn

GeminiNew == [acc |-> NoText, filter |-> FALSE, upstream |-> FALSE, error |-> NoError, sent |-> <<>>]

Chunk(parts) == [e |-> "chunk", parts |-> parts]
TextChunk(x) == [thought |-> FALSE, call |-> FALSE, x |-> x]
ThoughtChunk(x) == [thought |-> TRUE, call |-> FALSE, x |-> x]
CallChunk(c) == [thought |-> FALSE, call |-> TRUE, x |-> <<c>>]

GeminiPart(s, p, o) ==
  LET chunk(x) == Chunk(<<IF p.type = "thinking" THEN ThoughtChunk(x) ELSE TextChunk(x)>>)
  IN  Using(ApplyPart(s.acc, p, o), LAMBDA d :
        [s EXCEPT !.acc = d.acc, !.sent = IF d.vis = <<>> \/ o.tools THEN @ ELSE Append(@, chunk(d.vis))])

GeminiParsed(s, r, o) ==
  FoldAlong(LAMBDA t, p : GeminiPart(t, p, o), [s EXCEPT !.acc = ApplyDetection(@, r)], r.parts)

GeminiStop(s, bad) == [s EXCEPT !.filter = @ \/ bad = "filter", !.upstream = @ \/ bad = "error"]

GeminiError(s, err) == [s EXCEPT !.sent = Append(@, [e |-> "error", status |-> err.status, code |-> err.code])]

\* buildGeminiPartsFromTurn
TurnParts(turn) ==
  LET some(x, part) == IF x = <<>> THEN <<>> ELSE <<part>>
      parts == some(turn.thinking, ThoughtChunk(turn.thinking)) \o
               IF turn.calls = <<>> THEN some(turn.text, TextChunk(turn.text))
               ELSE [i \in DOMAIN turn.calls |-> CallChunk(turn.calls[i])]
  IN  IF parts = <<>> THEN <<TextChunk(<<>>)>> ELSE parts

GeminiFinalize(s, defer, o) ==
  LET done == [e |-> "finish", reason |-> "STOP"]
      last(turn, result) ==
        CASE result.error # NoError /\ defer -> [s EXCEPT !.error = result.error]
          [] result.error # NoError /\ ~defer -> GeminiError(s, result.error)
          [] OTHER -> [s EXCEPT !.sent = @ \o (IF o.tools THEN <<Chunk(TurnParts(turn))>> ELSE <<>>) \o <<done>>]
  IN  Using(BuildTurn(s.acc, s.filter, s.upstream, FALSE, <<>>, o), LAMBDA turn : last(turn, FinalizeTurn(turn, FALSE)))
=============================================================================
